# Divvy in TLA+

Divvy is a shared-expense application: groups of people record expenses and
payments, see who owes whom, and settle up. It is one Next.js server over one
SQLite file, and a browser client that works offline. This directory specifies
the part of it where money can go wrong, checks it with TLC on small instances,
and proves its invariants and action properties with TLAPS for every instance.

Paths below are relative to the repository (`src/` is its root, so the program's
own code is `src/src/`).

## 1. Inventory

| part | state it keeps | operations | what makes it correct |
|---|---|---|---|
| One SQLite connection (`lib/one-at-a-time.ts`, `lib/db.ts`) | the database; a promise queue of turns | a query takes a turn; a transaction keeps it from BEGIN to COMMIT | a transaction is never interleaved with another handler's query; every turn is given back |
| Sheet cache (`server/ledger.ts`) | a module-level `Map`: group -> sheet and the version it was read at; `Group.ledgerVersion` | `groupSheets`, `remember`, `bumpLedger` | a sheet served is the fold of the rows; every write that moves money bumps (the import does not, see section 6) |
| Settle-up queue (`server/mutex.ts`) | a `Map`: key -> the promise at its tail | `serialize(key, work)` | one at a time per key, in order, released whatever `work` does |
| Expenses (`api/expenses/*`, `server/write.ts`, `server/expense-input.ts`) | `Expense`, `Split`, version (`updatedAt`), the sign-in that last wrote | create, edit, delete, restore | bills add up; replays file nothing; no edit over an unseen version; a tombstone is never edited |
| Payments (`api/settlements/*`) | `Settlement`, `batchId` | record, settle several ledgers at once, undo, restore | never more than is owed; a transfer is whole; undo and redo meet the group's membership |
| Members, invites, merging (`api/groups/[id]/members/*`, `api/invite/*`, `api/people/[id]/merge`, `server/merge.ts`) | `Membership`, `Friendship`, ghost `Person` rows | remove or leave, add, join, claim a placeholder, merge | nobody leaves owing; a merge conserves money; a group with members has an owner |
| Balances and splits (`lib/balances.ts`, `lib/split.ts`, `lib/money.ts`) | none | fold, `standing`, `pairNet`, `apportion`, six split modes, debt simplification, conversion, exact rates | sums conserved to the minor unit; pairs and totals agree |
| Jobs (`server/jobs.ts`) | `JobLock` rows; the lease each process believes it keeps | `withJobLock` | no two processes run one job at once (see `JobsOverlap`, and "The leases") |
| Repeating expenses (`server/recurrence.ts`, `lib/zoned.ts`) | `Recurrence.nextRunAt`, `active` | post what is due, pause, resume, reschedule, end | each occurrence is filed once, on its day, and none while it is paused, but for a run already in flight; that a pause stays is *not* so (`StaysPaused`, section 3) |
| Outbox (`lib/client/outbox.ts`) | two IndexedDB stores: queued and refused changes | enqueue, flush, retry, discard | no change is lost or sent out of order; a refusal is kept for the user |
| Optimistic cache (`lib/client/optimistic.ts`, `queries.ts`) | query cache, its staleness and its fetches | apply, take back, refetch | a refused change leaves no trace; what stays on screen is what the server has |
| Identity (`lib/identity.ts`, `api/identity/*`, `server/passkey.ts`) | accounts, credentials, sessions, device links, challenges | sign in by key, passkey or code, add and remove ways in, delete the account | a code or challenge is spent once; nobody is left without a way in; deleting an account leaves its ledgers whole |
| Groups, friends (`api/groups/*`, `api/friends/*`) | `Group`, `Friendship` | create, rename, archive, delete; befriend, end | nothing is deleted or ended with a balance in it |
| Notifications (`server/push.ts`, `api/push`) | `notifiedAt`, subscriptions | mark, send, drop, turn on and off | an entry is sent to a phone at most once |
| Rate limits (`server/rate-limit.ts`) | a `Map` of fixed windows | `consume`, `evict` | whoever is refused stays refused until the window ends |
| Reads and small writes | activity, comments, budgets, nudges, search, export, import, health | | |
| Screens, service worker | | | |

### How they interact

A request passes the rate limit and the session check, and its body a schema;
then its handler runs as one asynchronous function. **Between any two of its
awaits other handlers run.** Each query, and each transaction as a whole, takes
one turn on the connection, so the database never sees half a transaction, and
the only interleaving there is is the one between awaits. Handlers share the
rows, the sheet cache and the settle-up queue. A restart (a deploy, a crash)
loses the cache, the queue and every handler in flight, and keeps what was
committed. A client that hears no answer sends the same request again with the
same id; a client that was offline sends an edit built on an old version.

So the hard behaviours are: reads that are stale when used (the balance of
somebody who is leaving, what a debt still is, the membership a restore
trusts), a cache filled by several queries, the two ends of one debt settled
at once on different keys, replays racing the original, restarts between two
writes that belong together, and rows rewritten under a handler by a merge.
Around the ledger: background jobs on a timer in every process, each run working
from what it read when it began; several tabs of one device over one queue
of unsent changes; a cache on screen that is ahead of the server and behind
it at once; and arithmetic in whole cents that has to come to the same total by
every road. `hazards` in PROJECT.json lists each at the line where it bites.

## 2. Modules

    Ledger ──┬── Expenses ────┐
             ├── Settlements ─┼── Divvy ──┬── MCDivvy        (TLC)
             ├── Members ─────┤           └── Divvy_proofs ── Serial_proofs   (TLAPS)
             └── Endings ─────┘

    Outbox ──┬── MCOutbox        (TLC)
             └── Outbox_proofs   (TLAPS)

    Jobs ─────── MCJobs          (TLC)

    Figures ─┬── Composer ──────┐
             └── Screen ────────┤
    Store ────── Turns ─────────┤     (Turns implements Store)
    Recurrence ─────────────────┼── MCServices      (TLC)
    Calendar, Limits ───────────┤
    Push, Identity ─────────────┤
    Jobs, Outbox ───────────────┘

    Composer ────────────────────────────┬── Composer_proofs     (TLAPS)
    Recurrence, Calendar ────────────────┼── Recurrence_proofs
    Turns, Jobs, Screen, Push, Limits ───┼── Services_proofs
    Identity ────────────────────────────┴── Identity_proofs
    Sums, under all of these but the last, and under Serial_proofs

* **Ledger** declares the shared state and models what every handler uses: bills
  and balances, the sheet cache (`SheetVersions`, `SheetExpenses`,
  `SheetPayments` are the three queries of `groupSheets`), the settle-up queue
  (`Enqueue`, `HasTurn`, `Released`) and how a handler moves from await to await.
* **Expenses**, **Settlements**, **Members**, **Endings**: the handlers. Endings has what
  begins and ends connections: befriending and parting, deleting a group, deleting an
  account. An endpoint is a chain
  of actions, one per await, named after the endpoint and what it does there:
  `EditLoad`, `EditInvolve`, `EditCheck`, `EditCommit` for
  `PATCH /api/expenses/[id]`. Their CONSTANTS are what clients may send.
* **Divvy** composes them: requests arrive, handlers interleave, the server
  restarts. It states the properties.
* **MCDivvy** only gives the constants small values.
* **Outbox** is the client's side: the device's two IndexedDB stores, and the tabs
  that flush them. It meets the server only through what a request may come
  back with (`Answered`, `Unreached`), which is what the endpoints above promise a
  replay. It is a system of its own, not composed with Divvy.
* **Store** is the database as every handler takes it: a query or a transaction
  happens at one instant, wholly or not at all. **Turns** is how `oneAtATime`
  makes the one connection into that: turns of queries and whole transactions,
  statements sent one by one, commits and rollbacks that fail, restarts.
  `TakesOneAtATime` says Turns implements Store, under the mapping that a
  statement takes effect when its client is told, and that a transaction saw
  what was committed when it began. It is the reason why one action per query
  and one per transaction is the right grain of all the other modules.
* **Recurrence** is one repeating expense: `processRecurrence` as a chain of
  actions per run, `PATCH` and `DELETE` of `recurrences/[id]`, members who leave, and
  time. A day is an occurrence. **Calendar** is what that leaves out: `nextOccurrence` in
  months, years and zones whose clocks change, and the id an occurrence gets.
* **Figures** has the pure algorithms as operators: the split modes, `apportion`,
  `convert`, an expense's and a payment's effect on balances and pairs,
  `simplifyDebts`, `exactRate`. **Composer** runs them over what may be typed: a bill
  composed in any mode, checked and filed by the server, paid back. **Screen** uses
  the same operators for what a device shows of a group before the server has
  answered: rows added, hidden and taken back in the query library's cache, the
  refetches that race them, and the flushes of the outbox behind it.
* **Limits** is the `Map` of `server/rate-limit.ts`; **Push** the job that sends the feed
  to phones, with the endpoint that turns a phone on and off; **Identity** the
  ways into an account and the requests that make, use and remove them.
* **MCServices** gives these small values, with Jobs and Outbox for their liveness. They
  share no state; `part` says which of them a behaviour is of, so one run
  checks each alone and its cost is their sum, not their product.
* **Jobs** is one background job and the lease in `JobLock` that its runners take:
  the ticks of each process's scheduler and, if there is one, the endpoint an outside
  cron calls. Also a system of its own: what the job does is one state, `"work"`.
* The modules named **..._proofs** hold the theorems: **Divvy_proofs** those of interleaved
  handlers, **Serial_proofs** those about sums of money, about one request at a time, and
  about leaving and coming back however requests interleave, **Services_proofs** those of the small systems of the server and the client,
  the others those of the modules they are named after. **Sums** has the lemmas they
  share, on sums over finite sets and on recursion over the numbers. **MCOutbox** and
  **MCJobs** give their modules small values.

### State and code

| variable | code |
|---|---|
| `people`, `member`, `owners`, `friends` | `Person.isGhost` and existence, `Membership` (active: `leftAt` is null; left: it is set) and its `role`, `Friendship` |
| `expenses`, `payments` | `Expense` + `Split`, `Settlement`; `deleted` is `deletedAt`; `version` is `updatedAt`; `session` is `lastEditedSessionId` |
| `ledgerVersion` | `Group.ledgerVersion` |
| `cache` | the `Map` of `server/ledger.ts` |
| `announced` | how many "created" rows of `Activity` name a row |
| `pc`, `req`, `seen`, `reading` | the await a handler is at, the request it answers, the local variables it will use after it |
| `on`, `waits` | the chain of promises of `server/mutex.ts` |
| `disbanded` | the `Group` rows that were deleted |
| `arrived`, `strayed` | a bound and a history variable of the model |

Of the outbox:

| variable | code |
|---|---|
| `typed` | the order of `createdAt` |
| `queued`, `attempts` | the store "outbox" and the `attempts` of its entries |
| `refused` | the store "rejected" |
| `pc`, `left`, `tries`, `current`, `answer` | where the loop of `flush` is in a tab (idle is `flushing = false`), the snapshot `pending()` gave it, the change being sent and what came of it |
| `retrying` | the local `entry` of `retryRejected` and how far it has got |
| `filed` | what the server has committed, of what this device typed |
| `told`, `retried`, `closes` | dismissed in the banner; a history variable; a bound |

Of the jobs:

| variable | code |
|---|---|
| `holder`, `left` | the row of `JobLock`: whose it is, and `expiresAt` less the time now |
| `keep` | the option of that name, decided by the job's interval |
| `kept` | the `Map` of each process, less the time now |
| `pc`, `age` | where each call of `withJobLock` is, and how old its `now` is, or how long it has been running `fn` |

Of the connection (Turns; those of Store are `log`, what is committed, and what
each client was told and saw):

| variable | code |
|---|---|
| `last`, `ahead`, `over` | the promise `tail`, the promise each `turn()` waits for, and those resolved |
| `stage` | where each client of `oneAtATime` is: waiting, in a transaction, ending it, holding a turn it has yet to give back, told |
| `rows`, `open`, `inside` | SQLite: what is committed, whose transaction is open, and what has run since BEGIN, whoever sent it |
| `sent`, `view`, `restarts` | how far each transaction has got, what it saw as it began, and a bound |

Of a repeating expense:

| variable | code |
|---|---|
| `schedule` | the `Recurrence` row: there, `active`, `nextRunAt`, `endsAt` |
| `barred` | has somebody in it left the group |
| `filed`, `fired` | the occurrences with an `Expense` row, and how often each was announced |
| `run` | each run of `processRecurrence`: the await it is at, the row as it found it, `now`, `cursor`, `iterations`; `stale` is history: somebody changed what it had read |
| `loaded` | the row as a `PATCH` has read it and not yet written |
| `skipped`, `edits`, `troubles` | history (days a person chose to skip), bounds |

Of its calendar: `series` is the zone, frequency, interval, `dayOfMonth` and start; `dueAt` is
`nextRunAt`; `passed` and `ids` count what came due and the ids it was filed under.

Of a bill: `form` is what the composer has resolved, `sheet` the group's balances and pairs,
`posted` the payments since, `quote` a debt and what a payment at the exact rate takes off it.

Of a screen:

| variable | code |
|---|---|
| `server` | the expenses the server has |
| `change` | each change's mutation: being sent, queued, filed, refused, waiting for a retry |
| `listed`, `shown` | the cached ledger rows and the cached balance sheet |
| `stale`, `due`, `fetch` | `invalidateQueries`; a refetch held back while the flourish plays; the fetch in flight, what it has read, and whether it began too early |
| `flushing`, `flushed`, `untold` | `flush` and who began it (the sweep tells the screen what it delivered, the banner does not), and history |

Of the rate limits: `windows` is the `Map` in its insertion order, `refusedTo` remembers until when
each caller was told to wait.

Of the notifications:

| variable | code |
|---|---|
| `pending`, `outdated` | `Activity` rows with no `notifiedAt`; those past `FRESH_FOR_MS` |
| `subs`, `turningOn` | `PushSubscription` rows; where a POST of each phone is between its count, its delete and its upsert |
| `doing`, `batch`, `targets` | each run of `sendPendingNotifications`: its await, the entries and the rows it has left |
| `received` | history: how often each phone was sent each entry |

Of the ways into an account:

| variable | code |
|---|---|
| `deletedAccounts`, `credentials`, `sessions` | `Person.deletedAt`, `Credential`, `Session` rows |
| `links`, `challenges` | `DeviceLink` rows with `usedAt`; `WebAuthnChallenge` rows |
| `call` | the request each device has in flight: which, the await it is at, what it has read |
| `let`, `minted`, `calls` | history: who was let in by which code; what is fresh; a bound |

### What is abstracted

* A bill is an amount, who put down how much and who owes how much. Items,
  split modes, notes, receipts, categories and dates never change who owes whom
  once the columns are computed. Zero shares are no shares. There is one
  currency; amounts are small integers.
* A sheet is represented by the rows it folds; `Net` and `PairNet` are what the
  handlers read off it. `Spread` and `Claim` round down where the code
  apportions the remainders; bills of the instances divide exactly.
* Queries that follow each other with nothing another handler could write
  between them that either would notice are one step: `loadExpense` and the
  access check, the two history counts of a removal, a ghost's membership row and
  the person row it hangs from, the group and the claimed membership of a join,
  the direct rows and the list of groups of `sharedLedgers`, the SELECTs one
  `findMany` issues. The last is justified by the connection queue only in that
  a nested `include` shares the transaction.
* The entry evicted from a full cache is any, where the code evicts the oldest:
  more behaviours, so what holds here holds there. The successor of an owner is
  any member with an account, where the code picks the one longest there.
* An expense's version counts writes. The code compares `updatedAt`, a
  timestamp in milliseconds: two writes within one millisecond share a version
  there and not here (a hazard of its own).
* Deleting a group cascades to everything in it. What it had stays in the variables and is
  there for nobody: every handler asks `Stands` or `There` where the code would find no row,
  or a foreign key would refuse one.
* A person whose account is deleted keeps their row and takes no more requests; those in
  flight go on. Which of the remaining members inherits a group is any, as above.
* Only the feed entries that say something was created are counted.
* `LedgerOf` gives the ledger of a payment id; an id is never used in two
  batches, as clients mint them from random UUIDs.
* In the outbox a change is typed once, under an id of its own. The code reuses the
  ids of deletes and restores (`del_<id>`), a hazard no property covers. A
  change may be refused by the server at any time, even one it filed before
  (a session ended). `discardAllRejected` is one dismissal after another. Emptying
  both stores on signing out is left out.
* Times of the jobs are counted from now, so that no bound stops the clock; what is
  long past is all alike (`Over`). The processes read one clock: during a
  deploy they are two processes on one host. A tick comes at any moment, which
  includes every sixty seconds.
* In Turns a statement is its client and its number; what it does is to be in the log. A
  restart ends every request in flight, so that those that had not committed are
  told they failed.
* In Recurrence a statement that fails for a moment and one that can never succeed
  are two outcomes of the same await. The group's members are one bit.
* In Calendar the time is in hours since the start of `FirstYear`, as no zone of the
  instance is at half an hour; a zone changes its clocks at most once. No month is
  longer than 31 days, so `MonthOf` looks no further back.
* Percentages are whole in Figures, as is every amount; `FewestPlaces` and `MostPlaces` are
  the 12 and the 24 decimals of a rate, 1 and 5 in the instance, with debts of up to three
  digits. `simplifyDebts` sorts once and goes down two lists; `SimplifyDebts` takes the
  first of those left in the same order, a turn for each person, which is more than it
  needs. `ExpenseEdges` and `ItemizedSplit` are folds where the code loops.
* What a deleted group or an erased row once held stays in the variables; `BillsAddUp` and
  `NoSelfPayment` are about rows that are `There`.
* A screen has one group. Edits, payments, the home screen's totals and a friend's screen
  take the same path through `applyOptimisticWrite` and are left out. A flush is
  heard in any order, where Outbox shows in which it is sent. What is written to the query
  cache by hand loses its mark of being out of date (`WrittenByHand`), as the query
  library's `setQueryData` has it.
* In Push a tick's first three queries are over before the next tick begins (fifteen seconds later);
  what follows may take as long as it likes. Wording, and servers where
  notifications are not set up, are left out.
* In Limits `count` stops one above the allowance, past which nothing reads it.
* In Identity a `findFirst` and the `count` after it are one step where no other request
  could tell; codes and sessions that run out, the cookie from before there were
  sessions, the limit of passkeys and the throttles are left out (each a refusal
  more); `confirmItsYou` asks for a credential the account has.
* Who created a placeholder, and membership row ids, are not modelled. (Two comments,
  `groups/route.ts:43` and `merge.ts:5-8`, say a placeholder's row is upgraded in place when
  its owner joins; no code does that. `join` merges it into the person: `JoinClaim`.)

## 3. Runs

Bounds are in the cfg files: one or two groups and the direct ledger, three or
four people of whom one is a placeholder, one or two expenses, up to four
payment rows, `MaxRequests` requests in a behaviour, `MaxCached = 1` so that the
cache is full at once. Two handlers suffice for every race of a read and a write listed: each is
between one handler's read and its write, and one other. A queue takes three, one inside and
two behind it, which is what `DivvySettle` has. Handlers are
interchangeable (`SYMMETRY`), except in the run that checks liveness.
`CHECK_DEADLOCK FALSE` because a behaviour stops when its requests are spent and
answered; that none stops earlier is `Answered`.

| run | shows | bounds |
|---|---|---|
| `DivvySerial` | `BillsAddUp`, `NoSelfPayment`, `SettledToLeave`, `RestoreReopensNobody`, `MergeConserves` over any order of requests to sixteen endpoints | one handler at a time, 4 requests, an expense in the group and one between two friends already filed, 221 thousand states |
| `DivvyExpenses` | `CacheCoherent`, `AnnouncedOnce`, `NoLostEdit`, `WritesBump` under interleaving, restarts, eviction and a group deleted | 2 handlers, 3 requests, 2 groups |
| `DivvyPayments` | `TypeOK`, the inductive invariant `IInv`, `AnnouncedOnce`, `BatchWhole` | 2 handlers, 3 requests of which some delete the group or an account, a transfer over two ledgers |
| `DivvySettle` | `DebtPaidOnce`, `OneAtATime` and, under fairness, `Answered` | 3 handlers, 3 requests, the same debts settled from both ends: three in one queue, 45 thousand states |
| `Outbox` | `Kept`, `SentInOrder` and the inductive invariant `IInv` of the outbox (it has `TypeOK` in it): nothing typed is lost, nothing overtakes | 2 tabs, 2 changes of which one needs the other, 2 attempts, one retry by hand, one tab closed |
| `Services` | each part on its own, see the next table | 237 thousand states in all |
| `JobsOverlap` | **violated**: `OneRunner` | 2 ticks of one process |
| `LeaveRace` | **violated**: `SettledToLeave` when two handlers interleave | 2 handlers, 2 requests |
| `SettleRace` | **violated**: `BatchWithinDebt` | 2 handlers, 2 requests |
| `OwnerLost` | **violated**: `GroupHasAnOwner` across a restart | 2 requests |
| `AccountNets` | **violated**: `AccountSettled` | one handler, 2 requests, two direct expenses |
| `MissedDay` | **violated**: `NoDayMissed` | the calendar alone, schedules at noon |

Two tabs and two changes reach what the outbox has to survive: both tabs send the same
change, one removes or refuses it while the other puts it back, and a
comment waits behind an expense that fails. Two attempts are enough for a tab to
put a change back and for one to give up, with counts the other tab has
overwritten. A retry by hand puts a change back in the queue at its old place.

What `Services` checks of each part (`expect` is pass for all of them):

| part | properties | bounds |
|---|---|---|
| job | `OneProcess`, the inductive `IInv`; fair: `JobKeepsRunning` | 2 processes, a lease of 4, runs and waits of at most 2, 2 crashes, both kinds of job |
| connection | the invariant `TurnsInv`; `TakesOneAtATime` (the refinement); fair: `EachIsServed` | a query and two transactions of two statements, each statement, BEGIN, COMMIT and ROLLBACK may fail, one restart |
| repeating | the invariant `RecurrenceInv`, `NeverWoundBack`, `FiledAsAsked`; fair: `CatchesUpAgain` | 2 runs, a backlog of two days with `MaxPerRun` 2, one edit by a person, one failure or restart |
| bill | `SharesAddUp`, `ScreensAgree`, `SettlesUp`, `ExactRatePays` | 4 people, every mode, 4 entries per person, 7 debts by 7 payments at two scales |
| screen | `Settled` | 5 people, two expenses, two changes, every refetch and flush |
| calendar | `KeepsItsTime` | every frequency, every day and hour of interest in six zones, 3 occurrences from 2028 |
| limits | `StaysRefused` | 3 callers, a Map of 2, an allowance of 2, one restart |
| push | `SentOnce` | 2 runs, 2 entries, a phone that two people sign in on, one restart |
| account | `CodeWorksOnce`, `AlwaysAWayIn` | one account, two devices, 4 requests |
| outbox | fair: `EachChangeIsHeard` | as in `Outbox`, no retry by hand, no tab closed |

A lease of 4, runs of 2 and waits of 2 are the tightest that `Quick` allows: a run begun
at the last moment ends as the lease does, so a `<` that should be `<=` shows. Two
transactions and a query are every pair that can meet on the connection with one
more behind; two statements are enough for something to get between.
Two days of backlog reach the end of a run by date and by count; a second run with one edit
reaches every stale read of the first. A total of 4 among 4 with two payers has every
remainder; entries go below zero because the composer's adjustments do. The
party of five on screen has two who paid and three who owe, the smallest
where taking an expense back rounds differently. A Map of 2 with 3 callers evicts. Two
devices with four requests reach every pair of requests in flight with two before them.

Four requests in sequence reach settle, leave, close or merge, and restore;
three interleaved ones reach every pair of endpoints racing with a third request
before or after them. Requests that find nothing to do are answered and count.

`DivvySerial` checks five properties with one handler at a time because
interleaved they fail, all through the same window (a handler trusts what it
read some awaits ago); `LeaveRace` is kept as the one counterexample of it.

### What the six violations show

* **`LeaveRace`.** A member's balance is read, it is zero, an expense naming them
  is committed, and they are marked as left, owing. The endpoint's comment
  says removal is "Refused while they still have a balance".
* **`SettleRace`.** A payment inside a group queues on the group's key, a settle-up
  across ledgers on the pair's. Both read the debt, both pay it. The comment in
  the batch endpoint says two devices "used to settle the same debt twice".
* **`OwnerLost`.** Leaving and naming a successor are two writes. A restart between
  them leaves the group without an owner; the person who left can no longer ask.
* **`JobsOverlap`.** A process that keeps a lease trusts it at every tick, and a tick
  does not know that the last one is still running. The schema says two ticks of one
  process "never run the same job at once".
* **`AccountNets`.** Ana owes Ben what Cam owes Ana, none of it in a group. What is asked
  before her account is deleted is one figure for each currency, over all her friends; it
  is zero, and both friendships end with the debts open. The endpoint is
  "Refused while they still owe or are owed anything". Within a group the same figure is
  what leaving asks for, and there the group keeps the record.
* **`MissedDay`.** A daily expense at noon in a zone thirteen hours east: on the day the
  clocks go forward two occurrences fall on one UTC day, have one id, and the second is
  answered as a replay of the first. `runDueRecurrences` "Posts every occurrence
  that has come due".

Smaller disagreements met on the way, with no run of their own:

* A change is waiting; the offline banner's Retry delivers it, or the server refuses it, and
  nothing tells the screen, which keeps the row. The comment of `startAutoFlush`
  (`outbox.ts:312-313`) promises a signal "after a flush that changed anything". `Settled`
  holds because it leaves such flushes out; `FlushShown` of Screen does not and fails.
* A direct expense or payment that is deleted, and restored after one of the two has deleted
  their account, opens a debt with "Deleted user": a restore asks nothing of accounts.
  `SettledToLeave` looks at the moment somebody leaves, and so does not see it.
* Leaving a group may pass it to a closed account that a race left among the members
  (`members/[personId]/route.ts:92` asks only whether they are a placeholder, where
  deleting an account asks both).
* Folding a refused expense back out of the cached balances is said to cancel
  "exactly what was added" (`optimistic.ts:52-55`). With two payers and three who owe
  the negated event rounds differently and leaves a cent on two pairs until the next
  fetch: `ReversalCancels` of Screen, as an invariant of `Services`, shows it.
* A split "valid and safe to save" (`split.ts`) may hold negative exact amounts, which
  the server refuses (`write.ts`); `FileBill` of Composer has that check.
* A second run "is never rolled back" (`recurrence.ts:356-357`) is true of
  `nextRunAt` (`NeverWoundBack`), not of `active`, which a run writes back as it read it
  (line 363). A pause made by another run, because somebody left, is undone until the run
  after. One that a person makes is undone for good: a run finds the schedule and files a
  day, the person pauses it, the run ends and switches it on. "The pause was
  deliberate" (`recurrences/[id]/route.ts:52`); `StaysPaused` of Recurrence, as a property of
  one run, one edit and two days, shows it in nine states. `FiledAsAsked` does not
  see it: it is about what is filed, and leaves out runs that had read the row before.
* "Call inside the same transaction as the write" (`ledger.ts:43-45`): the import writes
  each payment on its own and bumps once, at the end (`import/splitwise/route.ts:135-150`,
  183). `WritesBump` holds of the endpoints modelled, of which the import is none.
* A wall time in a spring gap "resolves to the instant just after it" (`zoned.ts`); west of
  UTC the two corrections end before it (02:30 in New York becomes 01:30).
  `KeepsItsTime` leaves out series with an occurrence in a gap.
* What is only about somebody "goes" when they delete their account
  (`identity/account/route.ts:91-93`), but a request that was past its session check may
  still leave a credential, a session or a code. They open nothing, as every use asks
  whether the person is deleted.

### Fairness

`FairSpec` assumes weak fairness of `Handle(p)` for each handler: the event loop
resumes a function whose promise has settled. Nothing is assumed of arrivals or of
restarts. A handler waiting its turn is not enabled, so that it gets it
(`Answered`) rests on every other one releasing, which is `Released`, the
`finally` of `serialize`.

`FairSpec` of the outbox assumes that a tab starts a flush while something is queued
(the sweep of `startAutoFlush`, every thirty seconds), that it goes on with what it
has begun, and that a request that can be answered infinitely often is in the end:
the network may fail any number of times but not for ever. Nothing is assumed
of what the answer is, and a server that fails on a change for ever does not
stop the others.

That of the jobs assumes that time passes, that ticks keep coming and that what has
begun ends: `setInterval`, and the bound `MaxRun`. Time does not pass while a run is at
its longest, which is what makes it a bound.

`ServicesFairSpec` takes these over, each for the part a behaviour is of, with: the connection
serves whoever has a turn (a statement sent to SQLite comes back, one way or another);
a run of a repeating expense is begun again and again and goes on with what it has begun. The
conditions of one actor (a tick, a run, a tab) are merged into one, which says the same:
an actor has at most one step it can take, so a step of its own is the step that was
enabled. Nothing is assumed of people, of failures, of restarts, or of the days.

## 4. Proofs

What TLC checks on small instances, TLAPS proves for every value of the constants. In
the tables below the second column is the property of section 3 that the theorem
states.

`Divvy_proofs`, for any sets of people, groups, ids, any number of handlers, any bills
and batches and any cache size:

| theorem | states | in words |
|---|---|---|
| `Invariance` | `IInv` | the inductive invariant of the cache |
| `TypeCorrect` | `TypeOK` | beyond shapes: each handler is at an await of the endpoint its request is for, so no action reads a field its request lacks |
| `CacheServesTheBalance` | `CacheCoherent` | a sheet cached at a group's current version is the fold of its rows now |
| `EveryWriteBumps` | `WritesBump` | a group's sheet never changes under one version |
| `SettlesOneAtATime` | `OneAtATime` | of two handlers queued on one key, exactly one waits for the other |
| `NobodyInside` | | no two of them are past their turn at once |
| `NothingOverwritten` | `NoLostEdit` | an edit lands on the version its editor saw, or one of their own sign-in |
| `TransfersStayWhole` | `BatchWhole` | the rows of a transfer are in the bin together or out of it together |
| `TellsOnce` | `AnnouncedOnce` | what was filed is told once at most in the feed, and a batch as one payment |

`Serial_proofs`, for the same constants. Some need a hypothesis on which requests interleave
(see Assumptions); where none is given, any number of any requests do:

| theorem | states | if | in words |
|---|---|---|---|
| `EverybodyGrounded` | | `Unremoved` | whoever a row names has a seat in its ledger, and what a handler has checked still holds when it writes |
| `EveryBillAddsUp` | `BillsAddUp` | `Unremoved` | every expense is paid for and owed in full, through edits, merges, leaves and ended accounts |
| `MergingConserves` | `MergeConserves` | `Unremoved` | a placeholder folded into somebody brings its whole balance and nothing else |
| `NobodyPaysThemselves` | `NoSelfPayment` | `Unremoved`, `Undisturbed` | no payment is from somebody to themselves |
| `DebtsPaidOnce` | `DebtPaidOnce` | `OnlySettling` | settle-ups and undos in flight from both ends turn no debt round |
| `LeavesSettledAsRead` | | | whoever leaves, parts or sees their group go is even in every ledger to which nothing was committed since the handler read it |
| `NobodyBroughtBack` | | | somebody with an account who left gets a seat again only by joining, being added or taking over a placeholder, never by a restore |

The last two are what interleaved requests leave of `SettledToLeave` and
`RestoreReopensNobody`. Those two fail when requests interleave (`LeaveRace`), are checked
one request at a time in `DivvySerial`, and are no theorems.

The pure algorithms, and the parts that are systems of their own:

| theorem | states | for any |
|---|---|---|
| `Composer_proofs`: `WholeTotalShared`, `TwoScreensOneAnswer`, `PlanSettlesUp` | `SharesAddUp`, `ScreensAgree`, `SettlesUp` | people, totals, entries, receipts, bills and payments before |
| `Composer_proofs`: `RateIsExact` | `ExactRatePays` | debts, payments and scales, if `PlacesEnough` |
| `Outbox_proofs`: `OutboxTypes`, `OutboxInvariant`, `NothingLost`, `InOrder` | `TypeOK`, `IInv`, `Kept`, `SentInOrder` | tabs, changes, attempts and closed tabs |
| `Services_proofs`: `AlwaysCovered`, `LeasesExclude` | `IInv`, `OneProcess` of Jobs | processes, ticks of each that overlap, outside crons and lease, if `Quick`, until a lease is given back under a run (`GivenBackUnder`) |
| `Services_proofs`: `KeptLeasesExclude` | `OneProcess` of Jobs | processes, ticks of each that overlap and lease, if `Quick`, for a job that keeps its lease and that no cron asks for |
| `Services_proofs`: `TurnsInOrder`, `ImplementsStore` | `TurnsInv`, `TakesOneAtATime` | clients, transactions, statements, failures and restarts |
| `Services_proofs`: `ComesToShowTheServer` | `Settled` | people, expenses and amounts |
| `Services_proofs`: `NobodyTwice`, `OneRowEach` | `SentOnce` | runs, entries, phones, people, batch size and rows |
| `Services_proofs`: `RefusalsStand` | `StaysRefused` | callers, allowance, span, size of the Map and restarts |
| `Recurrence_proofs`: `RepeatsInOrder`, `RunsGoForward`, `FiledAsItStands` | `RecurrenceInv`, `NeverWoundBack`, `FiledAsAsked` | runs, calendars, edits, failures and restarts |
| `Recurrence_proofs`: `SeriesKeepsItsTime` | `KeepsItsTime` | zones, starts, frequencies, intervals and occurrences |
| `Identity_proofs`: `CodesWorkOnce`, `KeepsAWayIn` | `CodeWorksOnce`, `AlwaysAWayIn` | accounts, devices, keys, codes and challenges |

With these every invariant of a passing run, and every action property, is a theorem under
the hypotheses given, but for `SettledToLeave` and `RestoreReopensNobody`, which the code does
not keep when requests interleave. They, and the five liveness properties, are left to TLC.

### The arguments

**The cache.** `CacheCoherent` is not inductive. What is cached comes from
rows read in two queries, so a handler between them must be known to hold
expenses that are current *if* the version it read first still is
(`ReadingCoherent`). Writers must be known to bump the group whose rows
they change: an expense must still be there when its handler commits
(`RowsFound`), and a payment's ledger must be the one its id was
filed in (`LedgersKept`). `IInv` is the conjunction of the four with `TypeOK`;
TLC checks it in `DivvyPayments`.

Every step is shown to fall into one of three kinds: it leaves rows, versions and
cache alone; it writes rows and bumps (`BumpsWhatItChanges`); or it
fills the cache. One lemma per endpoint says its steps have the second
property, one lemma says that property and the invariant give coherence after
the step. Type correctness has one lemma per action.

`CacheCoherent` and `WritesBump` leave out the groups in `Astray`:
those that were deleted, and those where at some moment a live row named somebody with no membership row.
That is the window in which a placeholder without history is being deleted
while an expense is filed for it: the cascade then removes its share, and no
version moves. `strayed` remembers such groups so that the exclusion
is visible in the statement, and covers exactly that hazard.

**How handlers move.** The four invariants below need less than the actions say: which
await a step may lead to, and which variables it leaves alone. `Moves(p)` is that
summary, and `HandleMoves` proves it once for every action, from one lemma per
group of endpoints: it writes the queue only if it joins or leaves one, and expenses
and payments, the feed, or what kind of person somebody is, only from the few actions named in
`Touches`. It comes to a place where it will write (`Acting`), tell (`Telling`) or add
somebody (`Seating`) only from the actions named in `GoesOn`. The proofs then go through
those one by one, and through all the others at once.

**The queue.** `InLine` adds to `OneAtATime` what a handler's key and its waits mean (`KeysHeld`): it
has a key exactly while it is at a place on one, it waits only for handlers on that key, and
past its turn it waits for nobody. Then whoever joins waits for all who are there,
whoever leaves is waited for by nobody, and of two on one key one still waits, so
that it is not inside.

**Edits.** `EditorsKnow`: what an editor checked before its write is still true of the row, or
the row has changed version since, and the write asks for the version again. It
rests on `RowsAge`, which every step has: a version only grows, and a row that
changes gets a new one unless only its place in the bin does.

**Transfers.** `FiledWhole` is what `BatchWhole` rests on: where one row of a batch is filed all
are, under that batch and between the same two people, in whichever ledgers. Beside it stands
`SeenWhole`: of any batch, the rows a handler read to mark are all there are or none,
but for those whose group is gone. A
transfer is therefore marked whole though it is read and marked in two transactions, because
nothing adds to it or takes one row from it in between: filing is one transaction
(`BatchFiledWhole`), a merge moves the pair in all of them (`AbsorbedWhole`), a person
erased is one of the pair in all of them or in none (`ErasedWhole`), and a group deleted
stays deleted (`KeptForGood`). The proof needs that two batches share no row, which the client
sees to by numbering the rows of a batch after it (`queries.ts:669`);
`SettlementsAssumption` says so. Without it the property is false: two batches that both
mention one id file it in whichever comes first, and undoing either leaves the other half.

**The feed.** A handler tells of what it filed in a transaction of its own, and a replay is
turned away only while the row is there. But a row may be erased, with a placeholder it
names, and its id then looks free to a replay. `ToldOnce` says what saves the feed: an id
told of, or about to be, is `Spent`, that is, its row is there or somebody its draft
names is gone, in which case the foreign keys refuse it for good (`SpentStays`). That needs
payments to name those of their draft or people with accounts (`EndsKnown`: a merge puts
a person with an account in a placeholder's place, and only placeholders are erased), and a
placeholder's id never to be given out again (`WhoIsWho`: two handlers never add one person,
and `people` never comes back from "gone"). An expense is never erased at all (`Kept`). A batch
names one row in the feed, its first, and two batches share none.

**Sums.** A net is a sum over the rows of a sheet, and the library's induction theorems
take an operator, which these provers cannot instantiate. `Sums` goes round that: an induction
over sets (a subset of the numbers with 0 in it and closed under + 1 is all of
them, `NatSetInduction`; a set of subsets that each follow from the smaller ones, `SubsetInduction`)
takes a set, and "the property holds of this subset" is one. From it come the existence of the
partial sums that `SumFunction` is defined by, what one element adds (`SumTakes`), sums that
change in one place, are added, renamed or negated, and functions defined by recursion on the
numbers (`RecursionExists`). All other lemmas about sums cite those and open no fold.

**Bills that add up.** A bill adds up when it is filed, and what could undo that is somebody in
it vanishing, or a merge. `Grounded` says whoever a row names has a seat in its ledger, and
carries for each handler what it has checked for as long as it will rely on it
(`Carries`); a merge folds two shares of one bill into one, whose sum is the same
(`SumChanges`). `EverybodyGrounded` is inductive only if no seat is deleted while something is being
filed for its owner: that is the window of `members/[personId]/route.ts:84`, and it is
`Unremoved`. `MergingConserves` then is one sum split in two, in every ledger at once.

**Payments to oneself.** `PaymentsApart` adds what a handler restoring payments has seen: none of
those it will restore has become one from somebody to themselves. A merge between that check and
the write could make one; `Undisturbed` says none comes.

**A debt is paid once.** `Books` is the invariant. The bills are fixed, so what two people owe by
them is a number (`Billed`); in each ledger every payment goes the way of that debt
(`Straight`) and their sum is no more than it (`NotOverpaid`). A settle-up that has its turn
on the pair's key knows that what it read is still owed, or more, because a payment was undone
meanwhile (`Knows`, also for each sheet it has from the cache or is half through
reading); two that are past their turn settle for different pairs (`OnKeys`,
`SettlersApart`), so the write of one leaves what the other knows. Nobody strays, so the sheets of
the cache are those of the rows. The hypothesis leaves out what turns a debt round rightly: a
payment recorded on its own may be more than is owed, a payment restored after the debt
was paid again is one too many, and a bill edited after it was paid may be worth less.

**Leaving.** What a handler trusts when it lets somebody go is a sheet it read, from the cache or
from rows, some awaits before. `Informed` says what that is worth: for every ledger it has
been told of, either its version has moved since, or the sheet is the ledger's sheet now
(`AsRead`). A write bumps (`EveryWriteBumps`), so a version that stood still means rows that did;
and a stray group strays for good (`StrayForGood`). `Decided` keeps what was found in that sheet until the
write: nothing owed by whoever is about to be let go. `SettledAsRead` then says of each
step that ends a membership or a friendship that whoever goes is even, in each ledger whose version
is still the one read. So the window of `LeaveRace` is the only one: what was committed before the
handler read is never overlooked, whatever the cache held. Two groups are set apart in it. One that
somebody joined while their account was being closed was never read (`LetsGo`); one in `Astray` is
the hole of the cache itself.

**Coming back.** Only a handful of steps give a seat (`Reseats`), and all but the restores name it in their
request. `BringsNobody` says of a restore under way that those it will bring along have no
account; that stays so because nobody gets an account in these steps who had none (`NobodySigns`),
and a placeholder merged meanwhile is gone. With `WhoIsWho` (somebody just added was nobody before)
the rest is one case per step.

**Splits.** Every mode ends in `Apportion`: the shares rounded down fall short of the total by
fewer units than there are people, and as many people get one more, as the order among
them is total (`Marks` counts them). The rest is sums of sums.

**Two screens.** The edges of a bill add up, person by person, to its net, because every debtor
finds enough left of what the creditors are due to place all they owe. The proof is by
induction over the debtors in their order: what remains is the debt of those to come. So the end
of `expenseEdges` that the code calls defensive is never reached. Nets of sheets and of
pairs then agree as both are sums.

**The plan.** `PlanInv` of `simplifyDebts`, after any number of transfers: what is left sums to
zero, it is the net at the start with the payments so far added, and each payment has closed one
at least of the balances that were open (`TransferStep`). The last one closes two, so a turn
for each person is enough and the plan has fewer payments than there were open balances.

**The exact rate.** A rate rounded to so many places is off by half a unit of the last one at most,
and the payment times that is under half a unit of the debt if there is a place more than the
payment, in the debt's scale, has digits (`PlacesSuffice`). `PlacesEnough` asks that the most places a
rate may have be that many: 24 are, for amounts of 64 bits and a thousand in a unit.

**The outbox.** A tab removes a change by its id alone, so what it
removes must already be elsewhere: filed if it heard a success, shown if it is dropping
a refusal (`Remembers`). That stays true while other tabs work because nothing
heeded is ever forgotten except by a retry (`Grows`). `SentInOrder` needs in
addition that whatever is older than what a tab has left to send is in its hands or
heeded; when it takes its snapshot that is `Kept`, afterwards it is `Remembers`.
`OneTab` says it is enough to look at the tab that took the step.

**The leases.** `Covered`: whoever runs holds a lease that lasts longer than the run still may,
and a lease that a process trusts without asking is its own and as long as it believes, give or take
what a cron's clock may be off (`Slack`: a cron renews the lease of its process from an older
clock, and notes nothing). A lease taken over is one that had run out, so nobody it covered is still
running and nobody trusts it. Ticks of one process that overlap (`JobsOverlap`) do no harm to this:
they share the lease. What does is a run that gives the lease back while another run of its
process is under way, or while the process still trusts it: `GivenBackUnder`. The theorems say that
until then no two processes run the job at once, so that is the only way. Where it leads:

* the notifications keep their lease and no cron asks for them: nothing is ever given back, and
  `KeptLeasesExclude` has no premise but `Quick`;
* repeating expenses keep theirs, but the endpoint of the cron (`recurrences/run/route.ts:32`)
  takes and gives back the same one, under the scheduler's run: there the code does not
  promise that one process runs them, and Recurrence is checked with two runs at once;
* the others give it back and tick once in a lease, so two ticks overlap only if a run is longer
  than the lease, which `Quick` excludes. That is an argument on the numbers of `jobs.ts:168-196`;
  ticks come at any moment in the model.

`Quick` (a run is over before half a lease, and a run and the wait before it within one) is
what the comment "The lease outlives a slow run" asks of the jobs.

**The connection.** `TurnsInv` is inductive: `QueueOrder` says of two clients whose turn has not
been given back that one waits for the other, so one is on the connection;
`InTransaction`, that what has run since BEGIN is what the holder of the turn sent.
`ImplementsStore` maps every step to one of Store or to none: BEGIN and each statement are
stutters, COMMIT is the step, a failed one a failure, and a restart fails those that had not
committed. The invariant is needed at the commit: what is committed is that client's
statements and nobody else's, and nothing was saved since it began.

**Repeating expenses.** `RecurrenceInv` says the schedule has passed no day that is not filed or
given up (`NothingSkipped`), no day is announced more often than it was filed
(`FiredOnce`), and each run has filed all it has gone past (`PostedUpTo`). `FiledAsAsked`
needs `ReadsHold` beside it: what a run read is still so, or it is marked stale.

**The screen.** `ScreenInv`: the cache is the server's rows, or it is marked out of date, or
something that ends in a refetch is under way; and what a fetch has already read is the
server's rows, or something still under way will mark it. That is the chain of
`invalidateQueries`, held-back refetches and flush signals; the balances are the fold of
whatever rows, so the proof never opens a sum.

**The calendar.** `NextIsExpected`: what `nextOccurrence` makes of the n-th expected reading is the
next expected one, since the clamped day of a short month does not move the anchor
(`ReadingOf`: a day of a month, clamped to it, falls in that month). `RoundTrip`: two
corrections find the instant that a reading is of, whichever way the clocks changed and however far,
unless there is none. Both hold for months of 28 to 31 days, so leap years come in only there.

**The rate limits.** `LimitsInv`: whoever has been refused until later has a window, and each of
theirs is blocked, full and ends then (`Barred`). A pass of `evict` keeps every window it may not
delete and brings in none (`OnePassKeeps`, by induction over the Map), and the first pass may delete
none that has not ended, the second none that is blocked.

**The ways in.** `OneWinner`: whoever holds a code or a challenge between two awaits is the only
one, and it is spent already. `KeysApart`: keys are fresh, one credential each, and what a
removal is about to drop is never a recovery key; a rotation puts the new one in as it
takes the old one out.

**Notifications.** One run at a time looks and claims (`OneLooks`); what is claimed belongs to one run
(`Apart`); nobody has been sent what is unclaimed or what a run has yet to come to (`NotYet`), nor
have the phones a run has left to send the entry it is at (`StillToSend`). That last
needs one row per phone (`OneRowEach`): a run picks rows, and two of one phone
would send it twice.

### Assumptions

All are on constants: `LedgerAssumption`, `ExpensesAssumption`,
`SettlementsAssumption`, `OutboxAssumption`, `JobsAssumption`, `TurnsAssumption`,
`RecurrenceAssumption`, `CalendarAssumption`, `LimitsAssumption`, `ScreenAssumption`,
`FiguresAssumption`, `IdentityAssumption`, `PushAssumption`. Beyond types they say that people and ids are
finitely many, as everything that is summed over is. Then: `DivvyAssumption` (the initial rows
are well formed, an id nobody has been given yet has no seat, only people with accounts sign
in or are friends, what was filed before adds up and names people of its ledger, and
expenses and payments are told apart by their ids, which `lib/ids.ts:17` prefixes);
`RowAssumption` (the value that stands for no row is not a row); `StartsAssumption` of Calendar (a series
starts in `FirstYear` or later). TLC evaluates those of a module in every run of it.

These hypotheses are named in the theorems that need them, because the code does not guarantee them in
general and the theorem is false without:

* `Unremoved`: there is one handler, or nobody is removed from a group. Without it a bill may
  lose a share (`members/[personId]/route.ts:84`, a hazard no property covers).
* `Undisturbed`: there is one handler, or nothing is restored, or nobody is merged.
* `OnlySettling`: nobody files, edits, deletes or restores an expense, records a payment on its own
  or restores one, is folded into somebody, removed, or joins; people settle up, undo it, come
  as new members, befriend and part, and delete groups and accounts. `DivvySettle` is such an instance; `SettleRace` is one
  that is not, with a payment recorded on its own.
* `PlacesEnough`, and `Quick` and `GivenBackUnder` of Jobs: see above.

### Only model-checked

* Liveness under fairness (`Answered`, `EachIsServed`, `JobKeepsRunning`, `EachChangeIsHeard`,
  `CatchesUpAgain`) and ENABLED are beyond TLAPS.
* `SettledToLeave` and `RestoreReopensNobody`, one request at a time.
* That `DebtsPaidOnce` needs `OnlySettling`, and that `LeavesSettledAsRead` says no less than it could: the
  violations above, which only TLC can show.
* `DivvySerial`, `DivvySettle` and `Services` go on checking what is proved: a change of the model shows
  there in minutes, with a trace.

## 5. Plan

In order of what can hurt most:

1. Weaker hypotheses for `Serial_proofs`: `DebtsPaidOnce` with payments recorded on the pair's own
   key, `NobodyPaysThemselves` for merges of people no restore is about.
2. The import, beside the sheet cache it leaves behind. A group's currency, changed while its rows are counted; an account's deletion composed with
   the sign-ins of Identity.
3. **Outbox**, second part: changes typed again under an id already in flight, changes
   retried by hand more than once (where `Kept` fails), signing out in the middle
   of a flush; composed with the replay of `Expenses`.
4. The ticks of Jobs at their intervals, so that a job that gives its lease back needs no premise but
   `Quick` either.

## 6. Not modelled

* **Screens, components, service worker**: rendering, layout, animation, and reads through
  the query library. What they decide about money is in Figures, Composer and Screen.
* **Scripts** (`src/scripts/*.mjs`: smoke, interface and load tests), configuration, assets.
* **Exchange rates** (`server/rates.ts`): an outside service and a cache of what it said; a rate
  reaches the ledger as a number typed or suggested, which is in Figures.
* **Activity feed, comments, budgets, nudges, search, export**: reads, and writes of
  one row with no check before them that another component depends on.
* **Import** (`import/splitwise/route.ts`): it makes a group in one transaction, then files each
  row in one of its own, expenses through `createExpense`, which bumps, and payments by themselves,
  which do not; one bump follows at the end (line 183). A sheet of the new group cached in between
  lacks the payments since, until that bump, or, if a row in the middle throws, until the next write.
  Only its creator can see the group by then. `WritesBump` and `CacheCoherent` say nothing of it.
* **Health and integrity checks**: read-only counts; `BillsAddUp` and `NoSelfPayment` state the rules
  they watch.
* **Groups**: the name, icon, archive, usual split and the Simplify switch, which no handler here
  reads; the currency and the rotation of the invite code are planned.
* **Migrations**: run once, before the server takes requests.
