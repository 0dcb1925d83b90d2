# A TLA+ model of the UPI backend

This directory models the parts of the backend that move money or decide whether money
may move: the double-entry ledger, payment requests, split bills and autopay; the
middlewares in front of them (limits, idempotency keys, MPIN lockout) with the cache
they share; the account calls; the path of the mail that tells a receiver, with its
circuit breaker; the migration script; and the totals of statements and analytics. TLC
checks the models on small instances; TLAPS proves every safety and action property that
the runs check for every instance, and leaves the three liveness properties to TLC.
Paths below are relative to the repository; `ledgerService.js:64` is a line of
`src/services/ledgerService.js`, and so on.

## 1. Inventory

| Component | State it keeps | Operations | Talks to | Hard behaviour | Correct if |
|---|---|---|---|---|---|
| Ledger service (`ledgerService.js`, `dbTransaction.js`) | `User.balancePaise`, `User.isActive`, `Transaction`, `LedgerEntry` | `postTransaction` | every money-moving handler, the worker; emits `transaction:success` | concurrent postings, write conflicts and retries (replica set), compensation (standalone), crashes | no overdraft, all or nothing, balanced books, cached balance = ledger |
| Ledger entries (`ledgerEntries.js`) | none, pure | `buildEntries`, `assertBalanced`, `netForAccount` | ledger service | - | two entries, debits = credits |
| Money handlers (`txnController.js`, `walletController.js`) | refund totals and status of a `Transaction` | send, add money, pay bill, withdraw, refund | ledger service | racing refunds decided on stale copies | a transfer is never refunded beyond its amount |
| Payment requests (`paymentRequestController.js`) | `PaymentRequest` | create, list, accept, decline, cancel, expiry sweep | ledger service, worker | check, pay, save in three steps | paid once, final states final, expiry happens |
| Split bills (`splitBillController.js`, `money.js`) | `SplitBill` | create, settle | ledger service | settlements of one bill at once | shares exact, closes with the last share |
| Autopay (`recurringWorker.js`, `recurringController.js`, `recurrence.js`) | `RecurringPayment` | due run; create, pause, resume, cancel | ledger service, cron | overlapping runs, crash after a charge, owner's calls during a run | one charge per period, cancelled stays cancelled, due is handled |
| Circuit breaker, mailer (`circuitBreaker.js`, `mailer.js`) | breaker state and counters | `execute` | SMTP | calls that outlive the state they started in | one probe at a time, as far as the breaker can tell |
| Notifications (`events.js`, `queues/`) | BullMQ queues | enqueue, process, dead-letter | Redis, mailer | retry, duplicate, loss, fallback | told at most once, failures kept |
| Cache (`cache.js`, `redis.js`) | Redis, or the memory of each process | get, set, delete | every handler | Redis that comes and goes: two stores that never meet | a stale value is explained by who has not invalidated it where |
| Idempotency keys, limits (`idempotency.js`, `enforceLimits.js`) | answers in the cache; none | look up, replay, store; sum and cap | cache, `Transaction` | check-then-act, overlapping requests, crash before the answer is kept | no payment repeated, no cap exceeded, but by overlap |
| MPIN lockout (`verifyMpin.js`, `mpinLockout.js`) | counter and lock in the cache | check, count, lock, clear | cache | read-then-write counter | locked exactly after the attempts allowed |
| Accounts (`authController.js`, `authMiddleware.js`) | `User`, blacklist, OTP, cached profile | register, login, profile, set-up and changes, reset, logout, deactivate | cache, ledger service (opening balance) | copies saved late, OTP checked and deleted in two steps | an OTP works once, profiles are fresh |
| Migration and reconciliation (`scripts/`) | the database of before the ledger | convert, backfill, open the ledger; compare | MongoDB, beside the new server | death between two writes, second run, postings in between | converted once, every balance backed and opened once |
| Statements and analytics (`statementService.js`, `txnController.js`) | none | statement, summary, analytics | `Transaction` | refunds add one document and re-label another | totals tell where the money is |
| Calendar (`recurrence.js`) | none, pure | `nextRunDate`, `periodKey` | autopay | month ends, leap years | no period skipped or repeated |
| The rest: HTTP shell, validators, QR, serializers, OpenAPI | - | - | - | formatting and I/O | - |

The components with an unmodelled status, and why, are listed in `PROJECT.json`.

## 2. Modules

```
LedgerEntries ------ AtomicLedger            what a posting promises
      |                   ^ implements
      +--- Postings --- MongoLedger          postTransaction with a session
                  |\--- StandaloneLedger     postTransaction without one
                  \---- Reports              totals over MongoLedger's documents
PaymentRequests   SplitBills   RecurringPayments     use postTransaction as one step
Calendar                                what RecurringPayments counts as intervals
Cache --- PaymentPipeline               limits, idempotency key, posting, cached balance
     \--- Accounts                      account calls, MPIN, OTP, cached profile
CircuitBreaker --- BreakerCalls         concurrent calls of one breaker
              \--- Notifications        from the event to the mail, two processes
Migration                               the script, from the old schema to the ledger

Sums                   TLAPS: sums over finite sets, used by five of the modules below
MongoLedgerProofs      LedgerEntries, MongoLedger, Reports
StandaloneLedgerProofs StandaloneLedger
SettlementProofs       PaymentRequests, SplitBills
JobsProofs             RecurringPayments, Calendar, Migration
DeliveryProofs         BreakerCalls, Notifications
PaymentPipelineProofs  PaymentPipeline
AccountsProofs         Accounts
MC*.tla, MC*.cfg       TLC
```

A proof module may extend two specifications at once. That is why SplitBills,
Notifications, Calendar and Migration have names of their own for what the other
modules call `Init`, `Next`, `vars` and `Spec` (`BillSpec`, `NotifySpec`,
`CalendarSpec`, `MigrationSpec`).

**LedgerEntries** is `ledgerEntries.js`: pure operators. A movement is a record
`[type, amountPaise, from, to, ...]`; `NoUser` is a null id, and the pair
`(account: null, externalAccount: X)` is the account `X`.

**AtomicLedger** is the contract the header of `ledgerService.js` states: a
posting happens at one instant or not at all, against the documents as they are
then. It may leave a fully refunded transfer SUCCESS or REVERSED, but may mark
REVERSED only one that is refunded in full.

**Postings** holds what both implementations share: the handlers up to their call
of `postTransaction` (`SendMoney`, `AddMoney`, `PayBill`, `Withdraw`,
`RefundTransaction`; settlements, accepted requests and autopay are transfers
too), the three guarded filters (`ClaimMatches`, `DebitMatches`,
`CreditMatches`), the order of the writes, and the notification after the
commit; `FailCommitted` is what throws in between, or the death of the process, and
leaves a call that has moved money and is answered by an error or not at all. A call names the Transaction it creates. `req[c].seen` is the
`refundedPaise` of the copy that `refundTransaction` read: the claim's status is
computed from it (`txnController.js:346`). The ledger of a wallet is kept as the
sum of its entries, and all DEBIT and CREDIT entries as two sums (`books`).

**MongoLedger** adds the session. `Begin` takes the snapshot; `Claim`,
`DebitSender`, `CreditReceiver` evaluate their filter on the snapshot and write
privately; `Commit` inserts the transaction and its entries and publishes
everything. A write of a document that another open session has written, or that
was committed since the snapshot (`stale`), is a `Conflict`, which aborts; the
driver retries (`Retry`) until its time limit ends the request (`TimeUp`). Since a session writes
only `$inc`s and inserts of its own, its private writes need not be stored: they
are determined by where the call is (`Written`). `DeactivateAccount` is a write
outside any session.

**StandaloneLedger** has one action per write, visible at once. `Throw` is the
catch block, `Unwind` one compensating write, newest first. `LedgerEntry.create`
is two inserts that may land in either order, one of them possibly after the
other has failed (`InsertEntry`, `EntryFails`); `inserted` is history, the entries each
call has got into the ledger. `Faults` says what may go wrong:
a failed `"write"`, a failed `"entry"`, a failed `"undo"`, a `"crash"`.

**PaymentRequests**, **SplitBills**, **RecurringPayments** take `postTransaction`
as one step that may be refused, which is what MongoLedger is shown to provide,
and model what is around it: the copy a handler loads, what it decides on the
copy, and its `save()`, which writes the fields that were changed, by `_id`
alone. A run's `Charge` may end as a failure although the money moved, since
`postTransaction` may throw after its commit. RecurringPayments counts time in intervals of the mandate's frequency;
`periodKey` is the interval. Its save inside the try block may fail
(`SaveFails`), as at `recurringWorker.js:44`.

**CircuitBreaker** is the synchronous part of `circuitBreaker.js`: a breaker is a
record, and `Asked`, `Admits`, `Admitted`, `AfterSuccess`, `AfterFailure` say what
`execute()` makes of it. Time is a choice: when an OPEN breaker is asked,
`resetTimeoutMs` has elapsed or not. **BreakerCalls** runs concurrent calls
through one breaker. A call ends against the state the breaker has by then; a
call that timed out is `"late"`: its work goes on until `FnEnds`. `opening` and
`probes` are history: in which opening, and as what, a call was let through; so are
`heard` and `resets`: in which opening its outcome reached a breaker that was HALF_OPEN,
and which openings `reset()` cut short.

**Notifications** follows `transaction:success` of transactions whose receiver has an
address: `Announce` (`events.js`, `enqueue`), the job in Redis (`AddArrives`, which the
client may repeat; `AddFails`, whether or not Redis took it), the in-process
fallback, the worker (`Take`, `SendSucceeds`, `SendFails`, `SendTimesOut`,
`FinishWell`, `FinishBadly`), the dead-letter queue
(`MoveToDlq`), and crashes of either process. Each process has a breaker of its own.
A send is recorded with its outcome and with whether SMTP took the mail, which a
failed, timed out or killed send does not tell. `redis` is chosen at the start: without
`REDIS_URL` every send is in-process.

**Cache** is `cache.js` as operators on the two kinds of store: the one Redis, and
the memory of each process. A process that is connected reads, writes and deletes
in Redis, and deletes in its memory as well; one that is not uses its memory only.
`INSTANCE Cache` gives the two modules that use it their keys and processes.

**PaymentPipeline** takes the requests of one user through the middlewares in the
order of the routes: `EnforceTransactionLimits`, `Idempotency`, then `Post`, which is
MongoLedger's atomic posting, `InvalidateForUsers`, the answer, and
`StoreAnswer`, which `res.json` does not wait for. Routes without caps (refunds, add money, accepted
requests, settled shares) enter at `Idempotency`. `ReadCached`, `LoadBalance` and `FillCache`
are `GET /wallet/balance`. A request runs in one of two processes; the
environment loses or finds Redis, kills a process with its memory, or lets midnight
pass. The earlier request of the initial state (`EarlierPaise`) moved nothing or what the
limits allow. A cached balance is represented by the number of postings it includes, and
stands for the profile and the history pages too, which the same call drops.

**Accounts** has one action per access to the database or to the cache of the calls
about one account: `Protect`, then setting the MPIN, changing name or password,
deactivating, logging out, reading the profile, verifying the MPIN; and the one-time
passwords beside them. `save()` is taken to write the modified fields only, as Mongoose
does, so that of the account itself only `active` and the order of visible edits are kept.

**Migration** is `migrate-to-paise.js`, one document at a time, with its four stages,
dry runs and deaths (`orphaned` counts, as history, the deaths between a user's opening
transaction and the first ledger entry of all); `Serve` is a posting of the new server between two runs. Rupees are
tenths of a paisa, to see the rounding. `LedgerBalance` and `Drift` are what
`reconcile.js` computes.

**Calendar** is `recurrence.js` on dates, with the calendar's leap years; **Reports**
says what statement, summary and analytics make of the documents of
MongoLedger, and is checked in its runs.

Operators whose names end in a description of a mistake (`DebitMatchesUnfunded`,
`SaveCopy`, `ChargeUnindexed` ...) stand beside the definition they vary and
are marked *Faulty*. They are plausible bugs in the lines the definition models.
Each property is known to fail when the right one of them is put in place.

## 3. What is checked

All bounds are constants of the `.cfg` files. An amount is 1 or 2 paise
(`MaxPaise = 2`) and wallets open with 2: enough for a wallet to be short, to be
emptied exactly, for a transfer to be refunded in two parts, and for a refund to
exceed what is left. Two wallets and three calls are the least with which two
refunds race for one transfer.

| Run | Bounds | What holds, or fails |
|---|---|---|
| `mongo` | 2 wallets, 3 calls | MongoLedger implements AtomicLedger; no overdraft; the books reconcile at every instant; refunds bounded, and equal to those recorded; a call that ended well notified its receiver exactly once, and nobody is notified twice or of money that did not move; a statement's net is the change of the balance, and summary and analytics differ from it by exactly the reversed transfers and the refunds given |
| `standalone_unwind` | 2 wallets, 3 calls, failing writes | drift = what the calls under way have moved and not yet entered; only the unwinding of a spent credit takes a wallet below zero |
| `standalone_faults` | 2 wallets, 2 calls, every fault | a posting told as done has both its entries, one that has both is never taken back, and at rest the books are off by the lone entries of failed calls and nothing else; if no call failed, nothing drifts |
| `payment_requests` | 1 request, 3 calls | after a completed payment the request is not payable; only calls that read PENDING can overwrite an answer; overdue requests expire |
| `split_bills` | 4 accounts, 3 calls, bills up to 5 paise | shares exact and even to a paisa; SETTLED means paid, by a payment made for it; a share that was settled is not payable again; a paid-up bill is left OPEN only by overlapping settlements |
| `recurring` | 1 mandate, 2 runs, 2 owner's calls, 2 intervals, 1 fault | one charge per period; counted runs were charged; only those who loaded a mandate before its cancellation revive it; only a save that failed after its charge skips a period; due mandates are handled |
| `breaker` | 6 calls, both thresholds 2 | the gate of HALF_OPEN is held only by a probe that runs; a closed breaker counts afresh; two probes, late ones included, are at work together only if a success from before their opening was heard in it, or the earlier one timed out, was overtaken by a stale outcome, or was cut short by `reset()` |
| `notifications` | 2 transactions, 2 attempts, 2 jobs at once, 1 fault, thresholds 2 and 1 | two mails for one transaction need a send whose failure, timeout or death hid that SMTP took the mail, or the fallback of an add that Redis took; completed means mailed; dead-lettered means `Attempts` unsuccessful sends; without faults (a failed move among them) a failed job is dead-lettered; queued jobs are settled |
| `pipeline` | 2 requests after an earlier one, 2 processes, 1 key, caps of 2, 3 and 4 paise and 2 payments, 2 events | a capped payment that had seen all earlier spending fits the caps of the day it was posted in; a key moves money twice only if the answer was not stored yet, or is in another store, when the second request looked; a cached balance lacks a posting only where the invalidation has not come, or because a reader stored what it had loaded before |
| `accounts` | 3 calls, 2 processes, 2 wrong MPINs, 2 OTPs, 1 event | without overlap and in one store, the account is locked exactly after the allowed attempts; the same explanation for stale profiles; an OTP works twice only if the second call checked it before the first deleted it, or in another store |
| `migration` | 2 users, 1 transaction, 3 starts, 1 posting in between, amounts 0, 1.4, 1.5 and 1.6 paise | amounts are converted once, to the nearest paisa, unless the server credited the user before; when a run ends, balances equal their entries unless an earlier run died while it opened the ledger, or the server posted before it was opened; a user has one opening transaction, and one more for each run that died between it and the first entry |
| `calendar` | starts on every day of 2023 and 2024, 50 due dates | the n-th due date is n days, weeks or months after the first; a monthly day is the least of the first day and the lengths of the months passed |

Six calls are what it takes to open a breaker (two failures) with a call from before
still running, two probes, and one to spare. Two failures of two transactions open the
breaker of the worker, whose later attempts are then refused without reaching
SMTP. One fault per behaviour also keeps to BullMQ's `maxStalledCount` of 1: a job
is put back after one crash.

Two requests and an earlier one are the least with which two payments fit a cap each
and exceed it together. Two events are what it takes to lose Redis and find it again. Two
processes are two memories, and a third store is Redis. Fifty months pass a leap February and four
turns of the year.

Symmetry is used over wallets, calls, processes and users where no liveness
property is checked; no definition distinguishes them. Deadlock is checked in
every run: each module has a step that says where it may rest (`Answered`,
`Settled`, `Quiet`, `Ended`, `Rest`,
`MigrationRests`, `AfterLastDate`), so a call stuck half-way would be reported.

**Fairness.** No liveness is claimed for the ledger: that a request whose sessions keep
aborting is answered rests on the driver's 120 s limit alone.
`PaymentRequests!FairSpec`: the cron task goes on running the sweep.
`RecurringPayments!FairSpec`: the cron task goes on starting runs and a run goes on
unless it dies, which it may do `MaxFaults` times. `Notifications!FairNotifySpec`: the
processes are restarted and go on, and a send that SMTP does not answer times out;
nothing is assumed of SMTP, so that a job may end dead-lettered.

## 4. Where the code does less than its documentation says

The properties named `Only...` and `...Explained` say which behaviours are left besides the
promised one, and the models contain them:

* **Without a session a wallet can go negative.** The compensation of a credit has no
  balance guard (`ledgerService.js:98`; "No overdraft, even under
  concurrency", `:20`). `OnlyUndoneCreditsOverdraw` shows it is the only way.
* **A payment request can be paid twice**, by overlapping accepts or by a retry after a
  crash between the payment and the save (`paymentRequestController.js:117`; its model
  calls it a state machine). `PaidIsNotPayable` shows these are the only ways. The same holds
  of a share of a bill (`splitBillController.js:135`, `features.test.js:174`;
  `SettledShareIsNotPayable`).
* **A failed save after an autopay charge skips the next period**
  (`recurringWorker.js:44`, `:68`; `features.test.js:248`); `OnlyFailedSavesSkip`.
* **One Idempotency-Key can move money twice** ("preventing double-charges",
  `idempotency.js:8`): by overlap; by a crash, or an answer of 500 or more, between the commit
  and the stored answer; by Redis that is lost or found in between. The key is also
  not tied to a route, so that the answer of one is replayed to another, and the
  replay comes after MPIN and limits: a retry of a payment that used up a limit
  is refused, not replayed.
* **An answer of 500 does not mean that nothing happened** (`FailCommitted`;
  "All-or-nothing", in the header of `ledgerService.js`): when `invalidateForUsers` or
  `User.findById` throws after the commit, `postTransaction` rejects although the money
  moved, and the receiver is not told. Autopay takes it for a failed charge, and finds the
  period charged when it tries again.
* **Caps can be exceeded** by overlapping payments, and are not applied to accepted requests,
  settled shares and autopay, whose payments count. A transfer that is refunded in full drops out of them.
* **The migration is not safe to run again** ("Safe to run more than once",
  `migrate-to-paise.js:10`) after it died while it opened the ledger. If it had inserted
  an entry, the next run leaves the other users without, and an opening transaction may have
  none or one of its two entries. If it had not, the next run opens the user again, who then has
  two opening transactions; `OpeningsExplained` shows that it is the only way. (TLC finds
  it at once with `openings[u] <= 1` as an invariant of the run `migration`.) A user the new server credited before the conversion has a
  `balancePaise` and is never converted.
* **The summary and the analytics leave out reversed transfers but the summary counts their
  refunds**, so that its net is not the change of the balance
  (`txnController.js:109`); a statement's is.

Also in the models: a transfer refunded in full that stays SUCCESS, because two
overlapping partial refunds each compute the status from the copy they read
before either was posted (`txnController.js:346`; `refunds.test.js:51` expects
REVERSED); a bill whose last two settlements overlap and which never closes
(`splitBillController.js:155`; `features.test.js:152`; `LeftOpenOnlyByRace`
shows it is the only way); two probes at once in a half-open breaker, when a call from before the
opening succeeds and clears `probeInFlight` (`circuitBreaker.js:123`, where
`:159` says "exactly one probe at a time"), or when a probe has timed out and its work goes
on; a job whose attempts are all refused by
an open breaker and which is dead-lettered without SMTP having been asked (with
the default settings the five attempts take 30 s, and the breaker stays open for
60 s); a bill of fewer paise than participants, whose zero shares the ledger
refuses for ever; a mandate that is charged although it was paused or cancelled
after the run loaded it (`features.test.js:340`); a cancelled mandate revived by
a late save; a period that was charged before a crash and is counted as a
failure because the debit is refused before the unique index is reached; a
claim that is not unwound without a session; books left one-sided by a failed
entry or a crash without a session; wrong MPINs that overlap and are counted once; a
token blacklisted in the memory of one process, which another accepts; a monthly
mandate of the 31st that is due on the 28th ever after its first February. Not in
a model: `updateTransactionCategory` invalidates no history page
(`txnController.js:293`).

## 5. What is proved

Every invariant and action property of section 3 is a theorem of its specification, for
every value of the constants; `PROJECT.json` lists them. The assumptions are the named
ones on constants: that names of different kinds do not clash, that amounts, limits and
attempts are naturals, and that a bill has finitely many accounts and StandaloneLedger
finitely many calls (elsewhere what is summed is finite by itself: what has been
posted). No bound of section 3 is among them. One theorem on StandaloneLedger,
`StandaloneDriftIsExplained`, has a hypothesis besides: the only fault is a failing
write, which is when its property is meant to hold. Each specification has an inductive invariant, since few of the
properties are inductive: a step relies on what was decided steps earlier.

**Sums** (`Sums`). Many properties add up amounts over a set, and the library computes
such sums by a recursive function of the subsets. That this function exists is not taken
for granted: a finite set has a least subset for which a claim fails, unless it fails
for none (`Minimal`), which serves as induction on finite sets (`Induct`). From it
follow what a sum does when a summand changes (`SumChange`), when elements are added,
removed or zero (`SumAdd`, `SumRemove`, `SumPart`), and for unions, constants and
renamed indices.

**The ledger in a session** (`MongoLedgerProofs`). The two entries of every buildable
movement balance (`EntriesBalance`), and to every wallet they are worth what the `$inc`s
of the posting add to its balance (`EntriesMatchMovement`). From `IInv` (end of
`MongoLedger.tla`) follow `TypeCorrect`, `NeverOverdrawn`, `AlwaysReconciled`,
`RefundsStayBounded`, `ReceiversNotifiedOnce`, and the refinement
`MongoImplementsAtomic`. The safety properties are not inductive by themselves: `Commit`
has no guard of its own, it relies on filters evaluated earlier and on a snapshot. The
chain is (1) `SnapshotCurrent`: what a session has not missed (`stale`) it sees as it
is; (2) a write is made only on a document that is not stale, so its filter, true in the
snapshot, is true of the stored document; (3) no one else can write that document until
the session ends (`WritesDisjoint`, `Written(c) \cap stale[c] = {}`), hence
`GuardsHold`: the filter is still true when the session commits; (4) `RequestSound`: a
refund's transfer is still there and has only been refunded further than its copy says,
so a REVERSED computed from the copy is never premature. There is one lemma per action,
with a step per part of `IInv`; the refinement maps `Commit` to `AtomicLedger!Post`,
`DeactivateAccount` to `Deactivate`, and everything else to a stutter.
`RefundsAreRecorded` and `ReportsExplainTheBalance` are about sums over the
Transactions: a commit changes one summand, or two when it is a refund, and both sides
by the same amount.

**The ledger without a session** (`StandaloneLedgerProofs`). Here the invariant is about
what is *under way*. `CallOK` relates where a call is to the compensations it has
registered: `undo` is one of eight sequences, which are the writes made so far, newest
first. A call that has moved money and not entered it, or the reverse, is off by `Off(c,
u)` for wallet `u`, and the drift of the wallet is the sum of these over the calls; the
books are out by the sum of `Tilt(c)`; a transfer claims the sum of `Share(r, t)` over
its refunds. Every step changes one summand and the balance, the books or the claim by
as much (`OffStep`, `TiltStep`), so the sums stay equal. That argument needs every
compensation to succeed: `StandaloneDriftIsExplained` is
for `Faults \subseteq {"write"}`, since a failed undo, a failed entry or a crash leaves
money moved with no one responsible for it. `StandaloneBooksBalance` holds with every
fault: the entries a call has inserted and those it is still inserting are both sides of
one movement until one of them fails, and then, whatever order they land in, one side at
most (`EntriesOK`), so a call that unwinds never had both; and the books differ by the
sum of what each call has inserted. Of the drift what is left with every fault is
`StandaloneOnlyFailuresDrift`: as long as no call has begun to unwind or failed
(`AllClean`) the same sums hold. `StandaloneOverdraws` needs neither: a debit is guarded
where it is written.

**Payment requests and split bills** (`SettlementProofs`). The invariant says what a
call knows between its load and its save. For requests (`PaidNeverPayable`,
`AcceptedWasPaid`, `OnlyLateWriters`, `RequestsTypeCorrect`): a call that has paid is
the only one to hold that payment, it had read the request PENDING, and it ends only
with the save that makes the request ACCEPTED (`CallOK`). No step takes an answered
request back to PENDING, so late writers can exchange one answer for another but never
make the request payable again. For bills (`SettledIsPaid`, `SettledNeverPayable`,
`MarksStay`, `OnlyRacesLeaveOpen`): a copy shows as paid only those who have paid, and
every mark was made by a call that has ended (`PaidBySomeone`). When the last mark is
set and the bill stays OPEN, the copy lacks somebody; the call that marked that share
had not seen the last one either, which is the race. `SharesAddUp` says for any number
of participants that the shares are the quotient, and one more for as many as the
remainder counts.

**The jobs** (`JobsProofs`). Of autopay: `NeverChargedTwice`, `OnlyLateWriters`,
`OnlyFailedSaves`, `RecurringTypeCorrect`: a run tries intervals that have come
(`TickOK`), the index lets one Transaction have a key, and an owner's call was let
through for what its copy says (`EditOK`). `EveryRunWasCharged` adds that neither a
document nor a copy that may still be saved counts more runs than the mandate was
charged for, and that a copy whose charge has gone through counts one less. Of the
calendar: `NoPeriodSkippedOrRepeated` numbers the days (a month adds its days to those
before it, a year has 365 or 366, and leap days are counted by quotients of the year)
and shows that `setDate` adds as many as it says, and that the month step adds one to
the number of the month; `ShortestMonthSetsTheDay` is the invariant that the day is one
of the lengths passed and none of them is smaller. Of the migration: in
`ConversionHappensOnce` an amount and its paise are never both there, for a user not yet
credited, and what a stage has listed is still to be done (`ListOK`: only the script
writes while it runs). `OnlyDeathsLeaveUnbacked` needs `LedgerOK`: between runs, as long
as nothing in `lostBy.backed` happened, the ledger is empty or backs every balance, and
a run at its ledger stage has opened exactly those who are no longer on its list
(`Opened`). For `OnlyEarlyDeathsOpenAgain`, until there is an entry a
user has as many openings as runs died too early, and one more while the run has the
user's entries at hand; whom a run at its ledger stage still lists, it has not opened
(`OpeningsOK`).

**The breaker and the notifications** (`DeliveryProofs`). Of the breaker:
`GateIsNeverStuck`, `ClosesAfresh`, `ProbesOneByOne`, `BreakerTypeCorrect`, for any
calls and thresholds. The part of the invariant called `Gate` says that the gate is held
only in HALF_OPEN, that a new opening has no probe yet, that in HALF_OPEN a call that is
not one of its probes is from an earlier opening, and that a gate found open while a
probe is at work was opened by such a call, whose success is on record (`Heard`). A probe
of an earlier opening that is still at work was overtaken when the circuit reopened
(`Overtaken`). Of the notifications: `TwiceOnlyAfterDoubt`,
`OutcomesStayHonest`, `NotificationTypeCorrect`, for any number of transactions,
attempts and faults. The invariant counts sends by the worker (`JobOK`): only the last
of them may be unfinished or have succeeded, and a job has had at least as many as the
attempts it was given. A second mail then needs an earlier send that did not succeed
although SMTP took the mail, or a fallback beside a job.

**Over the cache** (`PaymentPipelineProofs`, `AccountsProofs`). Both begin with lemmas
that say what each operation of Cache leaves in every store (`GetFinds`, `SetEffect`,
`DeleteEffect`, `RestartEffect`), since a stale value is always about a second store.

* `KeysPostOnce`, `StaleBalancesAreExplained`: an answer that a request has stored is
  still found in the store it went to (`Stored`), or is counted as stored nowhere once
  that memory died; so a request that looked and missed did not look there, or looked
  earlier (`Looked`). A cached balance is explained store by store (`Explained`): a
  posting that its entry lacks has not been invalidated there, or the reader that stored
  it had loaded before. The step with content is `FillCache`, which must name every
  posting between its load and its store.
* `CapsHoldButForOverlaps`: what a request was let through with is the sum of what had
  been posted when it looked. The sum over the requests posted by then is the same when
  it posts, unless one was posted in between, which is the overlap; the turn of a day
  only takes payments out of the sums.
* `OtpsResetOnce`, `StaleProfilesAreExplained`, `LockoutStaysExact`: `IInv` says which kind of call can be at which access
  (`Belongs`), that a password is issued once and not found again where it was deleted
  (`Redeemed`), and explains profiles as above. `LockoutIsExact` speaks of the whole
  history of wrong MPINs, so it needs `LockInv` as well: while verifications have not
  overlapped and have used one store, the counter found there is the number of wrong
  MPINs since it was last cleared, give or take the one that the call under way has
  compared but not counted (`Midway`), and at rest the account is locked exactly when
  that number is `MpinMaxAttempts` (`AtRest`). The counter and the lock are in no store
  that was never used (`Traces`), which is why changing to an empty store is not exact.

**Only model-checked**: `OverdueExpires`, `DueIsHandled` and `QueuedIsSettled`. They are
liveness under fairness, which needs reasoning about when an action is enabled, and that
the prover does not support. What TLC shows of the faulty variants is not proved either.

## 6. What is not modelled, and assumptions about the outside

* Amounts are naturals of a small range; rupee parsing, body validation and rate limits
  come before a call is accepted.
* Message wording, layout, paging, categories, QR codes, serializers. Login, the
  creation of a user and of tokens, and the user lookup: they touch nothing that other calls
  share but a unique index.
* The cache: a command of Redis that was carried out but reported as failed, and the
  eviction of keys. Values expire where something depends on it (lock and counter of the
  MPIN); an answer kept for 24 hours and an OTP kept for 10 minutes are taken to
  outlive the calls modelled. A posting drops the cached profile too; that is
  left out of Accounts, where it would only make profiles fresher.
* The migration's stages are taken to see the documents as they are when the stage begins;
  the new server does not post while the script runs.
* MongoDB: snapshot isolation, write conflicts and the driver's retry as described
  in section 2. A commit whose outcome the driver does not learn, and a write
  without a session that was made but reported as failed, are not modelled.
  `Model.create` of several documents in one session (`ledgerService.js:142`) is taken to
  insert them in the session, which releases of Mongoose 8 that ask for `ordered` refuse, and without one to save them side by side and reject at the first
  failure. `save()` is taken to send the modified paths only, as Mongoose does.
* The `limit(200)` of a worker's run (`recurringWorker.js:23`): a run takes every mandate
  that is due; the deletion of a lock that has run out by the one who looks at it
  (`mpinLockout.js:16-26`), which `Expire` has done already; and the defaults Mongoose
  fills in when it saves a user that was not migrated.
* BullMQ: a job is taken by one worker at a time, `attemptsMade` counts an attempt
  when its failure is reported, a job of a dead worker is put back once, and a failed job
  is kept (`removeOnFail: false`). A completed job is taken to be kept for as long as the
  client may repeat its add (`removeOnComplete` keeps 100). OTP mails, which have no
  jobId, and the backoff delays are left out; so is a job that stalls twice, which BullMQ
  fails by itself and which `notificationWorker.js:46` then does not dead-letter
  unless its attempts are spent.
* `probeTransactionSupport` is taken to answer rightly which of the two ledgers
  runs.

## 7. Plan

1. Done: the ledger (contract, session, standalone, proofs), payment requests,
   split bills, autopay, circuit breaker, notifications.
2. Done: the cache with the request pipeline and the account calls (with proofs), the
   migration, the calendar, the reports.
3. Left to model: OTP mails, whose jobs have no jobId (`authController.js:208`), and the cached history
   pages with `updateTransactionCategory`.
4. Done: proofs of every safety and action property the runs check. Left to prove: that
   BreakerCalls and Notifications, which share CircuitBreaker, agree on one breaker
   (Notifications leaves out what a call that timed out does later), and that what
   PaymentRequests, SplitBills and RecurringPayments take as one step is AtomicLedger's
   `Post` of a movement.
