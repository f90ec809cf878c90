# Verification of RoomFlow

TLA+ models of the RoomFlow API (`src/api/src`), the TLC configurations that
check them, and theorems about them that the TLA+ proof system checks. Paths
below are relative to `src/api/src` unless they start with `src/`.

Contents: [the system](#the-system) · [modules](#modules) ·
[conventions](#conventions) · [runs](#runs) · [fairness](#fairness) ·
[proofs](#proofs) · [three disagreements](#three-disagreements) ·
[not modelled](#not-modelled) · [plan](#plan) · [running it](#running-it)

## The system

RoomFlow books rooms. One or more API processes (Bun, Elysia) share a
PostgreSQL database; every process also runs a job worker and a notification
worker. A booking is `PENDING` or `CONFIRMED` when it is made, `CHECKED_IN` by a
kiosk that scans a QR code, and ends `COMPLETED`, `CANCELLED`, `REJECTED` or
`EXPIRED`.

| Component | State it keeps | Operations | What makes it correct |
| --- | --- | --- | --- |
| Booking policy `booking/booking-policy.service.ts` | none; reads rooms, users, bookings | `validateCreate` | no overlap per user or room, limits of plan and role |
| Check-in policy `check-in/check-in-policy.service.ts` | none | window, token lifetime, trusted device | check-ins only inside the window, only by the room's device |
| Booking service `booking/booking.service.ts` | bookings, their event log, QR token hashes | create, cancel, approve, reject, check out, QR, check-in, walk-in, expiry and completion jobs | state machine, complete log, no double booking, no live token on a used booking |
| Waitlist (same file) | waitlist entries | join, leave, offer on release, promotion job | one booking per promotion, oldest first, free slots are offered |
| Serializable retry `lib/transaction-retry.ts` | attempts | run, retry, give up | isolation, true answers, bounded retries |
| Booking series `booking/booking-series.service.ts` | series; series and date of each occurrence | create, edit one, edit all, split, cancel one, all, from a date on | a series is written whole, nobody booked twice, limits count every date, nothing settled is touched |
| Background jobs `jobs/` | one row per type and bucket, with a lock | enqueue, claim, complete, fail | one execution per lock, nothing stuck, due work done |
| Polling loops, shutdown `lib/polling-loop.ts`, `index.ts` | timers, the active run | trigger, stop | one run at a time, polling goes on, shutdown ends after the last run |
| Devices `device/` | credential version, room, revocation, pairing codes | create, pair, rotate, revoke, reactivate, delete | an old credential writes nothing |
| Entitlement `subscription/` | plan and its end, webhook event ids | Stripe's events, expiry job | an event counts once; a FREE user keeps no future occurrence (violated, see below) |
| Notifications, LINE link `notification/` | outbox rows with a lock, preferences, link codes, linked accounts | enqueue, claim, send, record, retry; create, use and expire codes, disconnect | every job ends, requests are bounded, given-up accounts are not written to, dead codes stay dead |
| Realtime `realtime/` | none; a cursor per client | read after cursor | no event skipped |
| Rate limiter `lib/database-rate-limiter.ts` | counters per window | hit | the limit |
| Rooms, users, audit, reports, alternatives, auth, health | rows | single-transaction CRUD, reads | – |
| Web client `src/web` | query caches | – | – |

How they interact: routes call services; services call the policies inside a
database transaction; every booking write appends to the event log in the same
transaction. A cancellation or rejection calls the waitlist after its commit.
Job handlers call the booking service and the waitlist from whichever process
claimed the row. The two polling loops drive the job queue and the outbox.
Series write many bookings in one transaction; the end of a plan, by Stripe's
webhook or by the expiry job, cancels series and occurrences. Notices are
enqueued after the transaction of the booking they are about.
Everything shared is in the database; each request or job keeps what it read in
local variables, and that is where the difficult behaviours are:

- values read outside, or before, the transaction that uses them: `generateQr`,
  kiosk authentication, job batches, waitlist candidates, the slot to offer;
- concurrent transactions over the same rows, and lost commit acknowledgements;
- locks that expire while their owner is only slow, crashes with a lock held;
- timers, promise callbacks and signals in one event loop;
- writers of different isolation levels (webhook against serializable requests,
  link codes against a disconnect);
- operations on many rows that put some aside, check, and bring them back.

`PROJECT.json` lists each of these under "hazards", at the line where it bites,
with the properties about it or why there is none yet.

## Modules

| Module | Models | Built on |
| --- | --- | --- |
| `CheckInPolicy` | window, token lifetime, trusted device as operators | – |
| `BookingPolicy` | the rows policy reads; `Verdict`, the first rule a request breaks | – |
| `BookingLifecycle` | **abstract**: what is promised about a booking's status and log | – |
| `BookingService` | booking service, devices and plans as writers of what it reads | the three above |
| `Waitlist` | waitlist on top of the booking service | `BookingService` |
| `BookingSeries` | weekly series, Stripe's events and the end of PRO access, on top of the booking service | `BookingService` |
| `BookingTransactions` | inside a serializable transaction and its retries | `BookingPolicy`, `BookingLifecycle` |
| `JobLifecycle` | **abstract**: what is promised about a job: leases, attempts, outcomes | – |
| `BackgroundJobs` | scheduler and workers over the job table | `JobLifecycle` |
| `PollingLoop` | polling loops and shutdown | – |
| `NotificationOutbox` | outbox, delivery workers, preferences and LINE links | – |
| `MC...` | instances for TLC | the module of that name |
| `BookingServiceProofs`, `WaitlistProofs`, `BookingSeriesProofs`, `BookingTransactionsProofs`, `BackgroundJobsProofs`, `PollingLoopProofs`, `NotificationOutboxProofs` | theorems | the module of that name; the first is used by the next two |
| `BookingLimitProofs` | the theorem about the limit of active bookings | `BookingSeriesProofs` |

`Waitlist` and `BookingSeries` are compositions: they EXTEND `BookingService`,
add variables of their own, and their next-state relation (`WNext`, `SNext`) is
a step of the service that leaves those alone, or a step of their own that
writes bookings through the operators of the service (`Insert`, `Withdraw`,
`Verdict`). The service's own `EditOccurrence`, `UpgradePlan` and
`ExpireProAccess` stand for `BookingSeries` in the runs of `BookingService`;
where the series are modelled they are switched off (`Occurrences` and
`ChangingUsers` are empty, `SeriesAssumption`).

**BookingService.** `status`, `data` (who, where, when), `events`,
`checkedInAt` and `qr` are columns of a booking row and its `booking_events`;
`plan`, `roomState` and `device` the rows others write. `qrCall`, `kiosk`,
`expireDue` and `completeDue` are requests and job executions in flight with
what they have read. There is one action per operation: `CreateBooking`,
`CancelBooking` (and `forceDeleteBooking`, which calls it), `ApproveBooking`,
`RejectBooking`, `CheckOut`, `GenerateQrRead`/`GenerateQrWrite`,
`Authenticate` then `CheckInByDevice` or `WalkIn`, `StartExpiry`/`ExpireNext`,
`StartCompletion`/`CompleteNext`, `JobFails`. Those that others perform are
`EditOccurrence`, `UpdateDevice`, `RotateDeviceKey`, `RevokeDevice`,
`ReactivateDevice`, `UpgradePlan`, `ExpireProAccess`, `ChangeRoom`. A request
that is refused writes nothing and is no step, except where the caller goes on
(`Settle`, `KioskFails`, the failing branches of `Waitlist`).

**Waitlist.** `entry`, `wants` are the table, `promotedTo` records for the
properties which bookings an entry became, `loop` holds every execution of
`promoteWaitlist`: its phase, the slot it visits with the candidates it read and
those policy refused, and the entries that stand for the slots still to visit.
`promoteDueWaitlist` is `SweepStart`, `ExpireWaitlistEntry`, `SweepSlots`, then
`ReadCandidates`/`TryCandidate` per slot; `cancelBooking` is `CancelRead`,
`CancelCommit`, then the same visit; `rejectBooking` is `RejectAndOffer`. What
`findMany` returns in `createdAt` order is a set of entry ids, whose next one is
`FirstOf`. `WNext` takes the cancellations and rejections from its own actions
(which offer the slot), all else from `CoreStep` of `BookingService`.

**BookingSeries.** `series` is the series table, `member` the series id and
occurrence date of a booking, `planEnds` the `plan_expires_at` of a user,
`processed` the ids in `stripe_webhook_events`. A date is a number with a
weekday; `Dates` is `generateWeeklyOccurrences`, `ValidTemplate` its refusals.
There is one action per operation and scope: `CreateSeries`,
`EditSeriesOccurrence`, `EditWholeSeries`, `SplitSeries`, `CancelOccurrence`,
`CancelEntireSeries`, `CancelFutureOccurrences`. The first four validate with
`Accepted` (policy for every date, `WithinLimit` counting the dates before it)
and write with `Rewrite`, which has three groups of rows: new, kept with a new
place, and gone. The code's order within such a transaction (set the old rows
to `CANCELLED`, validate, write, set the kept ones back) is what the `except`
argument of the checks stands for. `UpgradeEvent` and the
chain `DowngradeBegins`, `DowngradeReads`, `DowngradeCommits` (or
`DeliveryFails`) are the webhook: its READ COMMITTED transaction lists the
active series, then reads their occurrences, and writes all of them at its
commit, whatever they are by then. `delivery` holds what it has read. The user
row it updates first is its lock (`Locked`). `ExpireDueProAccess` is the job.

**BookingTransactions.** A transaction has phases `new`, `open` (snapshot
taken), `held` (its row written but not committed), `retry` and `done`.
PostgreSQL is external and modelled by what the code relies on: `Blocked` and
`Excluded` for the GiST constraints, `UpToDate` for updates of changed rows,
`MissedInsert` for the serialization failure of two transactions that each
missed the other's insert, `Abort` for any other failure. `ConnectionLost`
may or may not have committed.

**BackgroundJobs.** `row` is the table, keyed by type and bucket; `loop` is the
state of each process: its phase, the `now` it took, the executions of its
batch with the attempt each was claimed as. `due` says whether a handler of the
type would find work. `ExecutionThrows`, `FailThrows` and `Crash` are the
failures. What all this promises of one job is `JobLifecycle`: it has a lease
with a holder and a time, and each process may only sweep (give up exhausted
leases and take free or expired ones, in one transaction) or settle. `Leases`
is the map from rows to leases.

**PollingLoop.** One event loop. `runs` gives every promise its place in the
chain `task` → `then`/`catch` → `finally`; `timers` counts armed timers while
`timer` says whether the one in the variable is among them, because a `.then`
may overwrite it. Timers fire only when no callback is waiting.

**NotificationOutbox.** `job` has one row per notice and channel (the
idempotency key), `wants` and `link` the preferences and LINE accounts, `code`
the link codes. `enqueueBooking` reads the recipient (`EnqueueRead`), then
inserts with duplicates skipped (`EnqueueWrite`), or is lost. A worker is
`Claim`, `ReadBatch` (the `findMany` that follows the claim), then its
deliveries in any order: `CancelUnwanted`, `Send`, `RecordSent`, `Fail`, each
update under the condition `Holds`. `createCode` is three steps and `disconnect`
two, with the rows a READ COMMITTED transaction has written but not committed
kept in `coding` and `leaving` as locks; `consumeCode` is serializable and one
step. `RecordThrows`, `DeliveryThrows`, `ClaimThrows` and `Crash` are the
failures; a worker whose run rejected is `stopped`, as `PollingLoop` shows. That
a back-off, a lock timeout or a code's ten minutes are over is an action
(`DelayEnds`, `CodeExpires`) that may happen at once: a late worker is one whose
lock has been declared over. `old`, `sends` and `gaveUp` are history variables.

## Conventions

- **A serializable transaction is one step** (`withSerializableRetry`).
  `BookingTransactions` is the justification: there the same operations run
  step by step against each other, and `AsIfAlone` and `LifecycleSpec` say that
  what is committed is what one step would have done.
- **Anything else is several steps.** READ COMMITTED transactions
  (`generateQr`, device operations that read first) and sequences of
  transactions keep what they read in local state. Device, room and plan
  updates that write unconditionally are one step.
- Times are ticks of one clock and requests carry the time they read; a retried
  transaction keeps it. `at \in call.at..now` is a time taken somewhere between
  two steps of the request.
- Waitlist entry ids are in `createdAt` order. Booking rows are never deleted.
- Data that no property looks at is left out: attendees, capacity, maximum
  length, purpose, names, audit rows. Opening hours and closures are the state
  of a room, for every request alike; `OUTSIDE_OPENING_HOURS` is folded into
  `ROOM_CLOSED`, as the waitlist treats the two alike.
- Over-approximations (the model allows more than the code): in
  `BookingService` a plan may end at any time and the occurrences of
  `EditOccurrence` and `FutureOccurrences` are not asked for the status of
  their series (`BookingSeries` has both). In `BackgroundJobs` the worker's
  `findMany` after its claim belongs to `Claim`. In `NotificationOutbox` delays
  may be over at once, and which due jobs a claim takes is open.
- Under-approximations: writers at READ COMMITTED (device, room, plan) do not
  take effect in the middle of a serializable transaction, except the webhook;
  the handlers of the job types run to their end or throw at one point in
  `BackgroundJobs`.
- The exclusion constraints never fire when transactions are atomic, except
  where policy looks at somebody else: an admin's edit of another user's
  occurrence (`NoActiveOverlap`).
- Operators commented "Mutant of ..." are wrong variants of the definition that
  follows them. Nothing uses them; `PROJECT.json` names, for each property, the
  variant that must violate it.

## Runs

Each run uses the cfg of its name. Deadlock is checked where the bounds leave
something to do in every state; elsewhere clocks, attempts and entries are
bounded, so that the model comes to an end, and the system itself may be idle.

| Run | Instance | States |
| --- | --- | --- |
| `booking_requests` | 3 bookings, 2 series, user and admin, 1 room, 2 templates in weeks of two days, 2 Stripe events, 1 delivery, time 0..1 | 413 000 |
| `booking_kiosk` | 2 bookings, 1 kiosk request, 1 QR request, a device and a room that change, time 0..2 | 1 965 000 |
| `booking_jobs` | 2 bookings, kiosk, one execution of each job, 1 failure, time 0..4 | 151 000 |
| `waitlist` | 2 entries, 3 bookings, 1 release and 1 sweep at once, no failure | 860 000 |
| `waitlist_offers` | 2 entries, 2 bookings, 1 release and 1 sweep at once, 1 failure | 544 000 |
| `background_jobs` | 2 processes, 1 type, 3 buckets, 2 attempts, 2 failures, time 0..4 | 130 000 |
| `polling_loops` | 1 loop of each kind, 2 run ids, 2 signals, 2 triggers | 3 400 |
| `booking_tx` | 2 creations, 2 transitions, 2 attempts, 1 lost connection | 136 000 |
| `notifications` | 1 LINE notice, 2 workers, 2 attempts, 2 codes, 1 account, 1 failure | 636 000 |
| `expiry_after_move` | 1 occurrence, 1 expiry execution | violation |
| `adaptive_loop_stops` | both loops, no external trigger | violation |
| `downgrade_race` | the instance of `booking_requests` with one event | violation |

What they show, and why the bounds are enough:

- **`booking_requests`**: `NoDoubleBooking`, `LiveEventChain`,
  `SettledRowsStay`, `SeriesLimitRespected`, `SeriesWrittenWhole`. Three rows
  hold a series of two dates and the booking it competes with, or the old and
  the new half of a split; two series are what a split needs; the two templates
  differ in a weekday, so that an edit keeps one date and adds or drops the
  other; the PRO limit of 2 is reached by one series. A day is one tick, and
  the clock moves once: dates are behind or ahead of it. Alice's access is
  scheduled to end (which the job carries out) or ends at once (which the
  webhook carries out, in three steps with everything else in between).
- **`booking_kiosk`**: `CheckInWithinWindow`, `NoQrAfterCheckIn`, `EventChain`,
  `StaleKioskWritesNothing` and the type invariant, while the room is closed,
  deactivated and reopened at will. Two tokens and two credential versions are
  what a replacement needs; one slot is in reach of the clock and one beyond
  it, so that an occurrence can be moved out of its window with a request in
  flight. It is the one passing run that checks deadlock.
- **`booking_jobs`**: the service implements `BookingLifecycle`
  (`LifecycleSpec`); no-shows and guests are settled (`NoShowReleased`,
  `GuestCheckedOut`) although a batch is cut short and bookings move on under
  it (`BatchSize` 1 makes the job return for the rest). `ExpiredOnlyAfterGrace`
  holds here because nobody edits occurrences.
- **`waitlist`**: `OneBookingPerPromotion`, `SettledEntriesStay`, `OldestFirst`
  with a release and a sweep on the same lists. The third booking is there for
  an entry whose booking is cancelled while the other execution still holds it
  as a candidate. One of the users loses and regains the plan, so that the
  oldest entry can be one policy refuses: with `FreeAdvance` 0 a FREE plan does
  not get the slot.
- **`waitlist_offers`**: `FreeSlotOffered` although the release may die before
  it offers the slot, and `LifecycleSpecW`. A failure takes the place of the
  third booking.
- **`background_jobs`**: two processes and `LockTimeout` 1 give a take-over
  while the first owner is still executing; two attempts give a retry and an
  exhausted row; `Interval` 2 gives three buckets. `Deadline` and `LastFault`
  leave the two liveness properties the time that timeouts and retries need
  before `MaxTime` stops the clock. `LifecycleSpec` says that the queue
  implements `JobLifecycle`; an outcome written under the wrong attempt would
  leave a retry without an attempt, which nobody claims, or give up early.
  `SettledStays` (a settled row never changes again) adds only the time of the
  next attempt to that and is left to its theorem, `SettledForGood`.
- **`polling_loops`**: two run ids are one more than the loops may use;
  `NoOverlappingRuns`, `QuietAfterDisconnect`, `ShutdownCompletes`,
  `IntervalKeepsPolling`.
- **`booking_tx`**: either one user asks for two disjoint intervals (the limit
  decides) or two users for overlapping ones in one room (the constraint
  decides), while two others move what has been committed. `AsIfAlone`,
  `AnswerIsTrue`, `LifecycleSpec`, `EveryRequestAnswered`.
- **`notifications`**: `SendsBounded`, `SettledNoticesStay`,
  `NoStaleRecipient`, `OldCodesDie`, `EveryNoticeSettles`. Two workers are a
  slow one and the one that takes its job over; two attempts give a retry and
  an exhausted job; with two codes one can be replaced and used while the user
  disconnects. One failure at any statement, or a crash, at any point.

Bounds by name: `MaxTime`, `MaxTokens`, `MaxVersion`, `MaxFaults`,
`MaxEntries`, `MaxArrivals` and `MaxTriggers` stop counters that the code does
not bound (time, issued tokens, credential versions, failures, waitlist rows,
work that becomes due, external triggers). `ChangingUsers`, `ChangingRooms`,
`ChangingDevices`, `Occurrences` and `ProAtStart` choose what may change in an
instance; `MaxOccurrences` and `MaxSpanDays` are the code's own. Symmetry is
used on booking and series ids only, in runs with safety properties only.

## Fairness

- `BookingService!FairSpec`: the clock runs, and the expiry and completion jobs
  take their steps. `jobs/index.ts` polls at an interval that survives errors
  (`IntervalKeepsPolling`), and a job that is due is executed again after
  failures (`DueWorkDone`). Users, kiosks and admins owe nothing.
- `FairWSpec`: the promotion job, for the same reason. Releases owe nothing:
  they may stop for ever between commit and offer.
- `BackgroundJobs!FairSpec`: every process polls; a handler returns or throws.
- `PollingLoop!FairSpec`: tasks settle, callbacks run (weak fairness); an armed
  timer fires, with strong fairness because it is disabled whenever a callback
  waits.
- `BookingTransactions!FairSpec`: each request is carried on. Lost connections
  are never owed.
- `NotificationOutbox!FairSpec`: each worker goes on (its loop claims again, and
  a request to a provider ends, since `fetch` does), each delay ends, each
  disconnect commits. Producers, users and failures owe nothing. A loop whose
  run rejected owes nothing either, which is why `EveryNoticeSettles` excepts
  `AllStopped`: the code's adaptive loop does not go on (see below).

## Proofs

Theorems hold for every value of the constants that satisfies the assumptions
`PolicyAssumption`, `WindowAssumption`, `ServiceAssumption`,
`WaitlistAssumption`, `SeriesAssumption`, `TransactionAssumption`,
`JobsAssumption`, `LoopAssumption` and `OutboxAssumption` (sets disjoint where
the code's are, slots with start before end, times of a template within a day,
finitely many processes, natural-number bounds); TLC evaluates the same
assumptions in each run.

**`BookingServiceProofs`**

| Theorem | States | Argument |
| --- | --- | --- |
| `TypeCorrect` | `TypeOK` | inductive; one lemma per group of actions (`RequestTyped`, `KioskTyped`, `JobTyped`, `OtherTyped`) |
| `NeverDoubleBooked` | `NoDoubleBooking` | inductive with `TypeOK` |
| `NoTokenSurvives` | `NoQrAfterCheckIn` | strengthened by `NoTokenLeft`: a row not yet inserted has no token either |
| `CheckedInInWindow` | `CheckInWithinWindow` | inductive with `TypeOK` |
| `StaleKiosksWriteNothing` | `StaleKioskWritesNothing` | with `OneCall`: a kiosk has one request in flight, so that the call that ends is the one that wrote |
| `FixedRowsExpireAfterGrace` | a row nobody can move is expired only after its grace period | with `DueStillOverdue`: what an execution has read as overdue stays so |
| `ExpireAfterGrace` | `ExpiredOnlyAfterGrace`, if `Occurrences` is empty | from the theorem before |
| `EventsChained` | `EventChain` | inductive with `TypeOK`, from `ChainAppend` |
| `ImplementsLifecycle` | `LifecycleSpec` | initial states and steps map to those of `BookingLifecycle` |

The key is lemma `EveryStep`. The service has some thirty actions but only five
ways to touch a row: it keeps all rows, registers a new one that policy
accepted, moves one along `CanMove`, edits the interval of one that policy and
constraints accepted, or withdraws a user's future occurrences. The lemma puts
every action in one of these classes (`RowStep`), and each theorem is then five
cases. `NeverDoubleBooked` needs two facts of them: no move leads from an
inactive status to an active one (`NoNewClaim`), and a row that is inserted or
edited conflicts with no active row (`OneNewClaim`). `ImplementsLifecycle` rests
on the map from event logs to trails commuting with `Append` (`TrailAppend`).
A walk-in maps to `RegisterPresent`, a withdrawal to `CancelTogether`, an edit
and all else to a stutter. The two modules built on the service use the same
classes.

`ExpireAfterGrace` has a hypothesis on a constant because the property is false
without it: the run `expiry_after_move` refutes it as soon as an occurrence can
be edited. The theorem says that there is no other cause, whatever the clock,
the batch and the requests in between do.

**`WaitlistProofs`**: `QueueTypeCorrect`, `PromotionsNeverDoubleBook`,
`PromotionsImplementLifecycle` (a promotion is a registration that policy
accepted), `PromotionsKeepCheckIns` (tokens and check-in times, as in the
service), `SettledEntriesAreLeftAlone`, `PromotedOnce` and
`FirstComeFirstServed`. Of the queue, a step lets one entry join, leave, expire
or be promoted. `OldestFirst` is not inductive: it needs what the stale list of
an execution still says of the queue. `Pending` says it: whoever waits for the
slot being visited is a candidate, was passed over, or is younger than every
candidate left; `NoGaps` (entries are created in the order of their ids) makes
an entry that joins later the youngest.

**`BookingSeriesProofs`**: `SeriesTypeCorrect`, `SeriesNeverDoubleBook`,
`SeriesNoTokenSurvives`, `SeriesCheckedInInWindow`, `SeriesEventsChained`
(`LiveEventChain`), `SettledRowsAreLeftAlone` (`SettledRowsStay`) and
`SeriesAreWrittenWhole` (`SeriesWrittenWhole`). Each operation is shown `Sound`: on the bookings it is a
`RowStep`, an edit, a `Rewrites` (many rows written at once, with others put
aside) or a `Downgrades`. For `NoDoubleBooking` a rewrite needs that no row it
writes meets a row that stays, which is what it validated, and that no two of
them meet, which is arithmetic: one per date, with times of day within a day
(`DatesApart`). That there is one per date rests on `MembersUnique`, the
invariant behind the unique key on series and date; a downgrade rests on
`Undelivered`, that two deliveries for one user never overlap and an event
under way has not been processed.

For `SeriesWrittenWhole`, `Placements` maps free rows onto exactly the dates
that have no row yet (`PlacementsCover`), so that after a creation, a
whole-series edit or the new half of a split some row written by this step
stands for every date (`Covered`); that it is the only one is `MembersUnique`
again (`CoveredWhole`). Every other operation leaves the patterns alone, or
ends the series (`OthersKeepPatterns`).

**`BookingLimitProofs`**: `SeriesStayWithinLimit` (`SeriesLimitRespected`), for
series of any number of dates. The code never looks at a total: it asks policy
once per date, with the dates before it counted. The proof is that the last of
these questions bounds all of them (`LastDateCounts`): the dates that are
written are finitely many, the greatest of them is asked with every other one
counted and with the rows put aside not counted, and the rows the user holds
afterwards are those and the ones that stay (`RewriteHolds`). Cardinalities
behave only for finite sets, hence the invariant `RowsFinite`: the database
holds finitely many active bookings although the set of ids need not be finite.
Steps that write one row (`RegistersBounded`) or none are the easy cases. An
admin's split of somebody else's series is the exception the property names.

**`BookingTransactionsProofs`**: `TypeCorrect`, `AnswersAreTrue`,
`SerialAdmission` (`AsIfAlone`) and `ImplementsLifecycle`, for any number of
requests and attempts. The invariant: until a request is done nothing was
booked for it; the row it is about to write is as it read it and nobody else's
to write (`Locked`); a booking about to be inserted meets no other (`Clear`);
and a snapshot is out of date only in ways that leave fewer active bookings, or
new ones that serialization failures would have caught (`SnapOK`).

**`BackgroundJobsProofs`**: `TypeCorrect`, `SettledForGood`, `OutcomeMatches`,
`OneExecutorPerLock` and `ImplementsLifecycle`, for any number of processes and
any timeouts. The code compares the name of the process, not the attempt,
before it settles a row; the invariant `RunsKnow` says why that is enough: a row
claimed again since has a later attempt, and the same process executes a job
once at a time. The refinement rests on it too: whoever still holds the lock
executes the attempt the row counts (`HolderIsCurrent`), so that choosing
between `RETRY` and `FAILED` by the attempt in memory is choosing by the row.
A claim maps to one `Sweep`, a late outcome to a stutter. For `TypeCorrect` the
doubled delays of `RetryAt` have to be numbers; the library proves nothing of
powers but that 2^n counts the subsets of n elements, which is enough
(`PowersOfTwo`).

**`PollingLoopProofs`**: `OneRunAtATime`, `NoTaskWithoutDatabase` and
`TypeCorrect`. `QuietAfterDisconnect` is not inductive: that the tasks have
ended is known because every promise under way is `activeRun` (`OnlyActive`),
because from `stop` on the loop is stopped and its caller awaits just the active
run, which a stray timer can no longer replace (`Draining`), and because the
database is disconnected only when nothing is awaited (`Drained`). For
`TypeCorrect` no count of timers may become negative when `stop` clears one.

**`NotificationOutboxProofs`**: `TypeCorrect`, `SettledForGood`,
`DisconnectEndsCodes`, `RetriesAskAgain`, `RequestsBounded`. The invariant has
a part for each: jobs in the write set of a disconnect wait (`Held`); a code
that a disconnect has seen is in its write set (`OldHeld`); a delivery goes
where its user wants it now, or the user gave up something since the claim
(`Fresh`); requests made and still to be made for a job do not exceed its
attempts (`Counted`, by cardinality of the workers that may still send).

Every invariant and action property of a passing run is stated by one of these
theorems. Only model-checked are the nine liveness properties (`NoShowReleased`,
`GuestCheckedOut`, `FreeSlotOffered`, `NoLockForever`, `DueWorkDone`,
`ShutdownCompletes`, `IntervalKeepsPolling`, `EveryRequestAnswered`,
`EveryNoticeSettles`), which need fairness and hence ENABLED, outside the
prover's reach. `ExpiredOnlyAfterGrace` with edited occurrences,
`RecurrenceNeedsPro` and `AdaptiveKeepsPolling` are refuted by TLC.

## Three disagreements

- `adaptive_loop_stops`: `startAdaptivePollingLoop` arms its next timer only in
  `.then`. If the task rejects (the notification worker's does when its claim
  or a state update fails), no timer is armed and the process never polls the
  outbox again. `src/README.md:215` says "Workers persist retries with bounded
  exponential backoff"; they are persisted, but nobody attempts them. The
  interval loop of the job worker is not affected.
- `expiry_after_move`: the expiry job reads overdue ids, and each is then
  expired if it is still `CONFIRMED`, without another look at its start time.
  An occurrence moved to a later time in between becomes `EXPIRED` before its
  check-in window opens, although `src/api/prisma/schema.prisma:22` defines
  `EXPIRED` as not checked in within the grace period.

- `downgrade_race`: the webhook's downgrade is READ COMMITTED. A series created
  (serializably) between its list of active series and its commit still sees
  the PRO plan and is not on the list: the user is FREE with an active series
  and future occurrences, although `src/README.md:182-183` says recurrence "is
  available only while an individual Pro entitlement is active" and
  `src/README.md:188-191` that a downgrade cancels "active series plus future
  active occurrences". The same property also fails without any overlap, when
  occurrences were moved to dates before the first one of their series:
  cancelling from one of them on ends the whole series (`CutAt`) but leaves
  occurrences at still earlier dates, which a later downgrade no longer finds.

## Not modelled

- Pairing codes and device deletion (they do not fit TLC beside the credentials
  and requests of `booking_kiosk`), the reminder scheduler with its marks, the
  realtime cursor, the rate limiter (it only refuses requests), Bangkok calendar
  arithmetic (dates are numbers here), the order among Stripe's events (no
  document says what an old event should do), starvation beyond `take` entries.
- No state of their own or read-only: alternatives, reports, job health, route
  tables, listings.
- Single-transaction writes nothing here depends on: user profiles, audit rows,
  room CRUD beyond what `ChangeRoom` allows, retention of old jobs.
- Not this project's code: Better Auth, Stripe, Resend, LINE, PostgreSQL
  (external behaviour in `BookingTransactions`), the design bundles under
  `src/web`, the skills under `src/.agents`. These bundles and the client are
  most of the repository's lines, so that the mapped lines are a small share of
  the whole and a large one of the services above.
- The web client: caches over the API, which takes every decision itself.

## Plan

Done: the booking core (`BookingPolicy`, `CheckInPolicy`, `BookingService`,
`BookingLifecycle`), what justifies its grain (`BookingTransactions`), what
drives it (`BackgroundJobs`, `PollingLoop`), the two compositions (`Waitlist`,
`BookingSeries` with the subscription) and the outbox, each with its theorems.
Left, in this order:

1. Proofs: the outbox as an implementation of an abstract delivery (as
   `JobLifecycle` is for the queue); `StaleKioskWritesNothing` with series and
   promotions around the requests; `RecurrenceNeedsPro` under the hypothesis
   that excludes its two counterexamples.
2. `DeviceCredentials`: pairing codes and deletion against revocation and
   rotation. Property: after a revocation no code issued before it yields a
   credential.
3. The reminder scheduler: its marks against moved occurrences.
4. `RealtimeCursor`: events that commit out of order behind a cursor.
5. Calendar and rate-limit arithmetic as operators against reference
   definitions; the starvation bound of `promoteWaitlist`.

## Running it

    tlc -config booking_requests.cfg MCBookingService
    tlapm BookingServiceProofs.tla

The module of each run is in `PROJECT.json`; the runs take between two seconds
and four minutes, the proofs of a module up to three.
