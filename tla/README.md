# PT-Portal: specifications

TLA+ specifications of PT-Portal, the internal operations platform of a travel office: what
its stateful parts do, which properties keep them correct, what TLC checks of them on small
instances and what TLAPS proves of them for every size. Definitions are translated from the
TypeScript, JavaScript and PL/pgSQL of the repository; `PROJECT.json` gives the lines behind
each one.

## 1. The system and its components

One Next.js application (`src/app`, `src/lib`) over a PostgreSQL database
(`src/scripts/migrations`). A request handler runs to completion on some instance, several
at a time, and shares nothing with the others but the database. A handler is therefore a
sequence of database calls between which any other handler may run, unless the work is done
by one database function, which is one transaction. The components, where their state is
kept, and what makes each of them hard:

| Component | Source | State | Hard behaviour | Modelled |
| --- | --- | --- | --- | --- |
| Loan ledger (LMS) | `20260812_secure_atomic_lms_operations.sql`, `api/lms` | customers, loans, transactions, installments | derived balances and plans after any sequence of payments, edits, deletions, skips | all RPCs that change them but one (section 2) |
| LMS retries | same, idempotency sections | `lms_idempotency_keys`, advisory locks | a retry of what was already done, two attempts at once | whole (3) |
| LMS row locks | same, `for update` clauses | row locks of open transactions | lock order, deadlock | no (13) |
| Bookings | `api/bookings`, booking migrations | bookings, reservations, idempotency records | check then insert, capacity, compensation of failed steps | partly (4) |
| Booking reminders and answers | `api/cron/bookings/reminders`, `api/bookings/attendance`, `bookingFlags.ts` | reminder rows, answers, count of missed appointments | a job against a customer's answer, read-modify-write | partly (5) |
| Timeclock punches | `api/timeclock`, `timeclockDeviceAuth.ts` | events with a hash chain, nonces, manual codes | replayed scans, two scans at once, failure between steps | partly (6) |
| Frappe HRMS bridge | `lib/integrations/frappe` | outbox, inbox, pull cursor, copied leave | at-least-once delivery, crash while processing, newer data during a dispatch, what a pull misses | partly (7) |
| Travel packages: money | `api/travel-packages`, `lib/package*Server.ts` | invoices and their versions, payments, reservations | release and amendment from stale pages, totals kept by three writers | partly (8) |
| Travel packages: quotes | `api/packages`, `packageQuote.ts` | quotes, selections, package folders | conversion in many steps, edits beside selections | partly (9) |
| Rate limits | `lib/security/rateLimit.ts`, `20260812_security_rate_limits.sql` | buckets | limits while calls wait for locks and buckets are cleaned up | whole (10) |
| Backup codes | `lib/auth/freshSecondFactor.ts`, `api/auth`, `api/admin` | codes | single use beside replacement and recovery | partly (10) |
| Login and sessions | `api/auth` | the identity service, a log | the limiter, which is modelled | no |
| Passports, visas, NADRA | `api/passports`, `api/visas`, `api/nadra` | applications, statuses, custody records | mostly independent row edits | no |
| Receipts, pricing, accounting | `api/receipts`, `api/pricing`, `api/accounting` | receipts, price lists | queries and arithmetic | no |
| Documents and storage | `api/documents`, `s3Client.ts`, `r2*.ts` | document rows, objects in two stores | transfers between stores | no |
| Leave, training, notices, issue reports | `api/hr`, `api/training`, ... | requests, progress, notices, reports | single-row edits | no |
| Staff administration, server control | `api/admin` | employees, settings | forms and maintenance jobs | no |
| User interface | `app/dashboard`, `components` | React state | out of scope, but for what screens keep and send back | no |

They interact through the database (the ledger and its retry table share a transaction; the
timeclock writes the outbox of the bridge; the backup codes stand behind the limiter; an
invoice is drawn up from payments and reservations), through scheduled jobs (reminders,
outbox dispatch), through screens and mailed links that hold on to what they were told, and
through calls to external services (Frappe, mail, object stores) that may fail, be slow or
be repeated.

## 2. Loan ledger: `LmsSchema`, `LmsLedger`

`LmsSchema` holds the rows and the two functions every RPC ends with: `Recalculated`
(`lms_recalculate_loan`) derives a loan's balance, debt and status from its transactions;
`Synced` (`lms_sync_installment_plan`) rebuilds the plan of a service from its payments,
statuses first, then the shares of what is owed, then the statuses again. `LmsLedger` has
one action per RPC.

* A call that a function rejects raises an exception, which undoes the transaction, and so
  is no step. Guards are the rejections.
* Ids stand for uuids with `created_at` as their order; they are never reused.
* Amounts are naturals that the plan lengths divide: the code computes shares with exact
  `numeric`s, and rounding is no part of any property.
* `lms_add_service` accepts a plan whose rows differ from the debt by up to 0.01 (line 837 of
  the migration), and the route hands plans on as they came: `ExplicitPlans` offers plans up
  to `Penny` off. Such a plan asks for a penny more or less than is owed until one of its
  rows is paid or skipped, when the rebuild evens it out; `OpenRowsCarryDebt` says exactly
  that (`Untouched`).
* `unsynced` is a history variable: the services whose rows were edited by
  `lms_update_installments`, drawn up by the backfill or rewritten by the amount migration
  since the last rebuild. None of them touches statuses or the other rows, so two plan
  invariants exempt such services.
* The backfill (`POST /api/admin/create-installments`) and the amount migration read their
  rows in one query and visit them in later steps, interleaved with everything else.
* Row locks are left out: they order the calls and change no result. The RPCs do not lock in
  one order (skipping locks a service before its loan, an installment payment the loan
  before the service), so two calls can deadlock, and PostgreSQL then fails one of them.
* Skipping the last open row of a plan leaves debt that no row asks for: the invariants ask
  open rows to carry the debt, and then there is none.

The run `lms_ledger` has two scenes, the accounts of two customers and the plan of one loan,
because a state with both would be too large and they meet in nothing but the loan.

The proofs (`LmsLedgerProofs`) hold for every set of customers, every bound and all amounts.
`LedgerInv` is inductive: types, `LoanMatchesLedger`, `References`, and `FreshIds` (an id
that will be drawn is used by no row), without which a new row could take the references of
an old one, and `OnlyPaymentsPoint` (only payments name a service).

On it rest the four properties of plans. `PlanCases` shows that a step keeps the plan of a
service (`PlanKept`), edits its amounts (`PlanEdited`), rebuilds it (`PlanRebuilt`), draws it
up (`PlanDrawn`) or deletes it, and `SyncedRow` what a rebuilt row says; each property
follows from these cases without a stronger invariant. `DebtIsCarried` alone has a hypothesis,
`AmountsSplit`: every amount on offer is a multiple of every plan length, the unit of amounts
that `LmsSchema` chooses (and the run's amounts, multiples of 2 for plans of two rows, obey).
Without it a division leaves a remainder that the code's `numeric` does not, up to its
precision. The rows of a plan that a caller gave need no multiple of anything.
`SumToMultiple` and `SumToShares` are the facts about sums that it needs.

## 3. Retries of ledger calls: `LmsIdempotency`, `LmsPayOnce`

`LmsPayOnce` states the promise: a key posts at most one amount, and whoever is told that a
payment was recorded is told of that one. `LmsIdempotency` is the protocol from the dialog
that keeps its key across failures (`TransactionModal.tsx`), over the route that stamps a
date, to the RPC: advisory lock, look-up, insertion of the payment with its key, commit.
Requests and answers are lost while handlers go on; a transaction may abort anywhere.
`PaysOnce` is the refinement: `posted` maps to the amounts in the ledger, `told` to itself.

Fairness is weak, and only of the database: the statements of an open transaction run and a
free lock is granted. Nothing is assumed of clerks, the network or the route. Under it
`EveryCallEnds`: an attempt that waits for the lock gets it, because locks end with their
transaction.

`LmsIdempotencyProofs` proves the refinement for any number of keys, amounts and
submissions. `RetryInv` is the inductive invariant: submissions are numbered in order
(`Numbered`), the lock has one holder (`OneHolder`), so what the look-up saw stays true
until the insertion (`StillMissing`, the theorem `MissingStaysMissing`); a stored key and a
posted payment come together, and once (`PostedIsRecorded`); and answers and dialogs speak
of that payment (`ToldIsRecorded`). A step then maps to `Post`, `Tell` or a stutter of
`LmsPayOnce`. `DatedRetryReplays` takes `AnswersInv` beside it: the route keeps a date that was
entered (`DateKept`), and whoever was refused found something else under its key
(`RefusedDiffers`).

## 4. Bookings: `BookingSchema`, `Bookings`

`BookingSchema` has the rows and `reserve_booking_capacity` with its exclusion constraint:
the first seat that is free over the whole span, the previous seat of the booking given up
first. `Bookings` follows POST `/api/bookings`, PATCH `/api/bookings/[id]` and POST
`.../no-show` call by call, so that any handler may run between two calls of another.

* A booking is named by the request that creates it. `create[c]` and `edit[e]` are what a
  handler is about to do, with what it has read; edits may be sent any number of times.
* `SendEdit` is the screen: it remembers the `updated_at` of the row (`token`), and the
  request may reach the handler much later. The notes are saved by themselves without a token
  (`BookingsClient.tsx:1103-1107`), which the route accepts (`[id]/route.ts:250`). `stamp`
  counts the writes of a row.
* `Staff` is the staff of the day, `WeekStaff` that of the weekday. A creation with the
  manual override goes by the weekday's number even when the day has its own
  (`bookings/route.ts:547`, against 692-695 and `[id]/route.ts:498-501`).
* `MayMove`: the route compares the start as text (354-357), so that a request which carries
  the time of the appointment may count as a move of it.
* `MaxActive` bounds the handlers in progress, `MaxStamp` the edits of one booking. `Faults`
  lets a handler die and a call to the database fail, before or after it took effect.
  `Manual` allows the override that sets an end by hand.
* Times are small numbers: `Starts`, with `Duration` and `Buffer`; two or three starts of
  which neighbours overlap are enough for a conflict, a free slot and a move.

**Handlers that overlap, die and fail** (run `bookings_overlap`). The properties name what the
code leaves open as exceptions, which history variables record: `beside`, whom a handler met
at work; `blind`, creations whose look-up of the key failed; `overriding`, creations with the
manual override. `BookingProofs` proves them for any number of staff, handlers, keys and
times, without a hypothesis:

* `NotOversold` (theorem `NeverOversold`): the seats reserved at a time, overrides apart, are
  at most the staff of the day, and all of them at most the larger of the two numbers. So on a
  day with less staff than its weekday overrides may be seated above the day's staff, although
  `docs/api/BOOKINGS_LMS_ACCOUNTING.md:140-142` says that the override "still enforces
  concurrent staff capacity". The proof rests on `BookingInv`: only its creator deletes a
  booking (`InsertedStays`), no seat is held twice (`SeatsExclusive`), and who has not
  overridden has a seat of the day's staff (`OverridesKnown`).
* `KeyCreatesOnce` (`KeysCreateOnce`): two bookings stand under one key only if their requests
  met, one did not get to record the key, or one failed to look it up. `KeyInv`: a recorded
  key leads to a booking (`KeysLead`), the key of a finished creation is known unless its
  booking is gone (`CreatedKnown`), and whoever goes on beside it has met it (`SameKeyMet`).
  The exceptions are real: `bookingPersistence.ts:35-39` and `docs/guides/BOOKINGS_GUIDE.md:30`
  promise protection from double-clicks and retries without them.
* `EditReplacesSeen` (`EditsReplaceSeen`): an edit that met no other handler of the
  appointment replaces the version that it read and, when the request says which, that its
  sender saw; the row it restores is the one it wrote. The check of the token and the write
  are calls apart, so an edit that met another may overwrite what nobody saw, unlike what
  `BOOKINGS_GUIDE.md:12` says. `SeenInv`: what changes under an edit has met it
  (`WorkersMeet`), so the version is still the one read (`VersionKnown`).

**One handler after another** (run `booking_desk`, `MaxActive = 1`), in every order of
requests and with stale screens. Here the question is another: whether the sequence of
cancelling, reopening, completing, missing and moving leaves row and reservation in step.
Under overlap these are false, and TLC finds each violated without a hypothesis that is
named:

* `ExpectedHoldsSeat` and `NeverOverbooked` (theorems `ExpectedAreSeated`,
  `NobodyOverbooked`) under `Serial`: one handler at a time, no failures, no override, which
  sets an end that an amendment neither checks nor reserves. `TurnInv`: what an edit has read
  is still the row when it writes. `DeskInv` says of each step of each handler which row and
  seat it has left to write, and that rows at rest agree with the seats (`RowsAgree`); the
  counting of conflicts in POST and PATCH then implies that `reserve_booking_capacity` finds
  a seat.
* `CancelledHoldsNoSeat` (`CancelledAreUnseated`) for one handler at a time and no failures.
  `CancelInv`: the row of a cancelled booking keeps a seat only until the edit that wrote it
  has released it.

The run `bookings_last_slot_finding` ends in a violation: a reschedule that fails has released
the old seat before it puts the old time back, and a creation in between takes it.

## 5. Reminders and answers: `BookingAttendance`

The daily job reads what was sent and answered for a batch of bookings, mails each a link
and writes the row back; a customer follows the link and claims the answer; a missed
appointment, answered or marked by staff, adds to a count that penalties go by. Every call
is a step, and calls may fail, seem to fail, or be the last of a handler (`Failing`).

* A batch is any set of bookings: which are due depends on times and settings that the
  properties do not tell apart. A job has two windows, one after the other.
* `LinkFor` keeps the link of the row read. An error of that read is not looked at, so the
  job then mails a new link over the old one.
* All appointments are of one contact, whose row of flags stands for the two that the code
  keeps under the phone number and the email address: they are counted in the same way.
* `events[b].response` is the column the claim is conditional on; `respondent` is whose
  `responded_at` the row has, by which a failed answer finds its own claim to undo.
* Links are drawn from a counter: two random tokens are taken to differ.
* `accepted` and `misses` are what really happened. `troubled`, `interrupted` and
  `miscounted` record the one circumstance in which each property does not hold: two jobs
  hold a booking at once, or one of them fails half-way; an answer comes while a job holds
  the booking unanswered; two requests count at once, or one does not finish. The properties
  say that nothing else breaks them.

`booking_answer_finding` is the second of these without its exception: the job writes back
the response it read before the mail was sent, over the answer given meanwhile, against
`docs/guides/BOOKINGS_GUIDE.md:38` ("one-shot transitions").

`BookingProofs` proves `LinksWork`, `AnsweredOnce` and `MissesCounted` for any number of
appointments, jobs and requests. `LinkInv` adds that an untroubled booking is held by one
job, which knows its row's link (`OneAtATime`, `HeldByOne`, `LinkKept`); `AnswerInv` that an
answered row stays answered unless it is undone by its own answer (`RowsFound`,
`AnswerKept`); `CountInv` that the count lags behind the misses by exactly the requests on
their way (`CountsFollow`).

## 6. Timeclock: `Timeclock`

A *ticket* is a QR code shown by a device, valid for `Skew` around the time in it, or a
manual code issued to a device. `Timeclock` has the scan, the submission of a code and its
issue, call by call, with a clock.

* QR codes are constants with the time they were made at (`IssuedAt`); their signature and
  the device's active flag are checks without state and left out.
* `Handling` is the longest time a request takes. The code sets no limit; the platform ends
  a function. `Durations` asks only `2 * Skew + Handling <= Lifetime`, which the code's 120
  s and 300 s satisfy for any request under 60 s.
* A failed insertion gives the ticket back (`Release`), whether or not it had its effect
  (`FailPunch`): the schema of `timeclock_events` is not in the repository, and no unique
  index on it is assumed. `answered` marks the events whose request learned of them.
* The handlers drop the errors of the three reads before the punch and go on as if there
  were no last hash, no last punch, or no recent one (`Found`, `ReadRecent`). `unread` marks
  the events whose request lost something that way; `MaxMissed` bounds them for TLC.
* Clock steps are whole; `Day` is short, so that a few ticks pass a midnight.

`TicketPunchesOnce` is proved (`TimeclockProofs`) for any number of requests and all
durations: a ticket punches again only after an insertion whose answer was lost, which
gives it back although it punched. `TicketInv` is the invariant that carries it: a request is ended in time
(`InTime`); the nonce of a QR code that is held or has punched lasts until no request can
accept the code (`NoncesLast`); a code that is held is marked by its holder, and one that
punched stays marked (`CodesMarked`); a ticket has one holder, and none after its punch
(`HeldOnce`). `ChainForksOnlyInOverlap` and `ApartPunchesAlternate` say how far races
between requests that overlap can disturb the hash chain and the alternation of IN and OUT:
no further than the requests themselves reach, unless the event is one whose own read
failed. Both are proved, too, for any number of
devices, employees and requests, by `PunchInv`: the events that the chain of a request leaves
out came after its start (`ChainSince`), and its type is the one that followed at some moment
since then (`TypeSince`), but for the reads that failed.

## 7. Frappe bridge: `FrappeOutbox`, `FrappeInbox`

### Outwards

Events of leave and lifecycle are inserted once under their dedupe key. The summary of an
employee's day has one row, upserted after each punch and by the daily job. Dispatchers (the
daily job and manual pushes) fetch pending rows, reserve each by a conditional update, post
it, and update it by id whatever became of it.

* Each element of `Dispatchers` is a row of some batch. The rows of a batch are read
  together and worked through one after the other, which is among the interleavings.
* Frappe is external: `received` is the payload it accepted last under a key. Whether a
  repeated POST replaces a document there is not this repository's to say.
* `failures` is a history variable, counted up to `MaxRetries`, as attempts are.
* Retry delays and the batch limit are abstracted to "fetched some time": rows come oldest
  first, and rows that keep failing leave the queue after `MaxRetries`.

Fairness (for `EventsSettle` only): the outbox job is run every day (`vercel.json`) and takes
the oldest rows first, a reserved row is worked on until it is done or its job dies, and,
strongly, the job does not die each time before it has reserved the row. `EventsSettle`
states plainly what the code does not provide: an event whose dispatcher dies stays in
`processing`, and no job looks at it again.

Of a day's summary nothing of the kind can be promised. An upsert during a dispatch is hidden
by the unconditional `processed`, an older post can land last, and only a later upsert repairs
both; but the attendance job queues only the last three days, once a day, and a summary given
up after `MaxRetries` outside that window stays so. What does hold is `SummaryIsSent`, a
safety property: once a summary of all punches is queued while no dispatcher is at work on
the row (`WithAll`, noted in the history variable `requeued`), its row says `processed` only
if Frappe has that very summary, whatever was queued, sent late, failed or lost before.

`FrappeProofs` proves `EventHeldOnce` and `EventsTruthful` for any number of events, writers
and dispatchers. `OutboxInv` adds what makes them inductive: a held event is in `processing`
(`RowsHeld`), what a dispatcher is about to note has happened (`NotesTruthful`), and
attempts never exceed the failures that really occurred, although they are computed from a
stale row (`AttemptsFailed`). `SummaryIsSent` follows from `SummaryInv`: from such a queueing
until the next punch, what is queued, held or sent is the summary of all punches.

### Inwards

Leave that is changed in Frappe reaches `integration_inbox` by webhooks and by pulls; a
reconciliation copies pending rows, oldest first, to `leave_requests`. `FrappeInbox` has
each of them call by call.

* Pulls and reconciliations are started by administrators and by no schedule: they may
  overlap, and no liveness can be asked of them.
* `versions` are the times of a document's changes in Frappe, whose clock is taken to agree
  with the portal's. A webhook may tell of any of them, late or again, so that an older
  version can be the last in the inbox: `LeaveFollowsInbox` is about the inbox, not about
  Frappe.
* A webhook is known by its event id, or else the document's name, or else a new uuid
  (`from`); a pulled change by name and time. The unique index refuses duplicates.
* A look-up that finds two rows (`maybeSingle`) or fails counts as nothing found, and
  another row is inserted. Two rows of a document stand for any larger number.
* Errors of marking a row and of writing the cursor are not looked at (`MissMark`,
  `MissStamp`).
* `passedOver` and `disturbed` are the exceptions the properties make: changes between a
  pull's query and its stamp (the cursor is set to the time *after* the pull) or beyond its
  limit; and documents of which two reconciliations held rows at once or one was half
  copied.
* An administrator decides on a copied row in the portal (`Decide`, the PATCH of
  `hr/leave/requests/[id]`): its status no longer is what the copy said, until the next copy
  replaces it. `decision` is a history variable: the last copied row of the inbox when the
  decision was made. `LeaveFollowsInbox` says which of the two a row shows: the decision
  exactly if nothing was copied after it.
* The conflict registry is left out because its branch is dead: it asks for a leave row
  created in the portal with a Frappe name, and no code writes one. Hence no conflict is ever
  reported when a copy replaces a decision, although
  `docs/api/TIMECLOCK_INTEGRATIONS.md:338` says that conflicts may be created.

`FrappeProofs` proves `MissedOnlyWhilePulling` through `InboxInv`: nothing is from a time to
come (`NothingAhead`), and what a pull must bring is in its hands or will come with its
query (`PullsComplete`); and `LeaveFollowsInbox` through `CopyInv`: undisturbed rows are
held by one job (`HeldRows`), taken in turn (`TakenInTurn`), and what was looked up is still
there when it is written (`FoundStill`).

## 8. Money of a package: `PackageLedger`, `PackageInvoices`, `PackagePayments`, `PackageFinance`

`PackageLedger` holds reservations, payments, invoices and the invoice versions shown to the
customer, and the computations every route ends with, of which there are three for what was
paid: `InvoicePaid` (drafts and lines, without account credit), `NetPaid` (after each
payment) and whatever a page sends back. `PackageInvoices` adds the invoice panel,
`PackagePayments` payments and refunds, and `PackageFinance` composes them (`Tables` has the
operators on rows).

* Each route is one step. What the model is about is pages and failures. `pages` is the copy
  of the invoice that each member of staff has on screen, which is sent back on every save.
  With `Lossy` an answer may be lost, after which the page does not know what it did. Routes
  that overlap are not told apart; the hazard at `refunds/route.ts:80` is therefore open.
* With `Failing` any call to the database may fail, before or after its effect, and the route
  goes on or gives up as its code does. `Sync` and `PaidAsRead` take payments that cannot be
  read for none; `Sync` may not write the invoice (`Unsettled`); `MoveRefund` ignores the
  reservation's errors; `RefundCustomer` may leave either of its two writes without the other.
* Releasing takes two requests (`SaveForRelease`, then one of `Release`, `ReleaseFails`,
  `ReleaseRefused`). The release revokes all visible versions, stores the new one and marks
  the invoice; each of the three may fail.
* Three history variables name what the properties except. `astray`: invoices whose total was
  typed by hand, sent back stale or left by a failed call, and that neither a payment nor an
  edit of lines has settled since, and voided ones. `adrift`: reservations one of whose
  refunds failed between its two tables, or was entered as a payment
  (`payments/route.ts:93` takes a reservation and does not raise its total). `leftover`:
  snapshots whose revocation failed (`release/route.ts:49-54` does not look at the error).
* `TypedSold` and `TypedPaid` bound what staff may type, `MaxVersion` the amendments,
  `MaxRefund` how far edits of payments raise a reservation's refunds.
* `Portal` is what the customer is shown.

`package_release_finding`: asking again for a release whose answer was lost revokes the
snapshot before the unique index refuses the new one, and the customer is shown nothing,
against `docs/api/PACKAGES.md:758`.

Further disagreements met here, without a run: after a second draft a payment settles the
invoice it names and no other, though the dialog says "The invoice balance will be
recalculated." (`PackageOperationsWorkspace.tsx:660`, `packagePaymentsServer.ts:22`);
account credit drops out of the total when lines are edited; the page is not refreshed after
a customer refund; and a release whose last update fails (`release/route.ts:88`) shows the
customer an invoice that the dashboard takes for unreleased, and that can neither be released
in this version again nor amended.

`PackageProofs` proves `ReleaseInv`, `RefundsMatchPayments` and `PaidFollowsPayments` for
any number of pages, invoices, reservations and payments, whichever calls fail and answers
are lost. The sums over payments are
recursive functions; `NaturalOrder` proves by least counterexample what a change of one term
does to them, and the proof of refunds follows each payment's share of each reservation.

## 9. Quotes and conversion: `PackageQuotes`

A quote offers a payload; a choice is selected among what it offers and priced by it; an
edit replaces the payload and clears the selection; a conversion makes a folder of the
quote. Every database call is a step, and requests may die between any two (`Breaking`),
which also stands for calls whose failure nobody looks at.

* `Payloads`, `Parts`, `Options` and `Offered` replace flights, hotels and prices by what the
  properties tell apart: which payload a selection was resolved with, and for each part (stays,
  flights, linked flights, transport) which option, if any, was selected among those offered.
* `Refused`, `Resolved` and `Bought` are `resolvePackageSelection`: an option that the part
  does not have is refused, and so is a stay without one; a part without options is left out,
  and a part other than a stay without a selection comes with its `Preferred` option. Visas
  are all charged, whichever is selected, and the extras of a stay are looked up like its
  option; both are left out.
* PATCH writes the quote and, if the row that comes back names a folder, loads and stores
  that (`EditWrites`, `EditLoads`, `EditStores`).
* Sharing flights within a group is one step with any payload, which includes one made from
  a stale read.
* A conversion reads the quote, inserts the folder under a unique index on
  `source_quote_id`, inserts its parts, and links the quote. The parts are not modelled. If
  a quote's folder could not be found the code would insert another, which the index
  refuses; so this is no action.
* `mishaps` records what the properties except: a selection that `crossed` an edit, a
  conversion that died before it linked its folder (`stranded`; such a quote can never be
  converted again, and `docs/api/PACKAGES.md:245` admits partial state), and edits that left
  the folder `behind`.

`SaleKeepsChoice`: what a folder was sold with is kept part by part through later selections
and edits, except for parts in `altered`, of which a refresh found no options in the new
payload, or found some where the folder was sold without. Those it drops or sets to the
preferred option without a word (`packageQuote.ts:2297-2341`), and prices and contents follow
the quote in any case (`FolderFollowsQuote`), although `docs/guides/TRAVEL_PACKAGES_GUIDE.md:11`
says that "later quote edits do not silently change the sale".

`PackageProofs` proves all four properties for any payloads, parts, options and number of requests,
from `QuoteInv`: there is one folder and whoever names a folder names it (`OneFolder`), a
refresh has no selection but the folder's own, and what it will change of it was noted
(`RefreshesKeepChoice`), what a conversion read fits (`SnapshotsFit`), and a folder that differs from the quote is about to be
refreshed (`FolderCatchesUp`).

## 10. Access: `RateLimit`, `BackupCodes`

`RateLimit` is `enforceRateLimit` over `check_api_rate_limit`: a request is counted under
each of its identities, each time in a transaction that reads the clock, now and then
deletes buckets at rest, waits for the advisory lock of its key, and counts. `BackupCodes`
composes it with what admitted requests do: consume a code, replace the set after a fresh
second factor (which may be a code), or delete it in an administrator's recovery.

* The clock is read before the lock is waited for, so counts may be stamped out of order.
  `Wait` is the longest a transaction lasts, which the database's statement timeout sets and
  not this code.
* The assumption `Window + 2 * Wait <= Retention` makes the cleanup safe. Callers use
  windows from a minute to an hour against seven days.
* A cleanup locks rows before the advisory lock, so that two calls can wait for each other;
  `Break` is the database cancelling one of them.
* When the limiter fails, requests are refused. Two telemetry routes admit them, and have no
  state of their own.
* Consuming reads the rows, compares hashes for a while and marks a row if it is still
  unused. The recovery deletes rows without the replacements' lock, in a statement that sees
  the rows first and then waits for them.
* `passed` and `honoured` are history variables: counts within the limit, and codes that let
  a request in. Authenticator factors are kept by the identity service and are an
  unconstrained choice.

Fairness is weak: the database carries on the transactions that were begun, and a handler
its request. Nobody need ever ask. Under it `EveryRequestEnds`, through lock waits,
deadlocks and cleanups.

`AccessProofs` proves, for any number of requests, keys and identities, that in every window
no more pass than the limit (`LimitInv`: rows being deleted were at rest, windows of a key
lie apart, and a bucket knows of every pass in its window), hence `FewInAnyInterval`, since
an interval meets at most two windows; that the codes stored are one whole set or none
(`CodesInv` with `FoundWhole`); and `CodeWorksOnce`.

## 11. Runs

| Run | Instance | What it shows |
| --- | --- | --- |
| `lms_ledger` | accounts: 2 customers, 2 loans, 3 transactions, plans of one row; plan: 1 customer, 1 loan, 3 transactions, plans of two rows, one day boundary; both with backfill and migration | `LoanMatchesLedger`, `References`, `InstallmentMatchesLedger`, `OpenRowsCarryDebt`, `PaidMeansCovered`, `SkippedStaysSkipped` under every order of RPCs |
| `lms_idempotency` | 1 key, 3 submissions, 2 amounts, dated or not | `RetryInv`, `DatedRetryReplays`, `PaysOnce`, `EveryCallEnds` |
| `lms_retry_finding` | 1 key, 2 submissions | violation: an undated retry is refused as a different payment |
| `booking_desk` | bookings: 3 creations under 2 keys, an editor, a no-show, 1 seat, 3 starts, one handler at a time; reminders: 1 booking, 2 jobs, 2 answers, 1 mark by staff, 2 links, with failures | `ExpectedHoldsSeat`, `CancelledHoldsNoSeat`, `NeverOverbooked`; `LinksWork`, `AnsweredOnce`, `MissesCounted` |
| `bookings_overlap` | 2 creations under 1 key, an editor, a no-show, 2 at once, faults, manual ends, 1 staff on the day and 2 of the weekday | `NotOversold`, `KeyCreatesOnce`, `EditReplacesSeen` |
| `bookings_last_slot_finding` | 3 creations, an editor, 2 at once | violation: two customers in the last slot |
| `booking_answer_finding` | 1 booking, 1 job, 2 answers, no failures | violation: a reminder takes an answer back |
| `timeclock` | 2 QR codes, 1 manual code, 1 device, 2 employees, 2 requests at once, 4 ticks, days of 3, 1 failed read or unanswered insertion | `TicketPunchesOnce`; `ChainForksOnlyInOverlap`, `ApartPunchesAlternate` |
| `frappe_bridge` | one of: an event, or a day of 2 punches, with 2 writers, the daily job, 2 dispatchers and 2 attempts; 2 pulls of a document; a pull of 2 documents of which it may take 1; 2 changes told by webhooks, 2 reconciliations and decisions in the portal | `EventHeldOnce`, `EventsTruthful`, `EventsSettle`, `SummaryIsSent`; `MissedOnlyWhilePulling`, `LeaveFollowsInbox` |
| `packages` | 1 reservation, 1 invoice, 1 page, lost answers and failing calls: payments (2 at a time, beside drafts and edits; refunds of a reservation before there is an invoice) or releases (2 versions, 1 payment); or quotes: 2 requests, 3 payloads of a stay and flights, 2 options, deaths | `ReleaseInv`, `RefundsMatchPayments`, `PaidFollowsPayments`; `FolderReached`, `SelectionFits`, `FolderFollowsQuote`, `SaleKeepsChoice` |
| `package_release_finding` | 1 reservation, 1 payment, 1 invoice, 1 page, lost answers | violation: a repeated release shows the customer nothing |
| `backup_codes` | 3 requests, 2 keys, limit 1, window 3, retention 5, wait 1, 7 ticks; or the 3 admitted requests at work on sets of 2 codes | `FewInAnyInterval`, `EveryRequestEnds`; `CodesInv`, `CodeWorksOnce` |

Why these bounds reach the interesting cases: two handlers and one contended row show every
race of two; the third submission, creation or request is the one that meets the result of
such a race; two rows of a plan are the least that redistribute; two attempts are the least
with a retry before the row is given up; two versions of an invoice are the least of which
one can replace the other; and the clock passes every boundary once (nonce expiry, midnight,
the limit on codes, two windows and a cleanup). The payloads of a quote have both
flights and the stay, no stay and one flight, and the stay and no flight, so that an edit can
keep a choice, change it or be refused. The scenes of a package keep refunds of a reservation
apart from invoices, and releases from all but one payment: each route computes one of the
three totals from the tables alone, the proofs cover all of them together, and the scenes
are what fits in minutes.

Runs with a `scene` check components, or parts of one, that share no variable and take no
steps together; a behaviour then has one of them, so that their states add up and do not
multiply. `WorkTogether` in `MCBackupCodes` starts from requests that have passed the
limiter in windows of their own, a state that the limiter reaches. `CHECK_DEADLOCK FALSE`
stands where work is finite: submissions, handlers or tickets run out, or an event is
settled. Symmetry is used in runs without liveness only.

## 12. Proofs

| Theorem | Module | For all |
| --- | --- | --- |
| `TypeCorrect`, `LedgerCorrect`, `ReferencesHold`, `InstallmentsMatch`, `PaidAreCovered`, `SkippedStay` | `LmsLedgerProofs` | customers, loans, amounts, terms |
| `DebtIsCarried` | `LmsLedgerProofs` | customers, loans, terms, and amounts that every term divides (`AmountsSplit`) |
| `RetryInvariant`, `MissingStaysMissing`, `DatedRetriesReplay`, `ImplementsPayOnce` | `LmsIdempotencyProofs` | keys, amounts, dates, submissions |
| `BookingInvariant`, `NeverOversold`, `KeysCreateOnce`, `EditsReplaceSeen` | `BookingProofs` | staff, requests, keys, handlers, spans, faults |
| `CancelledAreUnseated` | `BookingProofs` | staff, requests, keys, spans, with `MaxActive = 1` and `~Faults` |
| `DeskInvariant`, `ExpectedAreSeated`, `NobodyOverbooked` | `BookingProofs` | staff, requests, keys, spans, with `Serial` (also `~Manual`) |
| `AttendanceTypes`, `LinksLead`, `OneAnswerRecorded`, `CountFollowsMisses` | `BookingProofs` | appointments, jobs, answers, failures |
| `TicketInvariant`, `TicketsPunchOnce` | `TimeclockProofs` | tickets, devices, requests, durations with `2 * Skew + Handling <= Lifetime` |
| `PunchInvariant`, `ForksOverlap`, `PunchesAlternate` | `TimeclockProofs` | devices, employees, requests, days, durations |
| `OutboxInvariant`, `EventsHeldOnce`, `EventsAreTruthful`, `SummariesAreSent` | `FrappeProofs` | events, punches, writers, dispatchers, `MaxRetries` |
| `OnlyPullsMiss`, `LeaveFollows` | `FrappeProofs` | documents, jobs, limits of a batch |
| `Released`, `RefundsMatch`, `PaidFollows` | `PackageProofs` | pages, invoices, payments, reservations, prices, failures |
| `QuotesConsistent`, `FoldersReached`, `SelectionsFit`, `FoldersFollowQuotes`, `SalesKeepChoices` | `PackageProofs` | payloads, parts, options, requests |
| `LimitsHold`, `FewInIntervals`, `SetsStayWhole`, `CodesWorkOnce` | `AccessProofs` | requests, keys, identities, durations with `Window + 2 * Wait <= Retention` |

Each proof shows that its inductive invariant holds at first and is preserved by every
action, one step per action; the theorems follow. `ImplementsPayOnce` is a refinement: every
step maps to a step of the abstract specification or to a stutter. The assumptions are the
ASSUMEs of the modules, which TLC evaluates in the runs. Four of the invariants
(`BookingInv`, `TicketInv`, `OutboxInv`, `LimitInv`) are proved and not among the properties
of the runs, which state their consequences. `NaturalOrder` proves that a nonempty set of
naturals has a least element, from well-founded induction in the library, and what follows
for sums.

Every invariant and every action property of the passing runs is stated by a theorem. The
strengthenings behind those of the bookings, the timeclock and the ledger were checked on
the instances of the runs before they were proved; those instances satisfy the hypotheses of the
conditional theorems, so each has states.

Only model-checked: liveness (`EveryCallEnds`, `EventsSettle`,
`EveryRequestEnds`), which the prover does not handle under fairness, and the findings, which
are counterexamples.

## 13. Not modelled

`PROJECT.json` lists each part that is left out with its reason. What could still be done,
in order of importance:

1. Overlap of the money routes of a package, each of which, with its failures, is one step
   here: two refunds at once, and a release beside an amendment.
2. The deletion of reservations and packages, payment plans, supplier credits.
3. The parts of a folder (passengers, tasks, deadlines), whose insertion may fail in part.
4. Row locks of the ledger: who waits for whom, and which calls deadlock.
5. The migration between object stores, and the fallback from one to the other.

Two more disagreements between parts of the code, without a run: sharing flights clears the
selection of a converted quote without refreshing its folder; and archiving a quote can be
undone by a selection or a conversion that was under way.

Left out for good: React views, rendering of mails and documents, single-row edits without a
protocol, arithmetic without state, and calls to the identity service.
