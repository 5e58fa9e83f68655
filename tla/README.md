# Payrolla: TLA+ models, checks and proofs

Payrolla is a multi-tenant payroll web application for Ghana (Flask, SQLAlchemy,
PostgreSQL; a desktop edition runs on SQLite).  Client companies upload monthly
payroll workbooks, the operator checks, approves and closes the runs, and the system
sends every worker a payslip by SMS, WhatsApp or e-mail.  This directory models the
parts of it in which threads, crashes, stale reads and arithmetic decide whether the
system is right.

## How the system runs

* One web process with four request threads (`render.yaml`: `gunicorn --threads 4`),
  and a distribution worker, either a thread of the web process or a process of its
  own (`Procfile`).  A platform restarts a process that ends.  Nothing restarts the
  thread, which an exception outside a batch ends, until the web process is started
  again (`app/__init__.py`, `_start_inline_distribution_worker`).
* One PostgreSQL database in production (`app/__init__.py`,
  `assert_persistent_database_config`), READ COMMITTED.  Handlers read rows, check,
  and commit later.  Apart from `claim_next_batch` (which locks its row),
  `claim_delivery`, `recover_stale_claims`, `settle_unknown` and `invites.accept`
  (conditional UPDATEs), a commit writes by primary key whatever the row has become.
* SQLAlchemy writes a column only if its new value differs from the value that was
  read; if the value had been expired by a commit, it is written in any case.
  Updating a row that is gone raises `StaleDataError`; deleting it again does not.

So a handler is modelled as a *Loads* action (guards, and what is remembered) and a
*Commits* action, with every other thread free to run in between.  A handler whose
write is conditional in SQL is one action.

## Inventory

| Component | State | Operations | What makes it right |
|---|---|---|---|
| Payslip delivery (`distribution/service.py`, `recovery.py`, `settle.py`, `receipts.py`) | `PayslipDelivery`: status, next_retry_at, attempts, provider_message_id | send, resend, retry sweep, stale-claim recovery, settle, delivery report, cancel | nobody gets a payslip twice unless someone decided so; `sent` is true; retries end |
| Distribution queue (`distribution/queue.py`) | `DistributionBatch`; the worker's position | enqueue, schedule, reschedule, cancel, activate, reclaim, claim, process | every batch ends; a batch that kills its worker is given up |
| Send idempotency (`distribution/idempotency.py`) | `IdempotencyKey` | claim, replay, run, store, release | one press, one batch, one answer; no press stuck |
| Confirm page, contacts, notices, status page (`confirm.py`, `run_actions.py`, `contacts.py`, `phones.py`, `notify.py`, `status.py`) | contacts, batches, who was told of what | preview, confirm, send, resend, retry, settle, poll | what was shown is what is sent; every final failure is heard of; a still page is final |
| Links and tokens (`distribution/links.py`, `tokens.py`, `render.py`, `gsm7.py`) | `PayslipLink`, token versions, the key | mint, revoke, resolve, expire, rotate; fit the text in one SMS | the link in the worker's hand opens the payslip; retired ones do not |
| Throttles and alerts (`distribution/throttle.py`, `request_limit.py`, `login_throttle.py`, `client_ip.py`, `distribution/sla.py`) | in-process counters, alert stamps | reserve, count, lock, prune, check | limits hold under concurrency; a standing breach is repeated |
| Payroll runs (`payroll.py`, `client/`, `payroll_status.py`, `permissions.py`) and the risk gate (`risk.py`, `oversight/`) | `PayrollRun`, `ImportBatch` | import, replace, calculate, edit, submit, approve, reject, process, score, release, distribute, delete | no unsigned payslip goes out; a run with sent payslips survives |
| Statutory calculation (`payroll_calculations/`, `raw_engine/calc/`, `statutory.py`, `deductions.py`) | rate versions, evidence | PAYE, SSNIT, provident fund, overtime, bonus, relief; version selection; the runs of a year | tax is marginal; engines agree; the annual cap is used once |
| Employees and roster (`employees.py`, `client/`, `raw_engine/seed.py`, `store.py`) | `Employee`, `WageRateProfile`, relief awards | add, edit, pay-type change, deactivate, delete, bulk import, upload, seed | one record per worker; past periods reproducible; history keeps its worker |
| Storage, receipts, expenses (`receipts.py`, `storage.py`, `client/expenses.py`) | rows and objects | add, edit, attach, replace, detach, delete, serve | no row without its file, no stranger's file |
| Audit page (`audit.py`, `paging.py`) | `AuditTrail`, `Expense` | record, page | every row on exactly one page |
| Access requests, invites, licences, tenancy (`access_requests.py`, `invites.py`, `desktop_licences.py`, `licensing.py`, `roles.py`, `tenancy.py`) | request, company, licences, account | submit, review, approve, issue, invite, resend, accept, expire, serve a row | single use; decided once; each tenant sees its own |
| Migrations (`migrations/`, `rls_guard.py`, `models.py`) | the schema | upgrade, downgrade, guard | the chain applies; a revision is one schema |
| Spreadsheet reading, dashboards, documents, application factory | | | parsing, read-only pages, layout, configuration |

Interactions: a web request enqueues a batch (`PayrollRuns` -> `SendRequest` ->
`Queue`); the worker processes it by sending the run's payslips (`Queue` ->
`Delivery`), each with a link (`PayslipLinks`) to a contact (`Outreach`); delivery
reports and operators write delivery rows from web threads; deleting or replacing a
run removes its deliveries; the status of a run gates the enqueue, not the worker.
An import writes the roster and a run; a calculation reads the roster's evidence, a
rate version and the closed runs of the year.

What is hard: the interleaving of senders, sweeps, recoveries, reports and operators
on one delivery row; a crash between a provider's acceptance and the commit; a claim
declared stale while its sender is merely slow; checks made at load and used at
commit; two stores without a common transaction; rounding at band edges; limits kept
by counters that are pruned.  `PROJECT.json` lists each under `hazards`, at its line.

## Modules

| Module | Models |
|---|---|
| `Delivery` | one run's delivery rows under every writer of them |
| `SendPermits` | abstract specification: what a row's readers may rely on |
| `Queue` | batches, requests and workers |
| `SendRequest` | the idempotent send request |
| `Outreach` | confirm page, contacts, notices and status page around a send |
| `PayslipLinks` | the links of one delivery, and the SMS that carries them |
| `Limiters` | login lock-out, request limits, send slots, service-level alerts |
| `PayrollRuns` | the runs of one client, with the risk gate |
| `Statutory` | the three calculation engines, as operators |
| `TaxYear` | rate versions, evidence and the runs of one year, over `Statutory` |
| `Roster` | workers, rates and relief awards of one company |
| `Expenses` | expenses and receipts as rows and files |
| `AuditPages` | the merged, paged audit trail |
| `Onboarding` | access request, company, licence, invitation, what an account sees |
| `Revisions` | the 41 Alembic revisions, as sequences of operations |
| `Schema` | upgrade, downgrade and the row-level-security guard over `Revisions` |
| `DistributionProofs` | TLAPS proofs about `Delivery`, `SendPermits` and `Queue` |
| `SendingProofs` | TLAPS proofs about `SendRequest`, `Outreach`, `PayslipLinks` and their composition |
| `PayrollRunsProofs` | TLAPS proofs about `PayrollRuns` |
| `TaxYearProofs` | TLAPS proofs about `Statutory` and `TaxYear` |
| `LimiterProofs` | TLAPS proofs about `Limiters` |
| `OnboardingProofs` | TLAPS proofs about `Onboarding` |
| `BooksProofs` | TLAPS proofs about `Roster`, `Expenses` and `AuditPages` |
| `Least` | lemmas: a set of naturals has a least element, induction up to a bound |
| `MCDelivery`, `MCQueue`, `MCSending`, `MCPayrollRuns`, `MCTaxYear`, `MCSchema`, `MCLimiters`, `MCOnboarding`, `MCBooks` | instances for TLC |

`MCSending` (SendRequest, Outreach, PayslipLinks) and `MCBooks` (Roster, Expenses,
AuditPages) each check three modules that share no state: a variable `part` says
which of them moves, so the state space is the sum of the three and not the product.

Operators whose comment calls them a *mutant* are deliberately wrong variants of the
definition that follows them; no specification uses them.  They stand for bugs the
properties would catch.

### Delivery

A *sender* is a thread inside `_attempt_send`.  `PickForBatch` is `distribute_run`
reaching a row (mode *send*, or *resend* for `only_failed`), `PickForSweep` is
`process_due_retries`.  Then `InsertPending`, `ClaimDelivery` (the conditional UPDATE
of `claim_delivery`), `NothingSent` (no contact, or no message), `CallProvider`,
`RecordOutcome`.  `SenderDies` can strike at any of these points.
`RecoverStaleClaim`, `SettleUnknown`, `ReportLoads`/`ReportCommits` and
`CancelLoads`/`CancelCommits` are the other writers.

* Time is abstracted: a scheduled retry may be due, and a claim may be stale, at any
  moment.  The ten-minute window does not exclude a live sender: the desktop edition
  runs the worker on a laptop that may be suspended between claim and outcome.
* `attempts` is read when the outcome is written, because the commit before it
  expired the row.  The read and the commit of the outcome are one step of the model;
  in the code another sender's claim could count an attempt between the two.
* The provider is external.  `Answers` lists what a call can amount to.  SasuSync's
  error statuses mean that nothing was accepted: that is what `sasusync.py` says of
  them, and the sender classifies on that ground; nothing in the repository can show
  it.  A transport failure may hide an acceptance.  Hubtel, WhatsApp and SMTP
  senders report both alike; the Apps Script relay classifies some.
* A report of success changes only `provider_status` and `delivered_at`; it is no
  action.  A failure report may be late, repeated or about an earlier send.
* `CancelLoads` has no guard.  The code refuses while a batch row of the run says
  `running`, which is not to say that no sender works: it may work for the sweep, or
  for a batch that was put back to `queued` under it.  Allowing the cancel at any time
  covers these, and adds behaviours.

`copies`, `released` and `vouched` are history: acceptances by the provider, times a
row was made claimable again from outside the send path, rows an operator settled as
sent.

`NoBlindResend` is the promise of the send path: `copies <= 1 + released`, for the
sender that tells a refusal from a lost answer.  `SendPermits` states it without
claims and statuses: a row has permits, an acceptance uses one up, only a release
adds one; `KeepsPromise` is the refinement.  `SentHasGrounds`, `SweepWithinLimit`
and `AutomaticSendingEnds` cover late writes, the attempt limit and termination.
`SweepWithinLimit` leaves out rows with a provider id: a failure report loaded before
a retry was scheduled, and committed after the next claim, writes the status alone
and leaves that retry on a row whose limit is spent.

### Queue

`drain_once` is the cycle ActivateLoads/Commits, ReclaimLoads/Commits,
ClaimNextBatch, ProcessBatch.  The recovery of claims and the retry sweep, which the
cycle also runs, belong to `Delivery`.  `WorkerDies` strikes inside a batch, any
number of times.  A clock can make a batch due, or a running one old;
`BusyBatchesGetOld` says whether a batch can outlast the stale window while a living
worker sends it (the comment in `reclaim_stale_batches` assumes not).

### SendRequest

`replay_or_run` with its three commits (claim; run_fn's own; response), the
IntegrityError path, the exception path that gives the claim back, and death in
between.  `enqueue_distribution` commits its batch (`EnqueueCommits`) and then reads the
summary from it (`EnqueueReads`): the commit has expired the row, so this is a query
that may raise like any other.  `RunRaises` covers the steps before the commit and that
query.  After the latter the nonce is free and the batch is there; `lost` is history
and remembers such batches, which `OneBatchPerNonce` does not count.
`ClaimsAreResolved` names the two ways in which a nonce stays claimed: a crash, and a
summary with a datetime.

### Outreach

Contacts are chosen as `contacts.py` does (preference, roster phone, MoMo number,
the payroll row's own), numbers normalised as in `phones.py`.  The confirm page puts
every payslip into a category; `promised` remembers it from the press of the button to
the end of the batch.

Batches go through `Activate` (those with a schedule), `StartBatch`, `SendOne` per
payslip and `FinishBatch`.  A payslip that is not skipped ends with one of `Outcomes`,
among them `unprepared`: a contact was there, but no message could be made.
`BatchFails` is an exception out of the loop, or the reclaim cap; `Requeue` is the
reclaim of a batch whose worker died.  Either may leave the payslip the worker was at
claimed (`StopsAt`), which `RecoverStale` declares unknown later.  A death between the
insert of a row and its claim leaves a pending row; that point is in `Delivery`.

The retry sweep of a run is `SweepStarts` (the rows that are due), then per row
`SweepClaims` and `SweepRecords`, and `SweepNotifies`, the notice in its own commit.
`SweepDies` can come between any of them.  While an attempt is out its row is `sending`,
other rows, batches and requests move, and recovery or a settle can decide the row
before the outcome is written over it.  `ReportFails` is a provider's report about a row
with a message id.  Within a batch an attempt is one step, because the batch is under
way all the time and the page polls; claims that cross are the subject of `Delivery`.

`tried`, `reported` and `silent` are history: the payslips the batch set out to send to
a contact it had, the failures a notice counted or an operator settled, and the
failures nobody hears of (by a report, or with a process that died between the row's
commit and the notice's).

* `PreviewIsWhatIsSent`: for a completed batch, `tried` is what the page counted as
  reachable, for every payslip whose contact nobody edited and whose delivery nobody
  else changed since the page was made.  For the others it says what still holds: on a
  channel that was named an edited contact does not send what was to be skipped, and a
  changed delivery does not reach a worker who had no contact.
* `FinalFailureIsHeard`: a failure nothing will retry was counted, or is in the tally or
  among the due rows of a batch or sweep at work, or is one of `silent`.
* `StillPageIsFinal`: a page at rest (it does not poll, and shows neither a schedule nor
  an attempt under way) changes by a request or a report only.  A row that recovery or an
  operator decided while the sweep's attempt was out is excepted (`Overrun`).

### PayslipLinks

One delivery, two senders: claim, mint (the new code revokes the earlier ones in the
same commit), send, outcome; a stale-claim sweep that takes the row from a sender at
work, resends, revocation of one link and of all links of a payslip (load and
commit), rotation of the key, expiry, and the resolution of a link by the public
routes.  A failure report fails the row whatever its status is, and is about the
message whose id the row has (`messageId`), which a later send without an id leaves in
place.  The text of the SMS is cleaned and fitted by septets, a character being worth
one (a space and a mark that is stripped at the end among them), two, or not sendable;
`LinksTypeOK` includes that every SMS is GSM-7 and takes one part, which is the check
`render_payslip_sms` makes last and calls unreachable.
`crossed` and `regressed` record the races under which a link in hand stops working (a
row taken from a sender at work, or failed by a report about an earlier message), or a
revoked one works again; the properties hold outside them.

### Limiters

One run, one subject at a time: sign-in attempts (check and count are two steps, so
threads may be past the check when the lock comes), public requests with a full
table, send slots (reserve under a lock, sleep outside it), and the service-level
check, whose stamp is written before its alert is committed.  `WorkerRaises` ends the
worker at any poll; `supervised` says whether it is a process of its own, which is
restarted, or a thread of the web process, which comes back with the next deployment
(`Restart`) if there is one.  The slots are each
process's own, as the lock is.  IPv6 addresses count by /64.  Time is an age on each
entry, so the state space is finite without a bound on the clock.

### PayrollRuns

Runs of one client.  Money is abstracted to one fact per run, `stale`: the stored
figures do not follow from the stored inputs (after an edit, or when the
auto-calculation at confirm failed).  `Verdicts` keeps the first-runs rule of
`evaluate_run` and leaves the variance rules open once a closed run exists.  The
distribution appears only as far as runs see it (`batched`, `queued`, `sent`).
`StatusCommits` is the commit of submit, approve, reject, mark_paid, export, the bulk
routes, risk_check and release_hold.  `export` is a GET route that also sets
Processed.  `TypeOK` includes that a draft points to a run that exists.

Left out: vouchers and remittances (no code creates them), linked expenses, the
multi-client import, legacy raw-hours entries (so calculating or editing a raw run
changes nothing), the status "Previewed" (never written).  Run ids are not reused.

### Statutory and TaxYear

`Statutory` holds the arithmetic of the salaried, hourly and raw engines, with the
code's order of rounding.  What goes in is in thousandths of a pesewa, rates are
thousandths.  The salaried engine rounds every column before anything else (`Rounded`);
the hourly one rounds its lines, and uses the provident fund and the relief as they were
typed; the raw one rounds none but the overtime, a sum of rounded lines, and rounds what
it computes.  `bands_from_rows` rounds a rate to six places, which leaves thousandths as
they are.  Columns that are treated
alike are one column; sums are recursive functions.  `TaxYear` adds rate versions
(typed in any order of bands), the evidence of a worker, and the runs of a year, which
are imported, calculated, edited and moved through their statuses.  `PayeIsMarginal`
compares the stored bases and thresholds with a band-by-band reference, `CapAmongKnown`
the annual bonus concession over runs that knew of each other.  `EnginesAgree` puts the
three engines side by side, on the items of the runs and on inputs finer than a pesewa
(`Typed`).  For inputs in whole pesewas they give the same figures, apart from what an
engine does not know (advances; post-tax deductions in the hourly one) and from union
dues, which the raw one alone takes.  For finer inputs the raw engine's gross and its
deductions other than tax are within two pesewas of the salaried engine's, the hourly
engine's gross is the same and its deductions within one; the tax, on bases that differ
by as much, is not compared.

The items of the runs are in whole pesewas, as their columns are; `Typed` stands for
what an engine is handed before a column rounds it.

`seen` and `sound` are history: the closed runs a run was last calculated from, and the
runs whose figures follow from their inputs and were calculated when no other closed
run had used less than nothing.  A run can use less than nothing, because an import
does not reject a negative bonus as the edit form does; the runs after it then get
more than the cap.

### Roster, Expenses, AuditPages

`Roster`: each handler is Begin and Commit; `uid` is history, the person a row was made
for, so that a reused id is told from the worker it used to name. Staff ids keep their
spelling until `normalise_emp_id` folds it. SQLite gives the next id after the largest
one in the table, PostgreSQL the next one of a sequence (`FreshId`). A file is written
row by row, as a recursive function. The lines of a seed that name one worker share one
object: each finds it as the line before it left it (`Loaded`). A seed whose worker was
deleted meanwhile fails (`SeedLost`) if a column of that worker changed, or if, on
PostgreSQL, it would write the worker rates; otherwise it does not notice. `Expenses`:
the upload stores the new object, deletes the old row and object, and commits; storage
errors, failed commits and another request may come at any point between. `AuditPages`:
time in half days; each page takes from two tables only as many rows as it can reach
(`FirstOf`, an ORDER BY with a LIMIT) and merges them by another key than the database
sorted them by. Both orders are relations on the rows.

### Onboarding

One access request from form to account.  Operators' handlers are load and commit,
with the e-mail sent in between and a commit that may fail.  `uses`, `chosen`,
`crossed` are history.  What an account may see is decided by the operators
`PlatformPageShows` and `TenantPageShows`, over accounts whose role and company do
not match and rows without an owner.

### Revisions and Schema

Every revision's `upgrade` and `downgrade` is a sequence of operations on tables,
references, indexes and columns added later.  `Schema` walks the chain: in one
transaction on PostgreSQL, one per revision on SQLite, with rows written, duplicate
deliveries, columns added by hand and RLS switched off in between.  A revision is all or
nothing (`Ran`).  That is so unless the process is killed: pysqlite commits the
statements before the first INSERT or UPDATE, so that on SQLite a revision killed
half-way leaves them behind; a kill is not modelled.

## Runs

| Run | Checks | Shows |
|---|---|---|
| `delivery` | TypeOK, NoBlindResend, PermitBalance, KeepsPromise, AutomaticSendingEnds | a row of the classifying sender is accepted at most once per release, in every interleaving of two senders with all other writers and a crash; sending comes to rest |
| `delivery_kinds` | SentHasGrounds, SweepWithinLimit | the same machinery under senders that classify less, on two rows |
| `queue` | StartsAreAccounted | one worker, two requests, two runs: starts of a batch are bounded by the reclaim cap |
| `queue_live` | AllBatchesSettle | two workers: every batch ends, even if every attempt kills its worker |
| `sending` | TypeOK, OneBatchPerNonce, ClaimsAreResolved, FinalFailureIsHeard, PreviewIsWhatIsSent, StillPageIsFinal, LinkInHandOpens, RetiredNeverOpens | one nonce, one batch, one answer, through errors and a crash; what the confirm page promised is what was sent, with schedules and dying workers; a final failure is heard of and a page at rest is final, with sweeps and reports step by step; the link in hand opens and retired links do not |
| `payroll_runs` | TypeOK, NoUnsignedPayslip, SentSurvives | two request threads over the whole lifecycle |
| `tax_year` | PayeIsMarginal, EnginesAgree, CapAmongKnown | versions on either side of the change of policy, two runs of one year in every order, inputs finer than a pesewa |
| `schema` | ChainApplies, RevisionIsSchema, OpenTablesAreKnown | the whole chain on three engines with rows and hand-made changes in between |
| `limiters` | GuessesAreBounded, RatesAreKept, StandingBreachIsRepeated | limits under crossing threads, rotating addresses and a full table; alerts under a worker, thread or process, that any poll may end |
| `onboarding` | LinkWorksOnce, InviteeIsNotShutOut, DecidedOnce, TenantSeesItsOwn | two operators and two holders of one invitation |
| `books` | OneRecordPerStaffId, HistoryKeepsItsWorker, PastReliefStands, ZeroingWasShown, RowsMatchFiles, ServedIsOwnFile, PagedExactly | roster and receipts under two crossing requests, on two databases, with storage and commit failures; the audit pages over three days |
| `roster_rates_of_another` | OverridesThatWorkerOnly (violation) | on SQLite the rates of a deleted worker become the next one's |

The property of the violation run states what a comment in `models.py` says; the
finding in `PROJECT.json` quotes it.

A property that holds only outside some crossing says so in its text, and the crossing
is a history variable of the model (`crossed`, `regressed`, `repeated`): every run
reaches the states in which it is true.  The list below names each.  `QueueTypeOK`,
`RosterTypeOK`, `LedgerTypeOK` and the TypeOK of `TaxYear`, `Schema`, `Limiters` and
`Onboarding` are stated in their module but listed in no run; those of `Queue`,
`Roster`, `Expenses`, `TaxYear` and `Onboarding` are proved.

### Bounds

* Delivery: two senders are enough for every race on one row that involves a slow
  sender and a newcomer; three passes and an attempt limit of 2 let a row be sent,
  fail, be retried by the sweep and be re-sent by a batch; two reports can cross each
  other's writes; one crash.  Rows do not interact except through `cancel`, so one or
  two are enough.
* Queue: two batches of two runs (one run for liveness), a reclaim cap of 2 (1).
  Deaths of workers are not bounded.
* Sending: four requests on two nonces (one of them pressed three times), three
  batches, one crash; a run of two payslips with one request (of an operator or a
  provider), and a run of one with two, three kinds of contact, two attempts; two senders
  and two links of one delivery, versions up to 2, one rotation of the key, two upsets
  (crash, report, revocation, expiry), six septets.  Three revocations that overtake each
  other need two committed and one in flight, which version 2 allows.  The runs
  `Outreach` moves share no state but an operator's page; the theorems are about any
  number of both.
* PayrollRuns: two threads, two runs, an operator's and a client's draft and raw
  workbooks for one month, four requests that pass their guard.  A second month would
  only separate runs that compete in one month.
* TaxYear: two workers, runs of August and September (the policy changes in
  September), two versions, six requests.  The sheets hold a bonus below, at and above
  the cap and a negative one, overtime, a refund and a low wage; one item of `Typed` has
  fractions of a pesewa in every column; incomes are compared
  pesewa by pesewa up to beyond the last threshold of the small tables of bands.
* Schema: no bound; every position of the chain, three engines.
* Limiters: three attempts in a window of two ticks, a lock-out of two; two requests a
  window with room for two addresses, three addresses of two subscribers; two threads
  and two processes.  Ages stop growing beyond the window, so no bound on time.
* Onboarding: two operators, two invitee threads, two companies, three passwords set,
  two licences signed.
* Books: two request threads, four rows of the roster, three requests (an upload, a
  deletion and the one that follows); two threads, two companies, two expenses and
  three keys for receipts (a replacement of a replacement); pages of two rows, three
  expenses, five half days.

Every safety property of the runs, apart from those of `Schema` (which has no bound), is
also proved for all values of the constants, so none of them rests on these bounds
(see Proofs).

Symmetry (senders, request threads, companies) is used in safety runs only.

### Fairness

A thread inside a send or a request continues until it ends or dies; a worker that is
up polls for ever; one that is a process is restarted by the platform; clocks advance.
Nobody owes the system a new batch, a settle decision, a report or a cancel.  In
`Queue` a worker may die in every batch; in `Delivery` crashes are bounded by
`MaxCrashes`.  Their `AutomaticSendingEnds` and `AllBatchesSettle` are about a worker
that is restarted, or about a thread of the web process that no exception ended.

In `Limiters` the clock is weakly fair, and so is the restart of a worker that is a
process (`supervised`).  Nothing is assumed of a thread that has ended:
`StandingBreachIsRepeated` says that a breach is told of again and again, or such a
thread is down for ever.  The service-level check is strongly fair: the worker polls
again and again, but a check may fail and take the worker with it, so the check that
succeeds is enabled repeatedly and not continuously; a database that refuses every alert
for ever is not considered.

Deadlock is checked in `Queue` and `Limiters`, which never stop; the
other modules may come to rest once their bounds are used up.

## Proofs

Seven modules of proofs and one of lemmas.  Every theorem below holds for every value of
the constants that satisfies the assumptions of the module it is about: any number of
threads, rows, runs, batches, messages and retries, not the instances of the runs.  An
invariant the runs check is seldom inductive; each module states the inductive one as a
conjunction of named parts, each with a comment, proves that every action preserves it,
and derives the property.  The parts were checked with TLC before they were proved.

Sums, files and sequences are handled without induction over data, which the provers
cannot instantiate: `Least` proves that what holds of 0 and of the next number whenever
it holds of one holds up to a bound (`HoldsUpTo`), from a least counterexample, and each
lemma about a recursive function or a sorted list names the set it applies that to.

### DistributionProofs

| Theorem | Property |
|---|---|
| `TypeCorrect` | TypeOK |
| `BalanceAlways` | PermitBalance |
| `AtMostOncePerRelease` | NoBlindResend |
| `SentIsGrounded` | SentHasGrounds |
| `SweepKeepsLimit` | SweepWithinLimit |
| `DeliveryImplementsPromise` | KeepsPromise |
| `QueueTypeCorrect` | QueueTypeOK |
| `OneWorkerAccounts` | StartsAreAccounted |

`NoBlindResend` does not say who may still send.  `PermitBalance` does:
`copies[d] + Permits(d) <= 1 + released[d]`, where `Permits(d)` counts the senders that
hold a claim of `d` their provider call has not used up (`Holding(d)`), plus one if the
row is claimable.  It needs `HonestReplies`: for a classifying sender a failure that is
not ambiguous was not an acceptance, so the claim it gives back is unused.  Each action
changes `Holding(d)` by at most one sender (`LeaveHolding`, `SameHolding`).
`SentHasGrounds` needs `OkIsAccepted` (an outcome of success still to be written was an
acceptance), `SweepWithinLimit` needs `RetryWithinLimit` (a retry is scheduled on an
untracked row only below the limit).  The refinement takes each action to a step of
`SendPermits` on one row or to a stutter; `SameRow` says that the other rows keep their
abstract state.

`QueueTypeCorrect` comes together with `EnqueuesForRuns`; that the batch
`claim_next_batch` takes is a queued one rests on `Least`.  `OneWorkerAccounts` is stated
**under the hypothesis `Workers = {w}`**, which is how the Procfile deploys the program.
Its invariant, `StartsPaid(w)`, says that a batch that may still be claimed has its next
start paid for, by its creation or by a counted reclaim, and that what the worker loaded
to reclaim still has the count it loaded.  With two workers the statement is false: a
batch that outlasts the stale window runs in both.

### SendingProofs

* `OneBatchAlways` (OneBatchPerNonce), `ClaimsResolvedAlways` (ClaimsAreResolved) from
  `RequestInv`: a summary names a batch (`SummariesNameBatches`); at most one request
  works under a nonce, and only while the nonce is claimed (`OneOwner`); a nonce has one
  batch at most besides those a failed request left behind (`lost`), none before its
  owner's enqueue commits, and while the owner reads it back, that one
  (`BatchesOfKeys`); whoever was told of a batch was told of the stored one
  (`AnswersAreStored`); a claim has an owner, a crash or a dated summary behind it
  (`ClaimsHaveOwners`).
* `LinkInHandOpensAlways`, `RetiredNeverOpensAlways` from `LinksInv`: a message carries a
  link that was committed before it (`CommittedBeforeSent`); a link has the version and
  key of the moment it was made (`LinksAreOfTheirTime`); a pulled link is revoked, or
  of an older version or key, unless `regressed` (`PulledIsShut`); unless
  `crossed`, the sender at work owns the row, every other code on the phone is of a
  failed message, and at most one stored link is not revoked (`OneAtWork`).
* `RenderedIsOnePart`: whatever the company is called and however long the link is, the
  text `render_payslip_sms` returns is GSM-7 and costs no more than one part.  What is
  picked from a text are characters of it (`PickIs`), a prefix costs no more than the
  text (`PrefixCosts`), two texts no more than both (`JoinedCosts`), and what is fitted
  no more than the budget (`FitIs`); `LastOf` and `Pick` rest on `Least`.
* `FinalFailureIsHeardAlways`, `PreviewIsWhatIsSentAlways`, `StillPageIsFinalAlways` from
  `OutreachInv`: a retry stands on a failed row with attempts left, or on the attempt it
  was scheduled for (`RowsAgree`); a batch names its channel and has only its run's
  payslips (`BatchesAgree`); a sweep is over rows of its run, at one of them at a time
  (`SweepsAgree`); and `FinalFailureIsHeard` itself.  What a page or a promise says of a
  payslip stands (`Stands`, `PageStands`, `PromiseStands`): untouched, it would be sent
  exactly if it was counted as reachable, until it is tried; with its contact edited it
  is still skipped on a named channel; with its delivery changed it still has no contact.
  `CategoryIsReach` is the lemma that the preview's categories and the send's rules
  agree, `SweepTells` and `CloseStep` are about the notices.  `StillPageIsFinal` needs the
  invariant for one thing: the row a sweep is at is of its run and is `sending`, which a
  page at rest does not show (`RestStays`, `RestBesides`).
* `LinksTypesAlways`, `OutreachTypesAlways` and, for the composition the run explores,
  `SendingTypesAlways` (TypeOK).  They need that `resolve_channel` always names a channel
  (`ResolvesToChannel`), that a page and a batch name theirs (`ChannelsAreNamed`), and
  the bounds of versions, keys and claims (`LinksBounded`).  `RunIsItsParts` shows that
  the composition behaves in each part as that part's specification says.

### PayrollRunsProofs

* `RunsTypeCorrect` (TypeOK), `NoUnsignedPayslipAlways` (NoUnsignedPayslip),
  `SentSurvivesAlways` (the action property SentSurvives).

`RunsInv`: a confirm in flight is of a draft (`ConfirmsADraft`); a run whose status allows
sending, that a distribute request has read, or that has a queued batch, was approved or
closed at some time (`SignedBeforeSent`), which survives a rejection that comes later;
what was sent was sent by a batch whose row stays (`SentHasBatch`), so the foreign key
refuses a purge whose check was made before the send.

### TaxYearProofs

* `YearTypesAlways` (TypeOK), `PayeIsMarginalAlways`, `EnginesAgreeAlways`,
  `CapAmongKnownAlways`.

`BandsAreMarginal` is about the arithmetic alone: for any accepted rows, in any order, and
any income, `compute_paye` on the bands `bands_from_rows` stores is within a pesewa of
the tax band by band.  It rests on how far a rounding is from its argument
(`MoneyIsNear`, `RoundEvenIsNear`), on the tax growing with the income (`TaxGrows`), and on
sums that grow or differ by one term (`TotalsGrow`, `TotalsDiffer`).  `PayeIsMarginal`
follows, since a version's bands are those of the rows typed for it
(`VersionsFromOffers`) and a new version replaces none (`VersionsInOrder`).

`EnginesAgreeAlways` rests on what each engine computes, written out once (`SalariedIs`,
`HourlyIs`, `RawIs`), and on what it computes from what the others do not know
(`SheetOnlyIs`, `HoursOnlyIs`).  In whole pesewas rounding changes nothing (`RoundedIs`,
`MoneyOfWhole`), and the figures are equal (`RawIsSheet`, `HourlyIsHours`).  For
finer inputs a sum rounded at the end is near the sum of the rounded terms, by half a
pesewa for each and one half more (`SumsAreNear`, `SumIsNear`): four terms in the raw
engine's gross and deductions, one in the hourly engine's.

`CapAmongKnown` is the one that takes an argument.  Of any runs one was calculated last,
and none of the others was calculated from it (`SeenIsOrdered`); a run another was
calculated from can no longer be edited (`SeenStands`); and a sound run has used no more
than half a pesewa beyond what the runs it was calculated from had left of the cap
(`SoundRuns`).  Take, of the runs in question, those that used something, and of these
the one calculated last: it was calculated from all the others, and was left
something, so that their use and its own stay within its cap and half a pesewa.  The
runs that used nothing or less do not raise the sum.

### LimiterProofs

* `GuessesAreBoundedAlways`, `RatesAreKeptAlways`.

`LoginInv`: the entry of an address, or its absence, vouches for the failures its
subscriber made within the window (`FailuresAreAccounted`, `Vouches`).  Without an entry
they are fewer than the limit; an open entry accounts for all but one round short of a
lock, whose failures are older than the entry (`TwoRounds`); a running lock has them
within the bound together with the threads past the check, all of them before the lock;
when the lock ends, none is left.  `RequestsInv`: what an address was counted is
what its subscriber was served within the window, however the table was cleared
(`CountedIsServed`).  `SlotsInv`: each slot lies an interval after those before it, and
the next free one after all of them.

### OnboardingProofs

* `LinkWorksOnceAlways`, `InviteeIsNotShutOutAlways`, `DecidedOnceAlways`,
  `TenantSeesItsOwnAlways`.

`OnboardingInv` (with TypeOK): a handler that has read and not yet committed holds an
open request, no licence, a company, or a pending invitation (`ReadsHold`); a used hash
is an old one, and a placeholder on its way to the row is unused and nobody else's
(`PlaceholdersAreFresh`). `TenantSeesItsOwn` is about the operators that decide what a
page shows and needs no invariant.

### BooksProofs

* `RosterTypesAlways` (RosterTypeOK), `OneRecordPerStaffIdAlways`,
  `HistoryKeepsItsWorkerAlways`, `PastReliefStandsAlways`, `ZeroingWasShownAlways` (the last
  two action properties) from `RosterInv`: staff ids are apart unless requests crossed or
  a seed repeated one, a payslip's worker is there unless SQLite reused the id after a
  crossing, PostgreSQL's rates have their worker (`DataOK`); a request holds rows that
  were there and writes what was checked against them (`RequestOK`); a page says what its
  figures come to (`PageOK`).  That a file keeps `DataOK` is shown row by row, with the
  rows written so far as the state.
* `RowsMatchFilesAlways`, `ServedIsOwnFileAlways`, `LedgerTypesAlways` (LedgerTypeOK) from
  `LedgerInv`: no two rows or requests hold one key (`KeysHaveOneOwner`); a request on a
  new expense is alone with it, and an edit's expense is still its company's
  (`ExpensesKeepTheirCompany`); the object behind a row, or
  behind a request that will write the row, has the company, expense and type recorded
  (`FilesAreAsRecorded`); what a request stored is there until it ends (`StoredIsThere`);
  what it replaced is gone or counted as left over (`ReplacedIsGone`).
* `PagedExactlyAlways`: `TrailInv` says that ids and times were given out and that no two
  expenses were entered at one instant.  The rest is about orders: the first rows of
  either table suffice for the first rows of the merged list (`EnoughIsFetched`), if the
  table's order and the list's agree, so that a page is that part of the whole list.

### Assumptions

Limits are naturals and functions given as constants are typed, in every module.
Beyond that:

* `Delivery`: finitely many senders; `"none"` is no row.
* `SendRequest`: the mark of a batch made by the schedule route, which has no nonce, is
  no nonce.
* `PayslipLinks`: names, brand and link are texts of the five kinds of character.
* `PayrollRuns`: `"none"`, which stands for the month of a run that does not exist, is no
  month.
* `TaxYear`: sheets, edits, evidence and offered rows have the columns of their tables;
  amounts are integers of any sign, months run from 1 to 12.
* `Limiters`: finitely many threads; all addresses of one subscriber have one key, which
  is what `rate_limit_key` is for; a lock-out lasts at least a window (15 minutes each in
  `login_throttle.py`).
* `Onboarding`: a row that names a company and a run names the run's company (`audit.py`
  and the batches take the company from the run), and both are companies.
* `Roster`: the engine is SQLite or PostgreSQL; files are sequences of rows with a raw
  staff id; the worker the company starts with has a normal id and no evidence.
* `AuditPages`: a page has at least one row.

Two assumptions are in actions, not in an ASSUME.  `Answers` of `Delivery` takes the word
of `sasusync.py` for what the provider's error statuses mean.  `RecordAudit` of
`AuditPages` lets no two audit rows share an instant: `created_at` is taken in
microseconds, and the ORDER BY has no second key.

### What the proofs corrected

* In `Outreach`, closing the batch of one run dropped the payslips another run's operator
  had touched meanwhile, so that a promise could seem broken between two runs; with one
  run TLC could not see it.  Two definitions there had CASE arms with overlapping guards,
  which TLC reads in order and the logic does not; they are conditionals now.
* `CapAmongKnown` allowed a pesewa for each run.  Its proof needs half a pesewa in all,
  and fails for a run that used less than nothing: only then did the sheets of the run
  get a negative bonus, with which TLC shows that the cap is exceeded without the
  condition in `sound`.
* `PagedExactly` now says that the pages together show every row, once, and newest first
  across pages, for each kind of row.
* The three engines were compared on whole pesewas only, on which they cannot round
  differently.  On finer inputs they do; the bounds now stated are what the proof gives.
* With sweeps in steps, `StillPageIsFinal` is false of a page that shows the attempt, and
  of a row somebody decided while the attempt was out; with delivery reports, and deaths
  before a notice, `FinalFailureIsHeard` is false without `silent`; with an enqueue that
  reads its batch back, `OneBatchPerNonce` is false without `lost`.  Each is listed below.
* The texts of the SMS had no mark that `fit` strips at the end besides the space, and
  the history of a sent text did not ask whether it is GSM-7.

### Only model-checked

* Liveness (`AutomaticSendingEnds`, `AllBatchesSettle`, `StandingBreachIsRepeated`):
  fairness is out of the prover's reach.
* `ChainApplies`, `RevisionIsSchema`, `OpenTablesAreKnown`: the database is a fold of 41
  concrete revisions, with no parameter to generalise over; TLC explores all of it, so the
  run is already complete.
* `OneWorkerAccounts` is proved for one worker only, where the property holds.

## Known divergences without a run

The models also reach these, each against a comment, docstring or message in the code.

Sending:

* a cancel overwrites the `sent` of a concurrent sweep (`queue.py:293`; `:266` says
  "Already-`sent` deliveries are never touched"), and a batch claimed between a cancel's
  query and its commit is cancelled while running (`queue.py:264`);
* a request whose query after the commit of its batch raises gives its nonce free, and a
  repeat after that batch has finished queues another (`idempotency.py:15`: "at most
  once per key");
* a payslip that a provider reports as failed after it was sent, or whose worker dies
  between the row's commit and the notice's, fails without a notice (`notify.py` notices
  batches and exhausted retries only);
* a report about an earlier message fails the row the present one was sent from, and the
  next send revokes the present code (`links.py`: "stays valid until someone settles it");
* an exception outside a batch ends the worker thread of the web process, and nothing
  sends, sweeps or checks until that process is started again (`app/__init__.py:1235`);
* a cancelled delivery is claimed by the next send (`models.py:723`: "Terminal");
* a batch that outlasts the stale window runs in two workers (`queue.py:418` against
  `:9-11`);
* two enqueues leave two unfinished batches (`queue.py:155`: "only ever has one"), and a
  reschedule that commits after the activation leaves a batch running before its time
  (`models.py:845`);
* a send that meets a scheduled batch leaves its nonce claimed for ever, because its
  summary holds a datetime (`idempotency.py:46`);
* only the newest row of a payslip keeps the status page live (`status.py:95-97`: a
  pending automatic retry "keeps the page live even after the batch itself reached a
  terminal state, so the viewer watches recovery happen"), and not while that retry is
  being sent: a page loaded then stops polling at `sending`.  A scheduled batch does not
  keep it live either, nor does an attempt whose row was decided by recovery or an operator;
* a worker whose contact was entered, or whose delivery failed, after the confirm page
  was made is sent a payslip the page did not count (`confirm.py`: "the preview and the
  send cannot disagree about a worker");
* two senders whose claim and outcome cross can schedule a retry past the limit, when one
  counts an attempt between the other's read of `attempts` and its commit
  (`service.py:105`); this one is read off the code, `Delivery` does not reach it;
* a stale-claim sweep takes a row from a sender at work, and the next sender revokes the
  code the first one has just sent (`links.py`: "stays valid until someone settles it");
* a revocation of all links of a payslip that is overtaken by two others writes an old
  version back (`tokens.py:121-130`).

Runs and figures:

* two confirms in flight create two runs of one month (`client/__init__.py:466`:
  "idempotent");
* a run rejected after the enqueue is sent (`queue.py:465` against
  `permissions.py:292`);
* a run with a batch and no sent payslip cannot be deleted (`payroll.py:2045` against
  `:2002`);
* a risk check that read `held` commits Held after a release recorded `released`
  (`risk.py:349`);
* the approve route approves a run without workers (`permissions.py:210`), and
  mark_paid and export process a run of any status (`permissions.py:226`);
* an edit or calculation that loaded an open run commits after its approval
  (`permissions.py:184`), and a client's replacement purges a run that was processed
  after its check (`client/__init__.py:336`);
* inputs finer than a pesewa give figures that differ from engine to engine
  (`README.md:61-62` of the repository: "identical inputs always produce identical
  figures"); in whole pesewas they agree;
* two open runs of one year that are calculated before either is closed each get the
  whole concession (`salaried.py`: "the annual cap is enforced once across the year");
* when the verification at confirm raises, the new figures stay, though the message says
  "Uploaded figures were kept" (`payroll.py:1034`);
* an imported sheet may hold a negative bonus, which the edit form ignores; once that run
  is closed, later runs get more than the cap (`payroll_calculations/__init__.py:94-101`,
  against the same docstring);
* the raw engine's `apply_rates` ignores lines of category bonus.

Roster and books:

* no constraint keeps (company, staff id) apart: crossing handlers, or a seed that names
  a new worker twice, leave two records;
* a payroll upload overwrites an e-mail (`payroll.py:1273` against `employees.py:3-5`)
  and writes any text into `Employee.status`;
* the confirmation of a pay-type change is not bound to the figures it was shown for, and
  does not ask when an hourly worker without a flat basic becomes salaried;
* on PostgreSQL, deleting a worker with rates raises, though only payroll history is said
  to block it;
* a replaced or detached receipt whose commit fails leaves a row without its file
  (`receipts.py:187-188`: "orphaned rather than the row dangling"), and a detach that
  crosses a replacement reports a removal that did not happen;
* expenses incurred on one day and entered on different days, against the order of their
  times of day, can appear on two audit pages or on none (`audit.py`: "paged exactly").

Onboarding and schema:

* a resend that commits over an acceptance replaces the chosen password;
* a decline and an approval that overlap are both recorded, and two overlapping issues
  sign two licences;
* the downgrade of `f969702561b6` recreates its tables in an order that PostgreSQL
  refuses; that of `9d2026c1020` refuses always.

## Plan

Done: Delivery with its abstract specification, Queue, SendRequest, Outreach,
PayslipLinks, Limiters, PayrollRuns, Statutory and TaxYear, Roster, Expenses,
AuditPages, Onboarding, Revisions and Schema; the theorems above.  Every safety property
of the runs is a theorem, except those of `Schema`.  Liveness and `Schema` stay with TLC.

When the code changes: a new handler of a modelled table becomes a Loads and a Commits
action, its commit a case in the step lemma of the invariant; a new migration an entry
of `Revisions`.

## Not modelled

* Spreadsheet reading and the raw engine's workbook detection, mapping and validation:
  functions from a workbook's cells to rows, with no state; a model would repeat their
  tables of headers.
* Dashboards, analytics and the other screens: read-only.
* Payslip documents, exports and message texts other than the SMS: layout.
* Application factory, configuration, demo data.
* HTTP and SMTP dialogues, signatures and password hashes: external; their outcomes are
  choices of the models.
* A migration killed half-way: on SQLite the statements before the first INSERT or UPDATE of
  a revision stay, on PostgreSQL nothing does.
* Heartbeats of the worker, notification wording, sessions and profile pages.
* A composition of `Queue` and `Delivery`: `Delivery` already lets any number of senders
  run for a batch or a sweep on the same rows, which is what a batch executed twice
  amounts to.
