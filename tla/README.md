# Diamond rental backend: a verification project

TLA+ models of the backend in `APP/backend`: who gets which rental vehicle,
whose money counts and how a rental is settled, and the services behind the
counter. TLC checks them on small instances, TLAPS proves most of their safety
for instances of any size. File paths below are relative to
`src/APP/backend/src/modules/` unless they say otherwise; `PROJECT.json` maps
every definition to the lines it stands for.

## 1. Inventory

The backend is a Node process (Fastify, Prisma) on PostgreSQL; several may run.
It serves requests concurrently and runs background cycles on a timer
(`worker/background-runner.ts`). Every transaction is READ COMMITTED
(`lib/db/transaction.ts`); some handlers also take transaction-scoped advisory
locks (`lib/db/advisory-lock.ts`). Stripe, the GPS providers and WhatsApp are
called outside transactions; Stripe and WhatsApp also call back by webhooks
that may be late, repeated or reordered.

| Component | State | Operations | What makes it correct | Here |
|---|---|---|---|---|
| Rental contracts (`contracts/contracts.service.ts`, `vehicle-rental-guard.ts`, `contracts-links.ts`) | contract status, acceptance, car-out and car-in rows, links, outbox dedupe keys, vehicle status | offer, link, form, review, accept, sign, pay, car-out, return, car-in | one reservation and one holder per vehicle; the lifecycle only moves forward; a confirmed payment is honoured | `RentalContracts` |
| Request deletion (`pending-rental-request-delete.service.ts`) | the same rows | delete an unpaid request | never deletes what was paid | `RentalContracts` |
| Payments (`contracts/payment/contract-payment.service.ts`, `checkout-attempt.service.ts`) | payment and attempt rows, Stripe sessions | start, supersede, abandon, poll, confirm | nothing is confirmed that was not collected; what was collected is confirmed; one session to pay | `RentalCheckout` |
| Webhook inbox (`stripe-webhook-inbox.service.ts`, `stripe-webhook-worker.service.ts`) | inbox events | insert, claim, apply, retry | every accepted event is handled | `RentalCheckout` |
| Workshop (`maintenance/`) | orders, vehicle status | create, start, ready, complete, cancel | one active order per vehicle; no rented vehicle in the workshop | `Workshop` |
| Vehicle administration (`vehicles/vehicles.service.ts`) | vehicle status, isActive | update, activate, deactivate | does not disturb a reservation | `FleetAdmin` |
| Transactions and advisory locks (`lib/db/`) | transactions in flight | begin, commit, roll back | locks exclude | `FleetState` |
| Renewal, reconciliation and close (`contracts-reconciliation.ts`, `contracts-final-settlement.ts`, renewal parts of the contract and payment services) | renewals, lines, receivables, their payments | offer, approve, register, edit, finalise, pay by card or cash, close | no item is paid twice, contested renewals excepted; the reconciliation is collected once; a closed contract owes no renewal; collected money closes it | `ContractSettlement` |
| Road liabilities (`road-liabilities/`) | customer charge, off-session and link payments | charge a saved card, send a link, take cash, charge to the contract | collected once, and settled by what was collected | `DirectCollection` |
| Invoices (`invoices/`), outbox consumers, business notifications, idempotency keys (`lib/events/outbox.ts`, `notification-delivery/`, `lib/db/idempotency.ts`) | outbox rows, invoices, number sequence, keys | claim, compose, number, send, retry, unlock | a processed event of the invoice alone is shown; numbers without gaps or repeats; sent once | `InvoiceOutbox` |
| Complaints (`complaints/`) | lifecycle, SLA cycles, escalation | act, resolve, close, reopen, escalate, evaluate deadlines | one clock runs; first responses agree; an overdue complaint is found | `ComplaintCase` |
| Authentication and sessions (`auth/`) | session rows, one per refresh token | sign in, refresh, log out, revoke | one live token per sign-in, exchanged once | `SessionRotation` |
| GPS synchronisation (`gps/gps-provider-sync.*`) | account lease | acquire, fetch, ingest, release | one owner | `GpsSync` |
| WhatsApp messaging (`whatsapp/`) | message rows, stored events | send, complete, reconcile, status and echo webhooks | a reported status is shown | `MessageDelivery` |
| Call center (`call-center/`) | queue items, calls, callbacks | claim, reassign, release, start, complete, cancel | one call per item, by an agent who has it | `CallQueue` |
| TARS one-time passwords (`integrations/tars/`) | challenge rows | request, verify | attempts are counted | not modelled, see section 6 |
| Finance, reports, dashboard, archive | none of their own, but for manual expenses | aggregate | – | not modelled: read-only |
| Users, roles, customers, settings, templates, files, imports, document engine, vision AI, frontend | their own rows | – | – | not modelled: single-row administration, parsing, pure I/O, or a client |

Contracts and payments interact through `applyDomainSettlement`, which turns a
confirmed payment into a PAID contract under the vehicle's rental lock, or
settles a renewal or the reconciliation. Contracts, workshop and administrators
interact through the vehicle row alone: rental transactions lock in the
namespace `vehicle_rental`, workshop transactions in `vehicle_maintenance`, and
administrators not at all. A road liability is either collected directly or
becomes a line of the reconciliation or a receivable of a closed contract. What
the rental flow has to tell (a confirmed payment, a renewal, a settlement) it
writes to the outbox, where the invoice and notification consumers find it.

The hard behaviour is in what lies between a read and the write that relies on
it: most handlers read their row without a lock and update it by id. Which of
these windows are harmless, and why, is what the models answer.
`PROJECT.json` lists the hazards at their lines.

## 2. Modules

```
FleetState ── rows, transactions, locks, vehicle guard
 ├─ RentalContracts ┐
 ├─ Workshop        ├─ RentalFleet ─ properties, refinement of VehicleReservation
 └─ FleetAdmin      ┘     ├─ MCRentalFleet      (TLC)
                          └─ RentalFleetTypes ─ RentalFleetProofs (TLAPS)
VehicleReservation ── what the fleet promises about a vehicle

RentalCheckout ── payments, attempts, sessions, inbox, worker
 └─ MCRentalCheckout (TLC), RentalCheckoutProofs (TLAPS)

ContractSettlement ── renewals, reconciliation, close; refines SettledOnce
 └─ MCContractSettlement (TLC), ContractSettlementProofs (TLAPS)

DirectCollection ┐
InvoiceOutbox    ┴─ BillingProofs ─────────┐
SessionRotation  ┐                         │
GpsSync          ┴─ SessionRotationProofs ─┼─ BackOfficeProofs (TLAPS)
ComplaintCase    ┐                         │
MessageDelivery  │                         │
CallQueue        ┴─ CustomerCareProofs ────┘
all seven ── BackOffice ─ MCBackOffice (TLC), BackOfficeProofs
```

**FleetState.** The rows as functions and sets. `tx[t]` holds what the
transaction in slot `t` has read. A handler whose reads are covered by a lock
against all writers, or that has no reads, is one action; the others are two,
`...Read` and `...Write`, and any step of anybody may come in between. Locks
are no variables: an advisory lock is held exactly while a transaction that
took it is in flight (`VehicleRentalLocked`, `VehicleMaintenanceLocked`), and a
payment row that a confirmation has updated is locked while that confirmation
is in flight. A unique key (car-out, car-in, acceptance, outbox dedupe key) is a
guard of the write. `Abort` rolls a transaction back at any time, which covers
failed checks, time-outs, deadlock victims and a process that dies. Writing a
dedupe key a second time disables the write: `writeOutboxEvent` swallows the
unique violation, but PostgreSQL has aborted the transaction by then. The same
conventions hold in the other modules.

**RentalContracts.** One action, or one pair, per handler from `createOffer` to
the car-in, and deletion. `pay` is the contract's newest RENTAL payment; its
rows are in `RentalCheckout`. `confirmWrite` is `applyDomainSettlement` for card
payments, `signCashWrite` the cash settlement inside the signing transaction.
Some handlers of several statements are single actions because nothing that
matters can slip in: the return confirmations hold the contract's lifecycle
lock; a stale `submitOfficialReview` aborts on the `form_completed` key; a link
that is issued too late is harmless, as each use of it checks the status again.
Deletion makes its checks before it asks for the vehicle lock, so its write
waits for the lock (`deleteWrite`) and may find the contract paid by then; the
ledger entry of the confirmed payment then makes it fail.

**Workshop, FleetAdmin.** The maintenance handlers, with `start` in three steps
because it reads its order before the lock; and the vehicle handlers, which
check and write in separate statements outside any transaction.

**RentalCheckout.** The card payment of one signed request. Each HTTP request
and the worker is an actor with a `job`; a Stripe call, a read and a write are
steps of their own. `session` and `stored` are Stripe's side. `event`, `tries`
and `batch` are the inbox; `crash` loses jobs and the batch. Whether the payment
had a reference when the worker read it is part of the job (`binds`): if it had
none, an expired or failed event stores its own, over whatever was stored in
between (`bindEndedPayment`, `markPaymentTerminal`). The rest of the
fleet appears as `vehicleTaken`, `deletePendingRentalRequest` and the settled
contract.

**VehicleReservation.** The abstract specification: a vehicle is reserved for
at most one contract, handed only to it, and released only when that hirer
brings it back. `RentalFleet` maps `reserved` to the blocking contracts of a
vehicle and `held` to those with a car-out and no car-in.

**ContractSettlement.** One contract from ACTIVE to CLOSED. An amount is the set
of items it adds up: renewals, manual lines, road liabilities. Editing and
charging hold the reconcile lock, which no settlement takes, so they are read
and write (`editing`, `charging`); the recalculated total is the set of lines,
because a line and the total commit together. A settlement reads the renewals it
includes without a lock and links them by id later (`linking` for a card,
`counting` and `counted` for cash), while the desk's transaction for one of them
(`desk`) may still be open. The history variable `contested` remembers the
renewals a settlement read while the desk was taking cash for them. Cash is a
preparation that calls Stripe (`neutralized`: sessions made unpayable) and a
transaction that checks again. `desk` and `office` are the transactions of the
renewal desk. How a session is opened is `RentalCheckout`'s subject; here a
payment has one, which may be stored after the payment was cancelled
(`storeCheckoutSession`). Whether the vehicle is free for an extension is
`RentalFleet`'s.

**SettledOnce.** The abstract account: a renewal extends a running rental only,
an item is paid by one payment, a contested renewal by two at most, and a
contract closes with every priced renewal paid. `phase`, `extended` and `payers`
are mapped from the contract's status, the applied renewals and the confirmed
payments of each item.

**DirectCollection.** One liability and its payments. Starts hold the locks of
the liability and are one action each; the call to Stripe, its answer and the
webhooks come later, in any order, and the answer may be lost (`loseAnswer`: the
SDK throws on a declined card too).

**InvoiceOutbox.** The two consumers on one table, with claim, five-minute lock,
retry, crash and a worker slower than its lock. What an event is about is fixed
by `Histories`. An invoice shows a number of its contract's changes; the
advisory locks of the invoice of a contract and the optimistic number update are
guards. `reserved` is the idempotency key, written before the sending. The
notifier reserves nothing where it has nothing to deliver (a payment of a
renewal, or of a reconciliation without a liability, or a row that is gone) or
where the reservation itself fails, and the event is processed all the same
(`nothingToDeliver`).

**ComplaintCase.** The operations of the staff hold the complaint's lock and
check its revision; `addAction` reads before the lock; the evaluation of the
deadlines writes statement by statement, without a lock, and may crash.

**SessionRotation, GpsSync.** A refresh reads a session, claims it with a
conditional update, and creates its successor, without a transaction; the
lease of a GPS account is taken and released by conditional updates and runs
out whether or not its owner is at work. The end of a cycle removes the
in-flight mark and releases the lease in one step, though the code awaits the
second: a timer starts no cycle before its last one has returned, and the two
timers of a process serve different providers, so nobody looks at the mark in
between.

**MessageDelivery.** The row of a message, the provider's echo and status
webhooks, and the send request that stores the provider's id and then applies
the statuses that came before it, one by one, in a transaction whose writes the
others see when it commits. A webhook writes to the row it has read, whatever
id that row has by then; `renamed` remembers the messages that lost their row
to the echo of another.

**CallQueue.** One queue item. `claimNext` locks its row, the other handlers its
advisory lock, `completeCall` reads before it takes that lock and
`cancelCallback` takes none. The terminal statuses are one, CLOSED.

**BackOffice.** These seven services share no row of the modelled state, so a
behaviour of all of them is, seen from one, a behaviour of that one with
stutters. `focus` picks the service that is followed and the others rest:
the states of the composition are the sum and not the product of the parts.

Definitions named `faulty...`, `Faulty...` and `endlessClaimBatch` are not part
of any specification: each is a definition with a plausible mistake, and shows
that a property notices it.

### Assumptions about the surroundings

* A hirer with one page open sends one request at a time. Contracts in
  `SharedLinks` have their rental link open in several pages and send requests
  concurrently. Likewise an employee who marks an order ready waits for the
  answer, except for orders in `SharedOrders`. The passing runs and the proofs
  take both sets empty, two findings show what happens when they are not.
  No such assumption is made outside the fleet.
* Payment events have one worker process; the outbox and the GPS
  synchronisation have several. Database calls do not fail for reasons of
  their own (a failing transaction is modelled, an unreachable database not).
* Stripe answers the same session to the same idempotency key, reports a
  session or intent paid only when it collected the money, and delivers an
  event until it is accepted.
* `CANCELLED` stands for `FAILED` too in `RentalContracts`, `RentalCheckout` and
  `ContractSettlement`; nothing in the code treats them differently there.
* Requests of the development-only payment simulation are left out.

## 3. Runs

| Run | Instance | Shows |
|---|---|---|
| `fleet` (58,508 states) | 2 contracts (one card, one cash) on 1 vehicle, 2 transactions in flight, administrators | no double reservation, payment or hand-over; custody agrees with the lifecycle; confirmed payments are honoured; reads stay valid until their write; the lifecycle moves forward; `VehicleReservation` is implemented |
| `workshop` (174,555 states) | 1 contract, 2 orders on 1 vehicle, 2 transactions | one active order per vehicle |
| `checkout` (45,703 states) | 1 request at a time, 2 payments, 2 attempts, 2 tries, with liveness | nothing settles uncollected; collected money reserves the vehicle in the end, unless the session's reference was overwritten (`Overwritten`, section 5); every event is handled |
| `checkout_race` (about 1.2 million states) | 2 concurrent requests, 2 consents, 1 payment, 2 attempts, 1 crash | supersession: a READY attempt is the one the payment refers to, with the same exception |
| `settlement` (323,642 states) | 1 priced and 1 free renewal, 1 manual line, 1 liability, 2 payments, with liveness | no item but a contested renewal is paid twice, the reconciliation is collected once, a closed contract owes no renewal, `SettledOnce` is implemented, and a collected reconciliation closes the contract |
| `services` (315,344 states) | each service of `BackOffice`, bounds below, with liveness | a liability is collected once, by what settles it, and in the end; invoice numbers and revisions; processed events of the invoice are shown and notifications sent once; invoices catch up; one clock per complaint, first responses, overdue complaints; one live token; one lease owner; shown statuses; one call per item |
| `shared_link`, `workshop_race`, `workshop_ready`, `overwritten`, `two_sessions`, `inbox_crash` | – | the disagreements of section 5 |

**Why the bounds are enough.** *Fleet:* all rows of interest are per vehicle, so
one vehicle with two competitors is the contended case; the conflicts are
between pairs of transactions, so two slots show each of them, and the proofs
lift the fleet's safety to any number. *Checkout:* two payments and two attempts
are the least that give a superseded attempt, a second session and a late answer
for the first. `MaxTries` 2 makes a retry and its exhaustion both happen (the
code has `MAX_WEBHOOK_ATTEMPTS`). *Settlement:* two payments are a card and the
cash that competes with it, or a renewal and the final settlement that could
include it again. *Services:* a liability has 3 payments (a failed one, a link
and its rival) and 2 link requests; the outbox 2 workers, 2 events, of one
contract or of two that compete for a number, 2 attempts and 1 fault (a crash,
or a worker slower than its lock); a complaint is reopened once (`MaxCycles` 2)
and escalated once; 3 sessions are a sign-in, a rotation and a second rotation
or a second sign-in, with 2 concurrent refreshes; 2 processes compete for a
lease; 2 messages and 2 concurrent webhooks let an echo be taken for the wrong
one or rename a row under a status webhook, with one status per message (with
two, 4.3 million states, the property holds as well); 2 agents, 2 requests, 2
calls and 1 callback for a queue item (with 2 callbacks: 80,450 states, also
hold). The bounds are constants because nothing in the code bounds how often
these things happen.

**Deadlock** checking is off: a fleet whose contracts are all in REVIEW or
deleted, a settled checkout or contract, and a service whose bounds are used up
may rest for ever.

**Symmetry** over transaction slots and requests is used in runs without
liveness only.

**Fairness.** Hirers, customers, staff and requests are assumed nothing of: they
may stop anywhere. What repeats is assumed:

* `RentalCheckout`: weak fairness of `WorkerStep` and of `insertEvent` for each
  session: the scheduler repeats the cycle for ever, a cycle never waits for a
  request, and Stripe redelivers until it gets its 200. The `checkout` run has
  no crash; with one, `EventsAreHandled` fails, which is the finding
  `inbox_crash`.
* `ContractSettlement`: weak fairness of `confirmReconciliationRead` and
  `confirmReconciliationWrite`, which the same worker does, with retries.
* `DirectCollection`: weak fairness of `Webhook(p)`, for the same reason.
* `InvoiceOutbox`: weak fairness of each worker's step and of `unlockStale`, both
  started by the timer of every process.
* `ComplaintCase`: weak fairness of the evaluation; strong fairness of its look
  at each cycle and of recording a breach, because one crash or one reopening
  between two ticks must not starve a cycle that is overdue again and again.
* The other modules state safety only.

## 4. Proofs

All proofs hold for every value of the constants; the assumptions are the typing
ones stated by `ASSUME` beside the constants, and for the fleet those of
section 2 about shared links and orders.

**The fleet.** `RentalFleetTypes` proves `TypeOK`. `RentalFleetProofs` proves,
for `SharedLinks = {}`, each of the fleet's safety properties and the
refinement. None of the properties is inductive alone: a contract is kept PAID
only because no form, acceptance or signature that read it earlier is still to
write. The inductive invariant is

    Core == TypeOK /\ TransactionsExclude /\ HandlersHold
              /\ OneReservationPerVehicle /\ CustodyMatchesLifecycle
              /\ PaymentsFollowContract /\ ConfirmedPaymentIsHonoured
    IInv == Core /\ Deletions

and the argument is: `TransactionsExclude` says which transactions cannot be in
flight together (same rental lock, same hirer, same payment). It restates the
guards of the locks, so it is a step of the proof and no property of a run.
`HandlersHold`, the part of `ReadsStillHold` that is not about deletion, says
what each in-flight transaction may still rely on, which follows from whom it
excludes and from the lifecycle; the write steps then preserve the relations
between rows. `Deletions` says why a deletion, which holds no lock when it
checks, never removes what was paid: while one is in flight no checkout of the
contract is open or about to be cancelled, so a payment confirmed meanwhile
stays confirmed and stops it. `QuietStep`, `BeginStep` and `WriteReads` prove
the parts that are alike for all handlers, the `...Steps` lemmas go through them
one by one. `ReadsStillHold`, `OneHolderPerVehicle` and
`OnePaidCustomerPerVehicle` follow from `IInv`.
For `LifecycleMovesForward` and `ImplementsReservation`, `StepsAreMoves` shows
that every step changes at most one contract, in one of five ways (`Move`), and
each way is a legal move and a step or a stutter of `VehicleReservation`.

Its last part proves one active order per vehicle for `SharedOrders = {}`, and
without the assumption about links: whoever is about to put an order in service
holds the vehicle's maintenance lock and has seen no other active order
(`WorkshopInv`), so a cancelled order that is revived by `startWrite` still has
no rival; an order being marked ready is worked on by nobody else
(`MarkingIsAlone`).

**The checkout.** `RentalCheckoutProofs` proves the type invariant, that nothing
settles uncollected, and that a READY attempt is the one its payment refers to,
unless the event of an expired session of the same payment was stored over the
reference (`Overwritten`; an expired session stays expired).
`CheckoutInvariant` adds what each job knows (`JobHolds`: a job that applies a
payment has seen its session paid, and a paid session never becomes anything
else), that payments, attempts and references agree (`RowsAgree`), and what the
worker's batch holds (`ClaimsHold`).

**The settlement.** `ContractSettlementProofs` proves the run's invariants and
that `ContractSettlement` implements `SettledOnce`. `SettlementInvariant` says
that a payment has the items of its purpose (`Shaped`), that at most one card
payment collects the reconciliation and none beside cash (`Collecting`, from
the checks the cash transaction repeats), that an obligation has one confirmed
payment (`OneConfirmed`), that what a settlement has read of a renewal is still
true when it links it or the renewal is contested (`Reading`: the desk takes no
more cash after the return, so only a transaction already open can interfere),
that a liability is settled by what charged it
(`Charged`), and that a renewal's payment includes it (`Paid`). For the
refinement, `OutlineStep` sorts the steps into those that extend, collect or
close and those that change nothing of the account; that a contested renewal
is collected a second time but never a third follows from the two purposes its
payments can have.

**Billing.** `BillingProofs` proves that a liability is collected once and
settled by what was collected: of its payments one at a time is open or owned
by an off-session request, and Stripe's objects move one way
(`CollectionInvariant`). Of the outbox it proves the four safety invariants
(`ProcessedIsShown` for the events only the invoice is about),
for any contracts, workers, events, attempts and faults. None of them is
inductive alone: whether a revision shows more than the one before it, or a
processed event is shown, is decided by what a worker composed several steps
earlier, and it may have lost its row to another worker since. So
`OutboxInvariant` adds what each job still knows (`JobAgrees`: the content it
composed covers its event and is at least that of every invoice of the
contract, and a number it read is at most the next one), what each row knows
(`EventAgrees`), that one worker composes for a contract and one sends for an
event (`WorkersExclude`, from the advisory lock and the key), and that a contract
with invoices has a current one (`InvoicesAgree`). An issue then adds one
invoice, the next revision (`OneNextRevision`), and only if the number read is
still the next one (`IssuesNext`): the optimistic update of the sequence and the
unique number do the rest.

**Customer care.** `CustomerCareProofs` proves the safety of complaints,
messages and calls.

* A complaint: `CaseInvariant` is the two properties with the types and the
  bound of the level about to be written. It is inductive because a staff
  operation writes to the current cycle only (`StaffKeeps`, `CurrentRuns`) and
  what the evaluation writes without the lock is neither of the two properties'
  business.
* Messages: once its send has stored its id, the row of a message is found by
  it, so every status reported is shown, or a webhook will write it, or the
  reconciliation has it among what it read or wrote (`DeliveryInvariant`). The
  delicate case is a webhook that read *another* row, which had the id of the
  message before: it writes there, so the reconciliation must show something
  by itself, and does because the status was stored before the webhook read.
  An earlier form of the property did not hold with two webhooks at once: the
  attempt to prove it led to the behaviour that `renamed` now excepts (section 5).
* Calls: one request holds the item's lock, and one that starts a call saw none
  open and an agent, which only lock holders and `claimNext`, who sets one,
  change. `CallbackInvariant` adds that each request about to cancel a callback
  has one of its kind to cancel, which types the counters.

**Sessions and leases.** `SessionRotationProofs` proves one live token per
sign-in, one successor per token, and one owner of a lease: the request that
claimed a session is the only one that may extend its family, no row of which
is live meanwhile.

**The office.** `BackOfficeProofs` proves that a behaviour of `BackOffice` is a
behaviour of each service (`OfficeImplementsServices`): a step of the office is
one of the followed service and leaves the variables of the others alone
(`StepsAreOfServices`), and the fairness it states is theirs. What is proved of
the services therefore holds of the composition (`OfficeIsTyped`,
`OfficeIsSafe`), that is, every safety invariant of the run `services`.

Before they were proved, TLC checked the inductive invariants on instances no
larger than needed: `CaseInvariant` with 3 cycles and 2 levels,
`DeliveryInvariant` with 2 messages and 2 webhooks, `OutboxInvariant` with
2 contracts, 2 workers, 2 events and 2 faults.

**Only model-checked:** every liveness property, out of the prover's reach
(`CollectedMoneyReserves`, `EventsAreHandled` of the inbox,
`CollectedReconciliationCloses`, `CollectedMoneySettles`, `InvoiceCatchesUp`,
`OverdueIsRecorded`), and the counterexamples of section 5. Every safety
property of a passing run is proved.

## 5. Disagreements found

| Run | The documentation says | The code does |
|---|---|---|
| `shared_link` | the first offer to reach PAID wins | a form submission that read AWAITING or FORM before the signature writes FORM over PAID; the vehicle is free again and a second offer becomes PAID |
| `workshop_race` | a vehicle is RENTED while its contract is ACTIVE or RETOUT; a vehicle that became RENTED cannot start maintenance | the two check under locks of different namespaces and both commit; the vehicle of an ACTIVE contract is in SERVICE |
| `workshop_ready` | active maintenance blocks another active order | the second of two concurrent `markReady` revives a completed order beside a new one |
| `overwritten` | PAID means a confirmed payment | abandonment overwrites a confirmation that commits between its read and its write; car-out then refuses for want of a payment |
| `two_sessions` | before another attempt an unresolved session is reconciled or blocks | an abandoned payment's session stays open at Stripe, and the next start opens another |
| `inbox_crash` | the inbox is durable and every cycle idempotent | an event claimed by a process that dies stays in PROCESSING, which no cycle claims |

The quotations are in `PROJECT.json`. Seen while modelling, and in the models,
but without a run of their own:

* A reconciliation can be edited after it was finalised: the editing handlers
  check the contract under the reconcile lock, which finalisation does not take
  (`contracts-reconciliation.ts:691`).
* Cash taken for an office renewal at the desk while a card session that
  includes the renewal is open leaves that session's money unapplied;
  `CollectedReconciliationCloses` excepts this case.
* Cash for a renewal whose transaction is still open at the desk when the vehicle
  has returned and a settlement reads the renewal is collected twice: both read
  it unsettled and both write by id (`contract-payment.service.ts:367`,
  `contracts-final-settlement.ts:106`). `ConfirmedOnce` and `SettledOnce` except
  exactly these renewals (`contested`).
* An expired session's event that read its payment before the reference of a
  newer session was stored writes its own reference over it
  (`contract-payment.service.ts:1319`). The paid event of the newer session is
  then refused as a mismatch until its tries run out: the money is collected and
  reserves nothing. `ReadyAttemptIsReferenced` and `CollectedMoneyReserves`
  except this case (`Overwritten`).
* `payment.confirmed` and `contract.renewed` are event types of both outbox
  consumers, and a row is processed by the first: the other never sees it. When
  the notifier is first the invoice never shows the change, and the notifier may
  have had nothing to deliver, or have failed to reserve its key. So
  `ProcessedIsShown` and `InvoiceCatchesUp` speak of events only the invoice is
  about.
* A declined saved card makes the Stripe SDK throw; the answer is never recorded
  and the charge stays PROCESSING until the failure webhook.
* The status of a message may go back from READ to SENT when two webhooks
  overlap, and with two sends under way the echo of one may be shown beside a
  row that stays PENDING. Two echoes handled at once may both take the one row
  without an id; the first message then has no row, and a status of it that is
  applied meanwhile is shown on the other or lost.
* `claimNext` and `claimItem` lock differently, so two agents may both be told
  they have an item; `cancelCallback` may return an item to NEW during its call;
  two completions of one call count it twice, because `completeCall` reads before
  its lock; `release` accepts a closed item and reopens it.

## 6. Left out, and what could follow

Left out within the parts that are modelled: text and money amounts (an amount
is the set of its items), documents, photos and signatures as conditions of a
handler (taken as given), creating vehicles, editing an order's text, saved
cards in the rental checkout, the new end date of a renewal, the adjustment of
a liability's amount, the delivery of invoices by e-mail and WhatsApp (a
delivery marked SENDING by a process that dies is taken up by nobody), delays
before a retry, complaint routing, stages and warnings, GPS positions and the
binding of devices to vehicles, passwords and second factors, inbound messages,
templates and media, the order in which queue items are chosen, and consent. A
vehicle that an administrator sets to RENTED by hand can be edited no more;
that dead end is in the model and breaks no property.

Not modelled: the TARS one-time passwords. A verification reads its challenge,
asks the provider and writes attempts and status by id, so parallel attempts
count once and a failed one may undo a successful one; the code promises
nothing that a model could check beyond that, and the hazard is listed. The
remaining components of section 1 only read, parse, render, or write a row
that nobody else writes. They are most of the source, which is why the map
covers a small share of it: what the map leaves out has no steps to interleave.

Next: abstract specifications of the outbox (a change is shown or given up) and
of message delivery, with the refinement proved; the delivery of invoices with
its providers; identity documents and their recogniser, where an answer may
come after the document was superseded.
