---------------------------- MODULE RentalCheckout ----------------------------
(***************************************************************************)
(* The card payment of one signed rental request: payment and attempt      *)
(* rows, the Stripe sessions behind them, the webhook inbox and its worker.*)
(*                                                                         *)
(* Every request and the worker is an actor with a job; between two steps  *)
(* of a job any other actor may move.  Stripe is called outside database   *)
(* transactions, so a call is a step of its own.  Rows are read without    *)
(* locks and updated by id, so what a job has read may be stale when it    *)
(* writes.                                                                 *)
(***************************************************************************)
EXTENDS Naturals, FiniteSets, FiniteSetsExt

CONSTANTS
  Requests,     \* concurrent HTTP requests about this contract
  Worker,       \* the background cycle that empties the inbox
  Consents,     \* consent version and Stripe customer: the request fingerprint
  MaxPayments,  \* bound on ContractPayment rows
  MaxAttempts,  \* bound on ContractPaymentAttempt rows
  MaxTries,     \* MAX_WEBHOOK_ATTEMPTS
  MaxCrashes    \* bound on process crashes

ASSUME CheckoutConstants ==
  /\ Worker \notin Requests
  /\ MaxPayments \in Nat /\ MaxAttempts \in Nat
  /\ MaxTries \in Nat \ {0}
  /\ MaxCrashes \in Nat

Payments == 1..MaxPayments
Attempts == 1..MaxAttempts
Actors == Requests \union {Worker}

VARIABLES
  contract,     \* Contract.status
  vehicleFree,  \* assertVehicleFreeForRental would succeed
  row,          \* ContractPayment.status; GONE once the request is deleted
  ref,          \* ContractPayment.providerReference: an attempt's session, or 0
  attempt,      \* ContractPaymentAttempt
  session,      \* the attempt's Stripe session
  stored,       \* sessions whose URL was stored: the ones the hirer can open
  failedOnce,   \* dedupe keys of payment.failed
  settled,      \* dedupe keys of payment.confirmed and of the ledger entry
  event,        \* StripeWebhookEvent.processingStatus of the session's event
  tries,        \* StripeWebhookEvent.attemptCount
  batch,        \* events the worker has claimed and not yet taken up
  job,          \* what each actor is doing
  crashes

stripe == <<session, stored>>
inbox == <<event, tries, batch>>
rental == <<contract, vehicleFree>>
keys == <<failedOnce, settled>>
vars == <<contract, vehicleFree, row, ref, attempt, session, stored, failedOnce,
          settled, event, tries, batch, job, crashes>>

\* CANCELLED stands for FAILED too: nothing treats them differently.
RowStatus == {"NONE", "PROCESSING", "CONFIRMED", "CANCELLED", "GONE"}
ACTIVE_CHECKOUT_ATTEMPT_STATUSES == {"PREPARING", "RECOVERING", "READY"}
AttemptStatus == ACTIVE_CHECKOUT_ATTEMPT_STATUSES \union
  {"COMPLETED", "FAILED", "EXPIRED", "SUPERSEDED"}
NoAttempt == [payment |-> 0, status |-> "NONE"]

\* start: the contract was checked; claim: in the claiming transaction; call,
\* keep, late, expire: around the session of an attempt; paid, ended: an answer
\* of Stripe to apply; cancel: in a transaction that read the payment in
\* flight; bind, bindCancel: in an event's transaction that read it without a
\* reference, and ended or in flight; done, failed: an outcome the worker still
\* has to record.
JobKind == {"idle", "start", "claim", "call", "keep", "late", "expire", "paid",
            "ended", "bind", "cancel", "bindCancel", "done", "failed"}
Job(op, p, a) == [op |-> op, payment |-> p, attempt |-> a]
Idle == Job("idle", 0, 0)

-----------------------------------------------------------------------------
Goto(x, op, p, a) == job' = [job EXCEPT ![x] = Job(op, p, a)]

\* An actor's work ends; the worker still has to record how.
Finish(x, outcome) ==
  job' = [job EXCEPT ![x] = IF x = Worker THEN Job(outcome, 0, @.attempt) ELSE Idle]

\* Rows are created in order; the pool may be exhausted.
First(n, S) == n \in S /\ \A m \in S : n <= m

Active == {p \in Payments : row[p] = "PROCESSING"}
Confirmed == {p \in Payments : row[p] = "CONFIRMED"}
ActiveAttempts(p) ==
  {a \in Attempts : /\ attempt[a].payment = p
                    /\ attempt[a].status \in ACTIVE_CHECKOUT_ATTEMPT_STATUSES}

\* updateMany on the active attempts of a payment.
CloseAttempts(p, to) ==
  [a \in Attempts |->
     IF a \in ActiveAttempts(p) THEN [attempt[a] EXCEPT !.status = to] ELSE attempt[a]]

Init ==
  /\ contract = "SIGNED"
  /\ vehicleFree = TRUE
  /\ row = [p \in Payments |-> "NONE"]
  /\ ref = [p \in Payments |-> 0]
  /\ attempt = [a \in Attempts |-> NoAttempt]
  /\ session = [a \in Attempts |-> "NONE"]
  /\ stored = {}
  /\ failedOnce = {}
  /\ settled = {}
  /\ event = [a \in Attempts |-> "NONE"]
  /\ tries = [a \in Attempts |-> 0]
  /\ batch = {}
  /\ job = [x \in Actors |-> Idle]
  /\ crashes = 0

-----------------------------------------------------------------------------
(* Starting a payment.                                                     *)

\* The contract is checked before the transaction that claims an attempt.
startCardPayment(q) ==
  /\ job[q] = Idle
  /\ contract = "SIGNED"
  /\ Goto(q, "start", 0, 0)
  /\ UNCHANGED <<rental, row, ref, attempt, stripe, keys, inbox, crashes>>

\* isCheckoutUsable: the payment has the URL of a session that can be opened.
Usable(p) == \E a \in stored : attempt[a].payment = p /\ session[a] # "expired"

\* Under the payment lock.  A settled obligation refuses.  A payment in flight
\* answers with its stored URL, is checked at Stripe once that URL has expired,
\* or is taken over if it never got a session.
claimRead(q) ==
  /\ job[q].op = "start"
  /\ \A x \in Actors : job[x].op # "claim"
  /\ contract # "DELETED"
  /\ Confirmed = {}
  /\ IF Active = {}
     THEN Goto(q, "claim", 0, 0)
     ELSE LET p == Max(Active)
              a == ref[p] IN
          \/ a = 0 /\ Goto(q, "claim", p, 0)
          \/ a # 0 /\ Usable(p) /\ Finish(q, "done")
          \/ a # 0 /\ session[a] = "paid" /\ Goto(q, "paid", p, a)
          \/ a # 0 /\ session[a] = "expired" /\ Goto(q, "ended", p, a)
  /\ UNCHANGED <<rental, row, ref, attempt, stripe, keys, inbox, crashes>>

\* createImmutableAttempt: puts the payment in flight, whatever it has become.
createImmutableAttempt(q, p, consent, others) ==
  \E a \in Attempts :
    /\ First(a, {b \in Attempts : attempt[b] = NoAttempt})
    /\ attempt' = [others EXCEPT
                     ![a] = [payment |-> p, status |-> "PREPARING", consent |-> consent]]
    /\ row' = [row EXCEPT ![p] = "PROCESSING"]
    /\ Goto(q, "call", p, a)

\* claimCheckoutAttempt: an active attempt of the same fingerprint is answered
\* or recovered, another one is superseded by a new attempt.
claimWrite(q, consent) ==
  /\ job[q].op = "claim"
  /\ \E p \in Payments :
       /\ IF job[q].payment # 0 THEN p = job[q].payment
          ELSE First(p, {r \in Payments : row[r] = "NONE"})
       /\ LET same == {a \in ActiveAttempts(p) : attempt[a].consent = consent}
              usable == {a \in same : attempt[a].status = "READY" /\ session[a] # "expired"}
              lapsed == {a \in same : attempt[a].status = "READY" /\ session[a] = "expired"} IN
          \/ \E a \in same \ (usable \union lapsed) :
               /\ attempt' = [attempt EXCEPT ![a].status = "RECOVERING"]
               /\ Goto(q, "call", p, a)
               /\ UNCHANGED row
          \/ usable # {} /\ Finish(q, "done") /\ UNCHANGED <<row, attempt>>
          \/ /\ same = lapsed
             /\ createImmutableAttempt(q, p, consent,
                  CloseAttempts(p, IF same = {} THEN "SUPERSEDED" ELSE "EXPIRED"))
  /\ UNCHANGED <<rental, ref, stripe, keys, inbox, crashes>>

\* Stripe answers the same session to the same idempotency key, which is the
\* attempt's.  Nobody sees the session before its URL is stored, so the call is
\* one step with the read, in persistStripeCheckoutResult, of whether the
\* payment is still in flight.
createCheckoutSession(q) ==
  LET p == job[q].payment
      a == job[q].attempt IN
  /\ job[q].op = "call"
  /\ session' = [session EXCEPT ![a] = IF @ = "NONE" THEN "open" ELSE @]
  /\ Goto(q, IF p \in Active THEN "keep" ELSE "late", p, a)
  /\ UNCHANGED <<rental, row, ref, attempt, stored, keys, inbox, crashes>>

recordAttemptFailure(q) ==
  /\ job[q].op = "call"
  /\ attempt' = [attempt EXCEPT ![job[q].attempt].status = "FAILED"]
  /\ Finish(q, "done")
  /\ UNCHANGED <<rental, row, ref, stripe, keys, inbox, crashes>>

\* Fault: there is no unique index on active attempts.
faultyPersistKeep(q) ==
  LET p == job[q].payment
      a == job[q].attempt IN
  /\ job[q].op = "keep"
  /\ row[p] # "GONE"
  /\ attempt' = [attempt EXCEPT ![a].status = "READY"]
  /\ ref' = [ref EXCEPT ![p] = a]
  /\ row' = [row EXCEPT ![p] = "PROCESSING"]
  /\ stored' = stored \union {a}
  /\ Finish(q, "done")
  /\ UNCHANGED <<rental, session, keys, inbox, crashes>>

\* The session is stored; one active attempt per payment is a unique index.
persistKeep(q) ==
  LET p == job[q].payment
      a == job[q].attempt IN
  /\ job[q].op = "keep"
  /\ row[p] # "GONE"
  /\ ActiveAttempts(p) \subseteq {a}
  /\ attempt' = [attempt EXCEPT ![a].status = "READY"]
  /\ ref' = [ref EXCEPT ![p] = a]
  /\ row' = [row EXCEPT ![p] = "PROCESSING"]
  /\ stored' = stored \union {a}
  /\ Finish(q, "done")
  /\ UNCHANGED <<rental, session, keys, inbox, crashes>>

persistLate(q) ==
  LET a == job[q].attempt IN
  /\ job[q].op = "late"
  /\ row[job[q].payment] # "GONE"
  /\ attempt' = [attempt EXCEPT ![a].status = "EXPIRED"]
  /\ Goto(q, "expire", 0, a)
  /\ UNCHANGED <<rental, row, ref, stripe, keys, inbox, crashes>>

expireCheckoutSession(q) ==
  /\ job[q].op = "expire"
  /\ session' = [session EXCEPT ![job[q].attempt] = IF @ = "open" THEN "expired" ELSE @]
  /\ Finish(q, "done")
  /\ UNCHANGED <<rental, row, ref, attempt, stored, keys, inbox, crashes>>

-----------------------------------------------------------------------------
(* Stripe and the hirer.                                                   *)

hirerPays(a) ==
  /\ session[a] = "open"
  /\ a \in stored
  /\ session' = [session EXCEPT ![a] = "paid"]
  /\ UNCHANGED <<rental, row, ref, attempt, stored, keys, inbox, job, crashes>>

sessionExpires(a) ==
  /\ session[a] = "open"
  /\ session' = [session EXCEPT ![a] = "expired"]
  /\ UNCHANGED <<rental, row, ref, attempt, stored, keys, inbox, job, crashes>>

\* The event of a session that ended reaches the inbox; Stripe delivers it
\* again until it is acknowledged, and a duplicate is dropped (insertEvent).
insertEvent(a) ==
  /\ session[a] \in {"paid", "expired"}
  /\ event[a] = "NONE"
  /\ event' = [event EXCEPT ![a] = "PENDING"]
  /\ UNCHANGED <<rental, row, ref, attempt, stripe, keys, tries, batch, job, crashes>>

-----------------------------------------------------------------------------
(* Applying what Stripe says, from the inbox or from a status poll.        *)

\* reconcilePaymentWithProvider: the answer may be old when it is applied.  An
\* open session whose card was declined counts as ended.
reconcilePaymentWithProvider(q) ==
  /\ job[q] = Idle
  /\ \E p \in Active :
       /\ ref[p] # 0
       /\ \/ session[ref[p]] = "paid" /\ Goto(q, "paid", p, ref[p])
          \/ session[ref[p]] # "paid" /\ Goto(q, "ended", p, ref[p])
  /\ UNCHANGED <<rental, row, ref, attempt, stripe, keys, inbox, crashes>>

\* An event names its payment and its session; it is refused when the payment
\* has gone or belongs to another session, else it binds the session to it.
Bound(x) == x # Worker \/ ref[job[x].payment] \in {0, job[x].attempt}
BindReference(x) ==
  ref' = IF x = Worker THEN [ref EXCEPT ![job[x].payment] = job[x].attempt] ELSE ref

\* confirmPaymentAttempt can commit: no other confirmed payment (unique index),
\* first confirmation of this one (dedupe keys), and the vehicle is free if
\* the contract is to become PAID.
Confirmable(p) ==
  /\ Confirmed \subseteq {p}
  /\ p \notin settled
  /\ contract = "SIGNED" => vehicleFree

\* Fault: a payment that was given up is not confirmed any more.
FaultyNothingToConfirm(p) == row[p] \in {"CONFIRMED", "CANCELLED"}

\* A payment that is confirmed already, or that lost to another, is left alone.
NothingToConfirm(p) ==
  \/ row[p] = "CONFIRMED"
  \/ row[p] = "CANCELLED" /\ Confirmed # {}

confirmPayment(x) ==
  LET p == job[x].payment IN
  /\ job[x].op = "paid"
  /\ row[p] # "GONE" /\ Bound(x)
  /\ ~ NothingToConfirm(p)
  /\ Confirmable(p)
  /\ row' = [row EXCEPT ![p] = "CONFIRMED"]
  /\ contract' = IF contract = "SIGNED" THEN "PAID" ELSE contract
  /\ settled' = settled \union {p}
  /\ attempt' = CloseAttempts(p, "COMPLETED")
  /\ BindReference(x)
  /\ Finish(x, "done")
  /\ UNCHANGED <<vehicleFree, stripe, failedOnce, inbox, crashes>>

confirmNothing(x) ==
  LET p == job[x].payment IN
  /\ job[x].op = "paid"
  /\ row[p] # "GONE" /\ Bound(x)
  /\ NothingToConfirm(p)
  /\ BindReference(x)
  /\ Finish(x, "done")
  /\ UNCHANGED <<rental, row, attempt, stripe, keys, inbox, crashes>>

confirmFails(x) ==
  LET p == job[x].payment IN
  /\ job[x].op = "paid"
  /\ \/ row[p] = "GONE"
     \/ ~ Bound(x)
     \/ ~ NothingToConfirm(p) /\ ~ Confirmable(p)
  /\ Finish(x, IF row[p] = "CONFIRMED" THEN "done" ELSE "failed")
  /\ UNCHANGED <<rental, row, ref, attempt, stripe, keys, inbox, crashes>>

\* The transaction of a negative answer, or of abandonment, reads the payment ...
endRead(x) ==
  LET p == job[x].payment
      a == job[x].attempt
      binds == x = Worker /\ ref[p] = 0 IN
  /\ job[x].op = "ended"
  /\ \/ /\ row[p] = "GONE" \/ ~ Bound(x)
        /\ Finish(x, IF row[p] = "CONFIRMED" THEN "done" ELSE "failed")
     \/ /\ row[p] # "GONE" /\ Bound(x)
        /\ \/ p \notin Active /\ ~ binds /\ Finish(x, "done")
           \/ p \notin Active /\ binds /\ Goto(x, "bind", p, a)
           \/ p \in Active /\ ~ binds /\ Goto(x, "cancel", p, IF x = Worker THEN a ELSE 0)
           \/ p \in Active /\ binds /\ Goto(x, "bindCancel", p, a)
  /\ UNCHANGED <<rental, row, ref, attempt, stripe, keys, inbox, crashes>>

abandonActiveRentalCheckout(q) ==
  /\ job[q] = Idle
  /\ contract = "SIGNED"
  /\ Active # {}
  /\ Goto(q, "cancel", Max(Active), 0)
  /\ UNCHANGED <<rental, row, ref, attempt, stripe, keys, inbox, crashes>>

\* ... and ends it whatever it has become; payment.failed is emitted once.  An
\* event that read no reference has written its own, over one stored since.
markPaymentTerminal(x) ==
  LET p == job[x].payment IN
  /\ job[x].op \in {"cancel", "bindCancel"}
  /\ row[p] # "GONE"
  /\ p \notin failedOnce
  /\ row' = [row EXCEPT ![p] = "CANCELLED"]
  /\ ref' = IF job[x].op = "bindCancel" THEN [ref EXCEPT ![p] = job[x].attempt] ELSE ref
  /\ failedOnce' = failedOnce \union {p}
  /\ attempt' = CloseAttempts(p, "EXPIRED")
  /\ Finish(x, "done")
  /\ UNCHANGED <<rental, stripe, settled, inbox, crashes>>

\* The same write where there is nothing to end.
bindEndedPayment(x) ==
  LET p == job[x].payment IN
  /\ job[x].op = "bind"
  /\ row[p] # "GONE"
  /\ ref' = [ref EXCEPT ![p] = job[x].attempt]
  /\ Finish(x, "done")
  /\ UNCHANGED <<rental, row, attempt, stripe, keys, inbox, crashes>>

\* The second payment.failed of a payment meets its dedupe key; the writer of
\* the event swallows the error, so the transaction rolls back and its caller
\* takes it for done.
markFails(x) ==
  LET p == job[x].payment IN
  /\ \/ /\ job[x].op \in {"bind", "cancel", "bindCancel"}
        /\ row[p] = "GONE"
        /\ Finish(x, "failed")
     \/ /\ job[x].op \in {"cancel", "bindCancel"}
        /\ row[p] # "GONE" /\ p \in failedOnce
        /\ Finish(x, "done")
  /\ UNCHANGED <<rental, row, ref, attempt, stripe, keys, inbox, crashes>>

-----------------------------------------------------------------------------
(* The inbox worker.                                                       *)

\* Fault: an event that failed is not claimed again.
faultyClaimBatch ==
  /\ job[Worker] = Idle
  /\ batch = {}
  /\ batch' = {a \in Attempts : event[a] = "PENDING"}
  /\ batch' # {}
  /\ event' = [a \in Attempts |-> IF a \in batch' THEN "PROCESSING" ELSE event[a]]
  /\ UNCHANGED <<rental, row, ref, attempt, stripe, keys, tries, job, crashes>>

\* Fault: an event that failed is claimed without end.
endlessClaimBatch ==
  /\ job[Worker] = Idle
  /\ batch = {}
  /\ batch' = {a \in Attempts : event[a] \in {"PENDING", "FAILED"}}
  /\ batch' # {}
  /\ event' = [a \in Attempts |-> IF a \in batch' THEN "PROCESSING" ELSE event[a]]
  /\ UNCHANGED <<rental, row, ref, attempt, stripe, keys, tries, job, crashes>>

\* claimBatch takes every event that is due; one that failed is due again
\* after its back-off, until its tries are used up.
claimBatch ==
  /\ job[Worker] = Idle
  /\ batch = {}
  /\ \E due \in SUBSET {a \in Attempts : /\ event[a] \in {"PENDING", "FAILED"}
                                         /\ tries[a] < MaxTries} :
       /\ due # {}
       /\ {a \in Attempts : event[a] = "PENDING"} \subseteq due
       /\ batch' = due
       /\ event' = [a \in Attempts |-> IF a \in due THEN "PROCESSING" ELSE event[a]]
  /\ UNCHANGED <<rental, row, ref, attempt, stripe, keys, tries, job, crashes>>

\* Fault: any event of a session is taken for its payment.
faultyApplyInboxPaymentEvent(a) ==
  /\ job[Worker] = Idle
  /\ a \in batch
  /\ batch' = batch \ {a}
  /\ Goto(Worker, "paid", attempt[a].payment, a)
  /\ UNCHANGED <<rental, row, ref, attempt, stripe, keys, event, tries, crashes>>

applyInboxPaymentEvent(a) ==
  /\ job[Worker] = Idle
  /\ a \in batch
  /\ batch' = batch \ {a}
  /\ Goto(Worker, IF session[a] = "paid" THEN "paid" ELSE "ended", attempt[a].payment, a)
  /\ UNCHANGED <<rental, row, ref, attempt, stripe, keys, event, tries, crashes>>

markProcessed ==
  /\ job[Worker].op = "done"
  /\ event' = [event EXCEPT ![job[Worker].attempt] = "PROCESSED"]
  /\ job' = [job EXCEPT ![Worker] = Idle]
  /\ UNCHANGED <<rental, row, ref, attempt, stripe, keys, tries, batch, crashes>>

\* markRetry and markPermanentFailure differ in the back-off only.
markRetry ==
  /\ job[Worker].op = "failed"
  /\ event' = [event EXCEPT ![job[Worker].attempt] = "FAILED"]
  /\ tries' = [tries EXCEPT ![job[Worker].attempt] = @ + 1]
  /\ job' = [job EXCEPT ![Worker] = Idle]
  /\ UNCHANGED <<rental, row, ref, attempt, stripe, keys, batch, crashes>>

-----------------------------------------------------------------------------
(* The surroundings.                                                       *)

\* Another contract reaches PAID on the vehicle first.
vehicleTaken ==
  /\ contract = "SIGNED"
  /\ vehicleFree
  /\ vehicleFree' = FALSE
  /\ UNCHANGED <<contract, row, ref, attempt, stripe, keys, inbox, job, crashes>>

\* Staff delete the request; RentalContracts takes the transaction apart.
deletePendingRentalRequest ==
  /\ contract = "SIGNED"
  /\ \A x \in Actors : job[x].op # "claim"
  /\ Active \union Confirmed = {}
  /\ contract' = "DELETED"
  /\ row' = [p \in Payments |-> IF row[p] = "NONE" THEN "NONE" ELSE "GONE"]
  /\ UNCHANGED <<vehicleFree, ref, attempt, stripe, keys, inbox, job, crashes>>

\* A request ends without effect: a transaction that cannot commit, a timeout,
\* a lost connection.
requestFails(q) ==
  /\ job[q] # Idle
  /\ job' = [job EXCEPT ![q] = Idle]
  /\ UNCHANGED <<rental, row, ref, attempt, stripe, keys, inbox, crashes>>

\* The single process serves requests and runs the worker; what was claimed
\* stays claimed.
crash ==
  /\ crashes < MaxCrashes
  /\ crashes' = crashes + 1
  /\ job' = [x \in Actors |-> Idle]
  /\ batch' = {}
  /\ UNCHANGED <<rental, row, ref, attempt, stripe, keys, event, tries>>

-----------------------------------------------------------------------------
Request(q) ==
  \/ startCardPayment(q) \/ claimRead(q) \/ \E consent \in Consents : claimWrite(q, consent)
  \/ createCheckoutSession(q) \/ recordAttemptFailure(q)
  \/ persistKeep(q) \/ persistLate(q) \/ expireCheckoutSession(q)
  \/ reconcilePaymentWithProvider(q) \/ abandonActiveRentalCheckout(q)
  \/ requestFails(q)

Apply(x) ==
  \/ confirmPayment(x) \/ confirmNothing(x) \/ confirmFails(x)
  \/ endRead(x) \/ markPaymentTerminal(x) \/ bindEndedPayment(x) \/ markFails(x)

WorkerStep ==
  \/ claimBatch
  \/ \E a \in Attempts : applyInboxPaymentEvent(a)
  \/ Apply(Worker)
  \/ markProcessed
  \/ markRetry

Next ==
  \/ \E q \in Requests : Request(q) \/ Apply(q)
  \/ \E a \in Attempts : hirerPays(a) \/ sessionExpires(a) \/ insertEvent(a)
  \/ WorkerStep
  \/ vehicleTaken \/ deletePendingRentalRequest \/ crash

\* The background scheduler runs the cycle over and over and one step of it
\* never waits for a request; Stripe delivers an event until it is accepted.
Fairness ==
  /\ WF_vars(WorkerStep)
  /\ \A a \in Attempts : WF_vars(insertEvent(a))

Spec == Init /\ [][Next]_vars /\ Fairness

-----------------------------------------------------------------------------
TypeOK ==
  /\ contract \in {"SIGNED", "PAID", "DELETED"}
  /\ vehicleFree \in BOOLEAN
  /\ row \in [Payments -> RowStatus]
  /\ ref \in [Payments -> {0} \union Attempts]
  /\ attempt \in [Attempts -> {NoAttempt} \union
                     [payment : Payments, status : AttemptStatus, consent : Consents]]
  /\ session \in [Attempts -> {"NONE", "open", "paid", "expired"}]
  /\ stored \subseteq Attempts
  /\ failedOnce \subseteq Payments
  /\ settled \subseteq Payments
  /\ event \in [Attempts -> {"NONE", "PENDING", "PROCESSING", "FAILED", "PROCESSED"}]
  /\ tries \in [Attempts -> 0..MaxTries]
  /\ batch \subseteq Attempts
  /\ job \in [Actors -> [op : JobKind, payment : {0} \union Payments,
                         attempt : {0} \union Attempts]]
  /\ crashes \in 0..MaxCrashes

Collected(p) == \E a \in Attempts : attempt[a].payment = p /\ session[a] = "paid"

\* A payment is confirmed only for money that Stripe collected for that very
\* payment, and the contract is PAID only on such a payment, however late,
\* duplicated or out of order webhooks, polls and abandonments come.
NothingSettlesUncollected ==
  /\ \A p \in Confirmed \union settled : Collected(p)
  /\ contract = "PAID" => settled # {}

\* The contract and the payment rows agree: a PAID contract keeps the confirmed
\* payment that car-out requires.
PaidKeepsItsPayment == contract = "PAID" => Confirmed # {}

\* The attempt's payment listens to another session, which has expired: the
\* event of that one was applied after the attempt's session had been stored.
Overwritten(a) ==
  \E b \in Attempts \ {a}, p \in Payments :
    attempt[a].payment = p /\ ref[p] = b /\ session[b] = "expired"

\* The session a payment offers is the one it listens to: whichever requests
\* recover or supersede the attempt, the event of a READY attempt's session is
\* refused as another session's only where the late event of an expired session
\* has taken the reference back.
ReadyAttemptIsReferenced ==
  \A a \in Attempts :
    attempt[a].status = "READY" => ref[attempt[a].payment] = a \/ Overwritten(a)

\* A hirer who starts again has one checkout to pay: the backend blocks another
\* attempt while an earlier session is unresolved (payments-backend).
OnePayableCheckout ==
  \A a, b \in stored : session[a] = "open" /\ session[b] = "open" => a = b

\* Money that Stripe collected reserves the vehicle in the end, unless the
\* vehicle went to another contract, the request was deleted meanwhile, or an
\* expired session's late event took the payment's reference, so that the event
\* of the paid one is refused.
CollectedMoneyReserves ==
  \A a \in Attempts :
    session[a] = "paid" ~> \/ contract = "PAID"
                           \/ ~ vehicleFree
                           \/ contract = "DELETED"
                           \/ Overwritten(a)

\* The inbox is durable: an event that was accepted is processed or uses up
\* its tries.
EventsAreHandled ==
  \A a \in Attempts :
    event[a] = "PENDING" ~> event[a] = "PROCESSED" \/ tries[a] = MaxTries
=============================================================================
