----------------------------- MODULE InvoiceOutbox -----------------------------
(***************************************************************************)
(* The domain outbox between the rentals and two consumers: the issuer of  *)
(* consolidated contract invoices, and the business notifications.  Every  *)
(* worker process runs both.  The content of an invoice is the number of   *)
(* its contract's changes it shows; the contracts share one company, and   *)
(* so one sequence of invoice numbers.                                     *)
(*                                                                         *)
(* A worker may crash at any step, and a row locked for five minutes is    *)
(* given to another worker, whether or not the first still works on it.    *)
(***************************************************************************)
EXTENDS Naturals

CONSTANTS
  Contracts,
  Workers,      \* worker processes
  MaxEvents,    \* bound on outbox rows
  Histories,    \* the sequences of business changes considered, one per row
  MaxAttempts,  \* DomainOutboxEvent.maxAttempts
  MaxFaults     \* bound on crashes and on workers slower than the lock

ASSUME OutboxConstants ==
  /\ MaxEvents \in Nat
  /\ Histories \subseteq [1..MaxEvents -> [kind : {"invoice", "shared"}, contract : Contracts]]
  /\ MaxAttempts \in Nat
  /\ MaxFaults \in Nat

Events == 1..MaxEvents

VARIABLES
  facts,       \* changes of the contract that its invoice must show
  outbox,      \* DomainOutboxEvent rows; what a row will be about is fixed at first
  worker,      \* what each worker process is doing
  invoices,    \* Invoice rows
  nextNumber,  \* InvoiceNumberSequence.nextNumber
  reserved,    \* events whose idempotency key is reserved
  sent,        \* notifications sent for an event
  faults

invoicing == <<invoices, nextNumber>>
notices == <<reserved, sent>>
outboxVars == <<facts, outbox, worker, invoices, nextNumber, reserved, sent, faults>>

Status == {"NONE", "PENDING", "PROCESSING", "PROCESSED", "FAILED"}
Consumers == {"issuer", "notifier"}

\* contract.paid and the finalized reconciliation only concern the invoice;
\* payment.confirmed and contract.renewed are in the lists of both consumers.
Consumes(consumer, kind) == consumer = "issuer" \/ kind = "shared"

Job(phase, consumer, e, attempts) ==
  [phase |-> phase, consumer |-> consumer, event |-> e, attempts |-> attempts,
   content |-> 0, number |-> 0]
Idle == Job("idle", "issuer", 0, 0)
Working(phase) == {w \in Workers : worker[w].phase = phase}
Holds(w, e) == worker[w].phase # "listed" /\ worker[w].event = e

Invoice(c, revision, number, content) ==
  [contract |-> c, revision |-> revision, number |-> number, content |-> content]
Of(c) == {i \in invoices : i.contract = c}

\* The row whose isCurrent is set: demoting it and inserting the next revision
\* are one transaction under a unique index on the current row.
Current(c) == {i \in Of(c) : \A j \in Of(c) : j.revision <= i.revision}
Shows(c, content) == \E i \in Current(c) : i.content = content

-----------------------------------------------------------------------------
\* A business transaction changes the contract and writes its outbox row.
writeOutboxEvent(e) ==
  LET c == outbox[e].contract IN
  /\ outbox[e].status = "NONE"
  /\ \A f \in Events : f < e => outbox[f].status # "NONE"
  /\ facts' = [facts EXCEPT ![c] = @ + 1]
  /\ outbox' = [outbox EXCEPT ![e].status = "PENDING", ![e].content = facts[c] + 1]
  /\ UNCHANGED <<worker, invoicing, notices, faults>>

\* A cycle reads the due rows, then takes them one by one ...
listDue(w, consumer, e) ==
  /\ worker[w] = Idle
  /\ outbox[e].status = "PENDING"
  /\ Consumes(consumer, outbox[e].kind)
  /\ worker' = [worker EXCEPT ![w] = Job("listed", consumer, e, outbox[e].attempts)]
  /\ UNCHANGED <<facts, outbox, invoicing, notices, faults>>

\* ... claiming each with a conditional update.
claim(w) ==
  /\ worker[w].phase = "listed"
  /\ \/ /\ outbox[worker[w].event].status = "PENDING"
        /\ outbox' = [outbox EXCEPT ![worker[w].event].status = "PROCESSING"]
        /\ worker' = [worker EXCEPT ![w].phase = "claimed"]
     \/ /\ outbox[worker[w].event].status # "PENDING"
        /\ worker' = [worker EXCEPT ![w] = Idle]
        /\ UNCHANGED outbox
  /\ UNCHANGED <<facts, invoicing, notices, faults>>

-----------------------------------------------------------------------------
\* ensureConsolidatedContractInvoice: under the contract's advisory lock, the
\* lines of the invoice are built from the contract ...
faultyLockFree(c) == TRUE
LockFree(c) ==
  \A w \in Working("composing") \union Working("issuing") : outbox[worker[w].event].contract # c

composeInvoice(w) ==
  LET c == outbox[worker[w].event].contract IN
  /\ worker[w].phase = "claimed" /\ worker[w].consumer = "issuer"
  /\ LockFree(c)
  /\ worker' = [worker EXCEPT ![w].phase = "composing", ![w].content = facts[c]]
  /\ UNCHANGED <<facts, outbox, invoicing, notices, faults>>

\* ... and an invoice that shows them is kept; else allocateInvoiceNumber reads
\* the next number of the company, ...
allocateInvoiceNumber(w) ==
  LET c == outbox[worker[w].event].contract IN
  /\ worker[w].phase = "composing"
  /\ \/ /\ Shows(c, worker[w].content)
        /\ worker' = [worker EXCEPT ![w] = Job("handled", "issuer", @.event, 0)]
     \/ /\ ~Shows(c, worker[w].content)
        /\ worker' = [worker EXCEPT ![w].phase = "issuing", ![w].number = nextNumber]
  /\ UNCHANGED <<facts, outbox, invoicing, notices, faults>>

\* ... which is written with the next revision.  Two contracts may read the same
\* number: the unique index on it rolls the second transaction back.
faultyNumberTaken(n) == FALSE
NumberTaken(n) == \E i \in invoices : i.number = n

NextRevision(c, number, content) ==
  {Invoice(c, r, number, content) :
     r \in {r \in 1..MaxEvents : /\ \A i \in Of(c) : i.revision < r
                                 /\ r = 1 \/ \E i \in Of(c) : i.revision + 1 = r}}

issueWrite(w) ==
  LET c == outbox[worker[w].event].contract IN
  /\ worker[w].phase = "issuing"
  /\ \/ /\ ~NumberTaken(worker[w].number)
        /\ invoices' = invoices \union NextRevision(c, worker[w].number, worker[w].content)
        /\ nextNumber' = worker[w].number + 1
        /\ worker' = [worker EXCEPT ![w] = Job("handled", "issuer", @.event, 0)]
     \/ /\ NumberTaken(worker[w].number)
        /\ worker' = [worker EXCEPT ![w] = Job("failed", "issuer", @.event, @.attempts)]
        /\ UNCHANGED invoicing
  /\ UNCHANGED <<facts, outbox, notices, faults>>

\* deliverOnce: runIdempotent reserves the key, or finds it reserved, ...
faultyReserve(w) ==
  /\ worker[w].phase = "claimed" /\ worker[w].consumer = "notifier"
  /\ reserved' = reserved \union {worker[w].event}
  /\ worker' = [worker EXCEPT ![w].phase = "sending"]
  /\ UNCHANGED <<facts, outbox, invoicing, sent, faults>>
reserve(w) ==
  LET e == worker[w].event IN
  /\ worker[w].phase = "claimed" /\ worker[w].consumer = "notifier"
  /\ reserved' = reserved \union {e}
  /\ worker' = [worker EXCEPT ![w].phase = IF e \in reserved THEN "handled" ELSE "sending"]
  /\ UNCHANGED <<facts, outbox, invoicing, sent, faults>>

\* ... then sends; an error of the messaging service is swallowed.
send(w) ==
  /\ worker[w].phase = "sending"
  /\ sent' \in {sent, [sent EXCEPT ![worker[w].event] = @ + 1]}
  /\ worker' = [worker EXCEPT ![w].phase = "handled"]
  /\ UNCHANGED <<facts, outbox, invoicing, reserved, faults>>

\* handleOutboxEvent may have nothing to deliver (a renewal's or a reconciliation's
\* payment, a row that is gone), and an error of the reservation is swallowed.
nothingToDeliver(w) ==
  /\ worker[w].phase = "claimed" /\ worker[w].consumer = "notifier"
  /\ worker' = [worker EXCEPT ![w].phase = "handled"]
  /\ UNCHANGED <<facts, outbox, invoicing, notices, faults>>

\* Any error while an event is handled.
handlingFails(w) ==
  /\ worker[w].phase = "claimed"
  /\ worker' = [worker EXCEPT ![w].phase = "failed"]
  /\ UNCHANGED <<facts, outbox, invoicing, notices, faults>>

markProcessed(w) ==
  /\ worker[w].phase = "handled"
  /\ outbox' = [outbox EXCEPT ![worker[w].event].status = "PROCESSED"]
  /\ worker' = [worker EXCEPT ![w] = Idle]
  /\ UNCHANGED <<facts, invoicing, notices, faults>>

\* The attempt count is that of the listed row, not the one stored by now.
faultyMarkFailed(w) ==
  /\ worker[w].phase = "failed"
  /\ outbox' = [outbox EXCEPT ![worker[w].event].status = "PROCESSED"]
  /\ worker' = [worker EXCEPT ![w] = Idle]
  /\ UNCHANGED <<facts, invoicing, notices, faults>>
markFailed(w) ==
  LET attempt == worker[w].attempts + 1 IN
  /\ worker[w].phase = "failed"
  /\ outbox' = [outbox EXCEPT
       ![worker[w].event].status = IF attempt >= MaxAttempts THEN "FAILED" ELSE "PENDING",
       ![worker[w].event].attempts = attempt]
  /\ worker' = [worker EXCEPT ![w] = Idle]
  /\ UNCHANGED <<facts, invoicing, notices, faults>>

-----------------------------------------------------------------------------
crash(w) ==
  /\ worker[w] # Idle
  /\ faults < MaxFaults
  /\ faults' = faults + 1
  /\ worker' = [worker EXCEPT ![w] = Idle]
  /\ UNCHANGED <<facts, outbox, invoicing, notices>>

\* staleCutoff: a row locked too long is due again.
Unlock(e) ==
  /\ outbox[e].status = "PROCESSING"
  /\ outbox' = [outbox EXCEPT ![e].status = "PENDING"]
  /\ UNCHANGED <<facts, worker, invoicing, notices>>
faultyUnlockStale(e) ==
  Unlock(e) /\ (\E w \in Workers : Holds(w, e)) /\ faults < MaxFaults /\ faults' = faults + 1
unlockStale(e) ==
  /\ Unlock(e)
  /\ IF \E w \in Workers : Holds(w, e)
     THEN faults < MaxFaults /\ faults' = faults + 1
     ELSE UNCHANGED faults

-----------------------------------------------------------------------------
Unwritten(history) ==
  [e \in Events |-> [status |-> "NONE", kind |-> history[e].kind,
                    contract |-> history[e].contract, content |-> 0, attempts |-> 0]]

OutboxInit ==
  /\ facts = [c \in Contracts |-> 0]
  /\ \E history \in Histories : outbox = Unwritten(history)
  /\ worker = [w \in Workers |-> Idle]
  /\ invoices = {}
  /\ nextNumber = 1
  /\ reserved = {}
  /\ sent = [e \in Events |-> 0]
  /\ faults = 0

WorkerStep(w) ==
  \/ \E consumer \in Consumers, e \in Events : listDue(w, consumer, e)
  \/ claim(w)
  \/ composeInvoice(w)
  \/ allocateInvoiceNumber(w)
  \/ issueWrite(w)
  \/ reserve(w)
  \/ nothingToDeliver(w)
  \/ send(w)
  \/ handlingFails(w)
  \/ markProcessed(w)
  \/ markFailed(w)

OutboxNext ==
  \/ \E e \in Events : writeOutboxEvent(e)
  \/ \E w \in Workers : WorkerStep(w)
  \/ \E w \in Workers : crash(w)
  \/ \E e \in Events : unlockStale(e)

\* The scheduler starts a cycle every few seconds; a worker is restarted.
OutboxFairness ==
  /\ \A w \in Workers : WF_outboxVars(WorkerStep(w))
  /\ \A e \in Events : WF_outboxVars(unlockStale(e))

OutboxSpec == OutboxInit /\ [][OutboxNext]_outboxVars /\ OutboxFairness

-----------------------------------------------------------------------------
OutboxRow == [status : Status, kind : {"invoice", "shared"}, contract : Contracts,
              content : Nat, attempts : Nat]
Phase == {"idle", "listed", "claimed", "composing", "issuing", "sending", "handled",
          "failed"}
Jobs == [phase : Phase, consumer : Consumers, event : {0} \union Events, attempts : Nat,
         content : Nat, number : Nat]

OutboxTypeOK ==
  /\ facts \in [Contracts -> Nat]
  /\ outbox \in [Events -> OutboxRow]
  /\ worker \in [Workers -> Jobs]
  /\ \A i \in invoices : /\ i.contract \in Contracts
                         /\ i = Invoice(i.contract, i.revision, i.number, i.content)
                         /\ {i.revision, i.number, i.content} \subseteq Nat
  /\ nextNumber \in Nat
  /\ reserved \subseteq Events
  /\ sent \in [Events -> Nat]
  /\ faults \in Nat

\* The invoices of a company are numbered without a gap and without a
\* duplicate, although two contracts may read the same next number.
NumbersAreConsecutive ==
  /\ {i.number : i \in invoices} = 1..(nextNumber - 1)
  /\ \A i, j \in invoices : i.number = j.number => i = j

\* A later revision of a contract's invoice shows more than an earlier one, so
\* the current invoice never goes back to an older state of the contract.
RevisionsAdvance ==
  \A i, j \in invoices :
    i.contract = j.contract /\ i.revision < j.revision => i.content < j.content

\* An event only the invoice is about is processed only once the current invoice
\* shows the change, whoever failed, crashed or was too slow.  No such thing holds
\* of an event both consumers take: the notifier marks it processed unseen.
Shown(e) == \E i \in Current(outbox[e].contract) : i.content >= outbox[e].content
ProcessedIsShown ==
  \A e \in Events : outbox[e].status = "PROCESSED" /\ outbox[e].kind = "invoice" => Shown(e)

\* A notification is sent once, although its event may be handled twice.
SentOnce == \A e \in Events : sent[e] <= 1

\* A change only the invoice is about is shown by it in the end, or its event
\* failed for good.
InvoiceCatchesUp ==
  []<>(\A e \in Events : outbox[e].status # "NONE" /\ outbox[e].kind = "invoice"
                           => Shown(e) \/ outbox[e].status = "FAILED")
=============================================================================
