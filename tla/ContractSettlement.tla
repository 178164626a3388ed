-------------------------- MODULE ContractSettlement --------------------------
(***************************************************************************)
(* The end of one rental: renewals while it runs, the return, the final    *)
(* reconciliation with its lines, cash or card settlement, the close, and  *)
(* road liabilities charged before or after it.                            *)
(*                                                                         *)
(* An amount is the set of the items it adds up.  A handler that one lock  *)
(* covers is one action; a transaction that reads what its lock does not   *)
(* protect is a read and a write.  Stripe is called outside transactions.  *)
(* How a checkout session is created is RentalCheckout's concern: here one *)
(* request materialises each payment.                                      *)
(***************************************************************************)
EXTENDS Naturals

CONSTANTS
  Renewals,     \* ContractRenewal rows
  Free,         \* the renewals of amount 0
  Manual,       \* manual reconciliation lines
  Liabilities,  \* road liabilities attributed to the contract
  MaxPayments   \* bound on ContractPayment rows

ASSUME SettlementConstants ==
  /\ Free \subseteq Renewals
  /\ Renewals \intersect Manual = {}
  /\ Renewals \intersect Liabilities = {}
  /\ Manual \intersect Liabilities = {}
  /\ MaxPayments \in Nat

Payments == 1..MaxPayments
Items == Renewals \union Manual \union Liabilities

VARIABLES
  contract,    \* Contract.status
  renewal,     \* offered, approvedAt, appliedAt; DELETED once removed
  paidBy,      \* ContractRenewal.settledPaymentId, or 0
  link,        \* the renewal link: none or revoked, open, used
  lines,       \* reconciliation lines; finalAmount is their sum
  finalized,   \* ContractReconciliation.finalizedAt is set
  settled,     \* ContractReconciliation.settledAt is set
  collection,  \* RoadLiability.collectionStatus; NONE before it is attributed
  charge,      \* destination of the liability's customer charge
  pay,         \* ContractPayment
  session,     \* its Stripe session; CASH for a cash payment
  editing,     \* a line edit holds the reconcile lock and has checked the contract
  charging,    \* so has the charge of a liability
  cashier,     \* a cash settlement is prepared ...
  neutralized, \* ... for which these sessions were made unpayable
  office,      \* an office renewal has cleared the unapplied renewals' payments
  desk,        \* renewals whose cash transaction has checked the contract
  linking,     \* payments whose card settlement has read their renewals unpaid
  counting,    \* the cash settlement has read the outstanding renewals ...
  counted,     \* ... these
  contested    \* history: renewals that a settlement read unpaid while the desk
               \* was taking cash for them

terms == <<contract, renewal, paidBy, link>>
recon == <<lines, finalized, settled>>
road == <<collection, charge>>
cash == <<cashier, neutralized>>
reads == <<linking, counting, counted, contested>>
jobs == <<editing, charging, cash, office, desk, reads>>
vars == <<contract, renewal, paidBy, link, lines, finalized, settled, collection,
          charge, pay, session, editing, charging, cashier, neutralized, office, desk,
          linking, counting, counted, contested>>

ContractStatus == {"ACTIVE", "RETOUT", "REVIEW", "CLOSED"}
PaymentStatus == {"NONE", "PROCESSING", "CONFIRMED", "CANCELLED"}
Purpose == {"NONE", "RENEWAL", "RECONCILIATION", "POST_CLOSE_RECEIVABLE"}
Pay(status, purpose, items) == [status |-> status, purpose |-> purpose, items |-> items]
NoPay == Pay("NONE", "NONE", {})

-----------------------------------------------------------------------------
\* listOutstandingOfficeRenewals
Outstanding ==
  {r \in Renewals \ Free : renewal[r] = "applied" /\ paidBy[r] = 0}

\* buildFinalSettlementAllocations: the final amount and the office renewals.
Due == lines \union Outstanding

\* listPendingRoadLiabilities
Pending == {l \in Liabilities : collection[l] = "OPEN" /\ l \notin lines}

Purposed(purpose, S) ==
  {p \in Payments : pay[p].purpose = purpose
                    /\ (purpose = "RECONCILIATION" \/ pay[p].items = S)}
Active(purpose, S) == {p \in Purposed(purpose, S) : pay[p].status = "PROCESSING"}
Confirmed(purpose, S) == {p \in Purposed(purpose, S) : pay[p].status = "CONFIRMED"}

New(p) == pay[p] = NoPay /\ \A q \in Payments : pay[q] = NoPay => p <= q
\* Fault: Stripe's EXPIRED is stored instead of CANCELLED.
FaultyCancelled(S) == [p \in Payments |-> IF p \in S THEN [pay[p] EXCEPT !.status = "EXPIRED"]
                                          ELSE pay[p]]
Cancelled(S) == [p \in Payments |-> IF p \in S THEN [pay[p] EXCEPT !.status = "CANCELLED"]
                                    ELSE pay[p]]

Init ==
  /\ contract = "ACTIVE"
  /\ renewal = [r \in Renewals |-> "NONE"]
  /\ paidBy = [r \in Renewals |-> 0]
  /\ link = "none"
  /\ lines = {} /\ finalized = FALSE /\ settled = FALSE
  /\ collection = [l \in Liabilities |-> "NONE"]
  /\ charge = [l \in Liabilities |-> "none"]
  /\ pay = [p \in Payments |-> NoPay]
  /\ session = [p \in Payments |-> "none"]
  /\ editing = FALSE /\ charging = {}
  /\ cashier = FALSE /\ neutralized = {}
  /\ office = FALSE /\ desk = {}
  /\ linking = {} /\ counting = FALSE /\ counted = {} /\ contested = {}

-----------------------------------------------------------------------------
(* Renewals, the return and the car-in: transactions with the lifecycle    *)
(* lock, but for the car-in, which nothing else can move from RETOUT.      *)

\* generateLink RENEWAL: the offers nobody approved are deleted.
offerRenewal ==
  /\ contract = "ACTIVE"
  /\ \E r \in Renewals :
       /\ renewal[r] = "NONE"
       /\ renewal' = [q \in Renewals |-> IF q = r THEN "offered"
                                         ELSE IF renewal[q] = "offered" THEN "DELETED"
                                         ELSE renewal[q]]
  /\ link' = "open"
  /\ UNCHANGED <<contract, paidBy, recon, road, pay, session, jobs>>

\* confirmRenewalPublic: a free renewal is applied at once.
confirmRenewalPublic ==
  /\ contract = "ACTIVE"
  /\ link = "open"
  /\ \E r \in Renewals :
       /\ renewal[r] = "offered"
       /\ IF r \in Free
          THEN renewal' = [renewal EXCEPT ![r] = "applied"] /\ link' = "used"
          ELSE renewal' = [renewal EXCEPT ![r] = "approved"] /\ UNCHANGED link
  /\ UNCHANGED <<contract, paidBy, recon, road, pay, session, jobs>>

Unapplied == {r \in Renewals : renewal[r] \in {"offered", "approved"}}

\* prepareOfficeRenewalRegistration: a payment in flight for an unapplied
\* renewal is made unpayable and cancelled; one already paid refuses.  After
\* the return the registration that follows is refused, and left out.
prepareOfficeRenewalRegistration ==
  LET inFlight == UNION {Active("RENEWAL", {r}) : r \in Unapplied} IN
  /\ ~office
  /\ \A p \in inFlight : session[p] # "paid"
  /\ pay' = Cancelled(inFlight)
  /\ session' = [p \in Payments |->
                   IF p \in inFlight /\ session[p] = "open" THEN "expired" ELSE session[p]]
  /\ office' = (contract = "ACTIVE")
  /\ UNCHANGED <<terms, recon, road, editing, charging, cash, desk, reads>>

\* The renewal an office registers extends the rental at once and is owed.
RegisterRenewal ==
  /\ link' = IF link = "open" THEN "none" ELSE link
  /\ \E r \in Renewals :
       /\ renewal[r] = "NONE"
       /\ renewal' = [q \in Renewals |-> IF q = r THEN "applied"
                                         ELSE IF q \in Unapplied THEN "DELETED"
                                         ELSE renewal[q]]
  /\ office' = FALSE
  /\ UNCHANGED <<contract, paidBy, recon, road, pay, session, editing, charging, cash, desk, reads>>

\* Fault: the status was checked before the payments were cleared.
faultyRenew == office /\ RegisterRenewal

renew == office /\ contract = "ACTIVE" /\ RegisterRenewal

\* The renewal is refused: the vehicle is taken or the contract has moved on.
renewRefused ==
  /\ office
  /\ office' = FALSE
  /\ UNCHANGED <<terms, recon, road, pay, session, editing, charging, cash, desk, reads>>

confirmReturn ==
  /\ contract = "ACTIVE"
  /\ contract' = "RETOUT"
  /\ link' = IF link = "open" THEN "none" ELSE link
  /\ UNCHANGED <<renewal, paidBy, recon, road, pay, session, jobs>>

carIn ==
  /\ contract = "RETOUT"
  /\ contract' = "REVIEW"
  /\ UNCHANGED <<renewal, paidBy, link, recon, road, pay, session, jobs>>

-----------------------------------------------------------------------------
(* Lines and charges: under the reconcile lock, which no settlement takes. *)

Editable == contract = "REVIEW" /\ ~finalized /\ ~settled

editLinesRead ==
  /\ ~editing /\ charging = {}
  /\ Editable
  /\ editing' = TRUE
  /\ UNCHANGED <<terms, recon, road, pay, session, charging, cash, office, desk, reads>>

\* addReconciliationLine, updateReconciliationLine, deleteReconciliationLine and
\* reconcile leave the lines of liabilities alone.
editLinesWrite ==
  /\ editing
  /\ \E S \in SUBSET Manual : lines' = S \union (lines \intersect Liabilities)
  /\ editing' = FALSE
  /\ UNCHANGED <<terms, finalized, settled, road, pay, session, charging, cash, office, desk, reads>>

\* A provider's liability is attributed to the contract, whatever its status.
ingestLiability(l) ==
  /\ collection[l] = "NONE"
  /\ collection' = [collection EXCEPT ![l] = "OPEN"]
  /\ UNCHANGED <<terms, recon, charge, pay, session, jobs>>

Chargeable(l) == collection[l] = "OPEN" /\ charge[l] = "none"

chargeLineRead(l) ==
  /\ ~editing /\ charging = {}
  /\ Editable
  /\ Chargeable(l)
  /\ charging' = {l}
  /\ UNCHANGED <<terms, recon, road, pay, session, editing, cash, office, desk, reads>>

chargeLineWrite(l) ==
  /\ l \in charging
  /\ charge' = [charge EXCEPT ![l] = "line"]
  /\ lines' = lines \union {l}
  /\ charging' = {}
  /\ UNCHANGED <<terms, finalized, settled, collection, pay, session, editing, cash, office, desk, reads>>

chargeReceivable(l) ==
  /\ contract = "CLOSED"
  /\ ~editing /\ charging = {}
  /\ Chargeable(l)
  /\ charge' = [charge EXCEPT ![l] = "receivable"]
  /\ UNCHANGED <<terms, recon, collection, pay, session, jobs>>

-----------------------------------------------------------------------------
(* Card payments.                                                          *)

\* startPayment under the payment lock, for an obligation that no payment has
\* settled and none is in flight for.
Claim(purpose, S) ==
  /\ Active(purpose, S) = {} /\ Confirmed(purpose, S) = {}
  /\ \E p \in Payments : New(p) /\ pay' = [pay EXCEPT ![p] = Pay("PROCESSING", purpose, S)]
  /\ UNCHANGED <<terms, recon, road, session, jobs>>

startRenewalPaymentPublic(r) ==
  /\ link # "none"
  /\ contract = "ACTIVE"
  /\ renewal[r] = "approved"
  /\ Claim("RENEWAL", {r})

\* startReconciliationPayment of the staff and of the public link.
startReconciliationPayment ==
  /\ contract = "REVIEW"
  /\ finalized /\ ~settled
  /\ Due # {}
  /\ Claim("RECONCILIATION", Due)

startPostClosePayment(l) ==
  /\ charge[l] = "receivable"
  /\ collection[l] = "OPEN"
  /\ Claim("POST_CLOSE_RECEIVABLE", {l})

\* The session of a payment that is no longer in flight is expired unseen.
createCheckoutSession(p) ==
  /\ pay[p].status \in {"PROCESSING", "CANCELLED"}
  /\ session[p] = "none"
  /\ session' = [session EXCEPT ![p] = IF pay[p].status = "PROCESSING" THEN "made" ELSE "expired"]
  /\ UNCHANGED <<terms, recon, road, pay, jobs>>

\* The rest of persistStripeCheckoutResult: whatever the payment has become.
storeCheckoutSession(p) ==
  /\ session[p] = "made"
  /\ session' = [session EXCEPT ![p] = "open"]
  /\ pay' = [pay EXCEPT ![p].status = "PROCESSING"]
  /\ UNCHANGED <<terms, recon, road, jobs>>

\* At Stripe.
customerPays(p) ==
  /\ session[p] = "open"
  /\ session' = [session EXCEPT ![p] = "paid"]
  /\ UNCHANGED <<terms, recon, road, pay, jobs>>

sessionExpires(p) ==
  /\ session[p] = "open"
  /\ session' = [session EXCEPT ![p] = "expired"]
  /\ UNCHANGED <<terms, recon, road, pay, jobs>>

-----------------------------------------------------------------------------
(* Settlement: a payment that counts as confirmed and what it settles.     *)

Confirm(p, purpose, S) ==
  /\ \A q \in Purposed(purpose, S) \ {p} : pay[q].status # "CONFIRMED"
  /\ pay' = [pay EXCEPT ![p] = Pay("CONFIRMED", purpose, S)]

\* linkRenewalSettlementInTx: a renewal that another payment settled is refused,
\* but it is read without a lock and updated by id, and the column has no unique
\* index: what counts is what the transaction has read.
Linkable(p, R) == \A r \in R : paidBy[r] \in {0, p}
LinkRenewals(p, R) ==
  paidBy' = [r \in Renewals |-> IF r \in R THEN p ELSE paidBy[r]]

\* Fault: the renewals are checked as they were before the payment.
FaultyCloseContract ==
  /\ finalized'
  /\ lines = {} \/ settled'
  /\ Outstanding = {}
  /\ contract' = "CLOSED"

\* finalizeReconciliationAndCloseInTx, after the renewals were linked.
CloseContract ==
  /\ finalized'
  /\ lines = {} \/ settled'
  /\ \A r \in Outstanding : paidBy'[r] # 0
  /\ contract' = "CLOSED"

\* applyCombinedFinalSettlementInTx; a closed contract stays as it is.
SettleReconciliation(p, S) ==
  /\ Confirm(p, "RECONCILIATION", S)
  /\ UNCHANGED finalized
  /\ settled' = TRUE
  /\ collection' = [l \in Liabilities |->
                      IF l \in lines /\ ~settled THEN "SETTLED" ELSE collection[l]]
  /\ LinkRenewals(p, S \intersect Renewals)
  /\ \/ contract = "CLOSED" /\ UNCHANGED contract
     \/ contract = "REVIEW" /\ CloseContract
  /\ UNCHANGED <<renewal, link, lines, charge>>

\* A settlement that reads R unpaid while the desk takes cash for some of it.
Contest(R) == contested' = contested \union (R \intersect desk)

\* Fault: a renewal settled meanwhile is linked again.
faultyConfirmReconciliationRead(p) ==
  /\ p \notin linking
  /\ session[p] = "paid" /\ pay[p].status # "CONFIRMED"
  /\ pay[p].purpose = "RECONCILIATION"
  /\ linking' = linking \union {p}
  /\ Contest(pay[p].items)
  /\ UNCHANGED <<terms, recon, road, pay, session, editing, charging, cash, office, desk,
                 counting, counted>>

\* applyProviderStatusInTransaction, for a paid session: webhook, poll, or a
\* request that found the session expired or paid.  It reads the renewals ...
confirmReconciliationRead(p) ==
  /\ p \notin linking
  /\ session[p] = "paid" /\ pay[p].status # "CONFIRMED"
  /\ pay[p].purpose = "RECONCILIATION"
  /\ Linkable(p, pay[p].items \intersect Renewals)
  /\ linking' = linking \union {p}
  /\ Contest(pay[p].items)
  /\ UNCHANGED <<terms, recon, road, pay, session, editing, charging, cash, office, desk,
                 counting, counted>>

\* ... and links them, whatever they have become.  Nothing it checked can
\* fail by now: cash and other sessions collect nothing beside a paid one, and a
\* returned contract takes no renewal.
confirmReconciliationWrite(p) ==
  /\ p \in linking
  /\ linking' = linking \ {p}
  /\ SettleReconciliation(p, pay[p].items)
  /\ UNCHANGED <<session, editing, charging, cash, office, desk, counting, counted, contested>>

\* Fault: the renewal is applied whatever the contract has become.
faultyConfirmRenewal(p) ==
  /\ session[p] = "paid" /\ pay[p].status # "CONFIRMED"
  /\ \E r \in Renewals :
       /\ pay[p].purpose = "RENEWAL" /\ pay[p].items = {r}
       /\ Confirm(p, "RENEWAL", {r})
       /\ renewal[r] \in {"approved", "applied"}
       /\ renewal' = [renewal EXCEPT ![r] = "applied"]
       /\ Linkable(p, {r}) /\ LinkRenewals(p, {r})
       /\ link' = IF link = "open" THEN "used" ELSE link
  /\ UNCHANGED <<contract, recon, road, session, jobs>>

\* settleRenewalFromPaymentInTx: a renewal paid after the return is confirmed
\* and not applied.
confirmRenewal(p) ==
  /\ session[p] = "paid" /\ pay[p].status # "CONFIRMED"
  /\ \E r \in Renewals :
       /\ pay[p].purpose = "RENEWAL" /\ pay[p].items = {r}
       /\ Confirm(p, "RENEWAL", {r})
       /\ \/ /\ renewal[r] = "approved" /\ contract = "ACTIVE"
             /\ renewal' = [renewal EXCEPT ![r] = "applied"]
             /\ Linkable(p, {r}) /\ LinkRenewals(p, {r})
             /\ link' = IF link = "open" THEN "used" ELSE link
          \/ /\ renewal[r] = "approved" /\ contract # "ACTIVE"
             /\ UNCHANGED <<renewal, paidBy, link>>
  /\ UNCHANGED <<contract, recon, road, session, jobs>>

confirmReceivable(p) ==
  /\ session[p] = "paid" /\ pay[p].status # "CONFIRMED"
  /\ \E l \in Liabilities :
       /\ pay[p].purpose = "POST_CLOSE_RECEIVABLE" /\ pay[p].items = {l}
       /\ Confirm(p, "POST_CLOSE_RECEIVABLE", {l})
       /\ collection' = [collection EXCEPT ![l] = "SETTLED"]
  /\ UNCHANGED <<terms, recon, charge, session, jobs>>

\* The session's expiry is applied to a payment in flight.
cancelExpired(p) ==
  /\ session[p] = "expired" /\ pay[p].status = "PROCESSING"
  /\ pay' = Cancelled({p})
  /\ UNCHANGED <<terms, recon, road, session, jobs>>

-----------------------------------------------------------------------------
(* Finalising, cash and the close: none of them takes the reconcile lock.  *)

\* ensureReconciliationFinalizedInTx, of finalizeReconciliation,
\* generateReconciliationLink and startReconciliationPayment.
ensureReconciliationFinalized ==
  /\ contract = "REVIEW"
  /\ ~finalized
  /\ Pending = {}
  /\ Due # {}
  /\ finalized' = TRUE
  /\ UNCHANGED <<terms, lines, settled, road, pay, session, jobs>>

\* finalizeReconciliation when nothing is due.
settleReconciliationWithoutPayment ==
  /\ contract = "REVIEW"
  /\ finalized \/ Pending = {}
  /\ Due = {}
  /\ finalized' = TRUE
  /\ settled' = TRUE
  /\ UNCHANGED paidBy
  /\ CloseContract
  /\ UNCHANGED <<renewal, link, lines, road, pay, session, jobs>>

close ==
  /\ contract = "REVIEW"
  /\ UNCHANGED <<recon, paidBy>>
  /\ CloseContract
  /\ UNCHANGED <<renewal, link, road, pay, session, jobs>>

InFlight == Active("RECONCILIATION", {})

\* prepareReconciliationCashCollection: the sessions of payments in flight are
\* made unpayable at Stripe; one that was paid is settled instead.
prepareReconciliationCashCollection ==
  LET known == {p \in InFlight : session[p] \in {"open", "expired"}} IN
  /\ ~cashier
  /\ contract = "REVIEW" /\ ~settled
  /\ Pending = {}
  /\ Due # {}
  /\ \A p \in InFlight : session[p] # "paid"
  /\ cashier' = TRUE
  /\ neutralized' = known
  /\ session' = [p \in Payments |-> IF p \in known THEN "expired" ELSE session[p]]
  /\ UNCHANGED <<terms, recon, road, pay, editing, charging, office, desk, reads>>

\* settleReconciliationCashInTx reads the outstanding renewals ...
settleReconciliationCashRead ==
  /\ cashier /\ ~counting
  /\ counting' = TRUE
  /\ counted' = Outstanding
  /\ Contest(Outstanding)
  /\ UNCHANGED <<terms, recon, road, pay, session, editing, charging, cash, office, desk,
                 linking>>

\* ... and the cash payment replaces the card payments in flight and settles.
TakeCash(p) ==
  /\ New(p)
  /\ pay' = [Cancelled(InFlight) EXCEPT
               ![p] = Pay("CONFIRMED", "RECONCILIATION", lines \union counted)]
  /\ session' = [session EXCEPT ![p] = "CASH"]
  /\ finalized' = TRUE
  /\ settled' = TRUE
  /\ collection' = [l \in Liabilities |-> IF l \in lines THEN "SETTLED" ELSE collection[l]]
  /\ LinkRenewals(p, counted)
  /\ CloseContract
  /\ cashier' = FALSE /\ neutralized' = {}
  /\ counting' = FALSE /\ counted' = {}
  /\ UNCHANGED <<renewal, link, lines, charge, editing, charging, office, desk, linking, contested>>

Collectable(R) ==
  /\ contract = "REVIEW" /\ ~settled
  /\ Pending = {}
  /\ lines \union R # {}
  /\ Confirmed("RECONCILIATION", {}) = {}

\* Fault: a payment started since the preparation is not noticed.
faultySettleReconciliationCashWrite ==
  /\ counting
  /\ Collectable(counted)
  /\ \E p \in Payments : TakeCash(p)

\* Every card payment in flight must have been made unpayable, and none may be
\* waiting for its session.
settleReconciliationCashWrite ==
  /\ counting
  /\ Collectable(counted)
  /\ InFlight \subseteq neutralized
  /\ \E p \in Payments : TakeCash(p)

\* The cash is refused, or there is nothing left to collect.
cashRefused ==
  /\ cashier
  /\ ~(Collectable(IF counting THEN counted ELSE Outstanding) /\ InFlight \subseteq neutralized)
  /\ cashier' = FALSE /\ neutralized' = {}
  /\ counting' = FALSE /\ counted' = {}
  /\ UNCHANGED <<terms, recon, road, pay, session, editing, charging, office, desk, linking,
                 contested>>

-----------------------------------------------------------------------------
(* Cash for an office renewal before the review.                           *)

settleRenewalCashRead(r) ==
  /\ r \notin desk
  /\ r \in Outstanding
  /\ contract \in {"ACTIVE", "RETOUT"}
  /\ desk' = desk \union {r}
  /\ UNCHANGED <<terms, recon, road, pay, session, editing, charging, cash, office, reads>>

\* confirmPaymentAttempt: the transaction looks at the renewal again before it
\* links it by id, but no lock keeps a settlement from committing after that look.
settleRenewalCashWrite(r) ==
  /\ r \in desk
  /\ desk' = desk \ {r}
  /\ \/ \E p \in Payments :
          /\ New(p)
          /\ Confirm(p, "RENEWAL", {r})
          /\ LinkRenewals(p, {r})
          /\ session' = [session EXCEPT ![p] = "CASH"]
     \/ paidBy[r] # 0 /\ UNCHANGED <<pay, session, paidBy>>
  /\ UNCHANGED <<contract, renewal, link, recon, road, editing, charging, cash, office, reads>>

-----------------------------------------------------------------------------
Renewing ==
  \/ offerRenewal
  \/ confirmRenewalPublic
  \/ prepareOfficeRenewalRegistration
  \/ renew
  \/ renewRefused
  \/ \E r \in Renewals : settleRenewalCashRead(r) \/ settleRenewalCashWrite(r)

Reconciling ==
  \/ confirmReturn
  \/ carIn
  \/ editLinesRead
  \/ editLinesWrite
  \/ \E l \in Liabilities :
       ingestLiability(l) \/ chargeLineRead(l) \/ chargeLineWrite(l) \/ chargeReceivable(l)
  \/ ensureReconciliationFinalized
  \/ settleReconciliationWithoutPayment
  \/ close
  \/ prepareReconciliationCashCollection
  \/ settleReconciliationCashRead
  \/ settleReconciliationCashWrite
  \/ cashRefused

Starting ==
  \/ \E r \in Renewals : startRenewalPaymentPublic(r)
  \/ startReconciliationPayment
  \/ \E l \in Liabilities : startPostClosePayment(l)

Card(p) ==
  \/ createCheckoutSession(p)
  \/ storeCheckoutSession(p)
  \/ customerPays(p)
  \/ sessionExpires(p)
  \/ confirmReconciliationRead(p)
  \/ confirmReconciliationWrite(p)
  \/ confirmRenewal(p)
  \/ confirmReceivable(p)
  \/ cancelExpired(p)

Next == Renewing \/ Reconciling \/ Starting \/ \E p \in Payments : Card(p)

\* The inbox worker retries an event, and a status page polls the provider.
Fairness ==
  \A p \in Payments :
    WF_vars(confirmReconciliationRead(p)) /\ WF_vars(confirmReconciliationWrite(p))

Spec == Init /\ [][Next]_vars /\ Fairness

-----------------------------------------------------------------------------
TypeOK ==
  /\ contract \in ContractStatus
  /\ renewal \in [Renewals -> {"NONE", "offered", "approved", "applied", "DELETED"}]
  /\ paidBy \in [Renewals -> {0} \union Payments]
  /\ link \in {"none", "open", "used"}
  /\ lines \subseteq Manual \union Liabilities
  /\ finalized \in BOOLEAN /\ settled \in BOOLEAN
  /\ collection \in [Liabilities -> {"NONE", "OPEN", "SETTLED"}]
  /\ charge \in [Liabilities -> {"none", "line", "receivable"}]
  /\ pay \in [Payments -> [status : PaymentStatus, purpose : Purpose, items : SUBSET Items]]
  /\ session \in [Payments -> {"none", "made", "open", "paid", "expired", "CASH"}]
  /\ editing \in BOOLEAN /\ charging \subseteq Liabilities
  /\ cashier \in BOOLEAN /\ neutralized \subseteq Payments
  /\ office \in BOOLEAN /\ desk \subseteq Renewals
  /\ linking \subseteq Payments
  /\ counting \in BOOLEAN /\ counted \subseteq Renewals
  /\ contested \subseteq Renewals

\* An item is in one confirmed payment only: an office renewal collected in
\* cash at the return is collected again with the final settlement only where
\* the desk's transaction was still open when the settlement read the renewal.
ConfirmedOnce ==
  \A p, q \in Payments :
    p # q /\ pay[p].status = "CONFIRMED" /\ pay[q].status = "CONFIRMED"
      => pay[p].items \intersect pay[q].items \subseteq contested

\* The hirer's money is taken once for the reconciliation: cash and a card
\* session, or two sessions, never both collect it, recorded or not.
ReconciliationCollectedOnce ==
  \A p, q \in Payments :
    /\ pay[p].purpose = "RECONCILIATION" /\ session[p] \in {"paid", "CASH"}
    /\ pay[q].purpose = "RECONCILIATION" /\ session[q] \in {"paid", "CASH"}
    => p = q

\* A contract closes with every priced renewal that extended it paid.
ClosedOwesNoRenewal == contract = "CLOSED" => Outstanding = {}

Phase == [ACTIVE |-> "running", RETOUT |-> "returned", REVIEW |-> "returned",
          CLOSED |-> "closed"]
ConfirmedFor(i) == {p \in Payments : pay[p].status = "CONFIRMED" /\ i \in pay[p].items}

\* The history variable makes the refinement possible: a contest is a step of
\* its own there.
Account == INSTANCE SettledOnce WITH
  phase <- Phase[contract],
  extended <- {r \in Renewals : renewal[r] = "applied"},
  payers <- [i \in Items |-> ConfirmedFor(i)]

\* Cash, cards, late webhooks and the close keep the promise of SettledOnce.
SettlesOnce == Account!Spec

\* Money a card session collected for the reconciliation closes the contract,
\* unless cash was taken meanwhile for a renewal it includes.
CollectedReconciliationCloses ==
  \A p \in Payments :
    session[p] = "paid" /\ pay[p].purpose = "RECONCILIATION"
      ~> \/ contract = "CLOSED"
         \/ \E r \in Renewals \intersect pay[p].items : paidBy[r] \notin {0, p}
=============================================================================
