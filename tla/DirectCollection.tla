--------------------------- MODULE DirectCollection ---------------------------
(***************************************************************************)
(* The direct collection of one road liability: a saved card charged off   *)
(* session, a payment link, cash, or a charge passed on to the contract,   *)
(* which compete for the same money.                                       *)
(*                                                                         *)
(* Every start holds the locks of the liability, so it is one action; the  *)
(* calls to Stripe happen outside transactions and may lose their answer.  *)
(* A webhook may be delivered at any time once Stripe decided, and again.  *)
(***************************************************************************)
EXTENDS Naturals

CONSTANTS
  MaxPayments,  \* bound on ContractPayment rows
  MaxLinks      \* bound on requests for a link at work at the same time

ASSUME CollectionConstants == MaxPayments \in Nat /\ MaxLinks \in Nat

Payments == 1..MaxPayments

VARIABLES
  cashOnly,     \* the contract's collection mode asks for cash
  settled,      \* RoadLiability.collectionStatus is SETTLED
  destination,  \* destination of the customer charge; NONE before it exists
  state,        \* its operationalState
  paidBy,       \* its contractPaymentId, or 0
  status,       \* ContractPayment.status
  reference,    \* ContractPayment.providerReference: the intent or the session
  call,         \* the off-session request that owns the payment
  intent,       \* its Stripe payment intent
  session,      \* its Stripe checkout session
  linking       \* link requests that prepared the charge, not yet the payment

charge == <<destination, state>>
books == <<settled, paidBy, status>>
stripe == <<intent, session>>
collectionVars == <<cashOnly, settled, destination, state, paidBy, status, reference,
                    call, intent, session, linking>>

ChargeState == {"NONE", "COLLECTIBLE", "PROCESSING", "REQUIRES_ACTION",
                "PAYMENT_LINK_READY", "FAILED", "PAID"}

-----------------------------------------------------------------------------
Confirmed == {p \in Payments : status[p] = "CONFIRMED"}

\* assertNoActiveRoadLiabilityPayment
NoActivePayment == \A p \in Payments : status[p] # "PROCESSING"

Fresh(p) == status[p] = "NONE" /\ \A q \in Payments : q < p => status[q] # "NONE"

\* assertChargeOpenForNewCollection: a failed collection may be tried again.
OpenForNewCollection(resumed) == state \in {"NONE", "COLLECTIBLE", "FAILED"} \union resumed

\* freezeDirectCharge: the first collection creates the charge.
freezeDirectCharge ==
  /\ ~settled
  /\ destination # "CONTRACT"
  /\ destination' = "DIRECT"

\* resolveRoadLiabilityWinningPayment
Winner(p) == (Confirmed \union {paidBy}) \ {0, p} # {}

\* confirmPaymentAttempt: markPaymentTerminal and applyDomainSettlement, or
\* markRoadLiabilityLateProviderConflict when another payment won.
confirmPaymentAttempt(p) ==
  \/ /\ ~Winner(p)
     /\ status' = [status EXCEPT ![p] = "CONFIRMED"]
     /\ settled' = TRUE
     /\ state' = "PAID"
     /\ paidBy' = p
  \/ /\ Winner(p)
     /\ status' = [status EXCEPT ![p] = IF @ = "CONFIRMED" THEN @ ELSE "FAILED"]
     /\ UNCHANGED <<settled, state, paidBy>>

-----------------------------------------------------------------------------
\* collectOffSession, first transaction.
collectOffSession(p) ==
  /\ ~cashOnly
  /\ freezeDirectCharge
  /\ OpenForNewCollection({})
  /\ NoActivePayment
  /\ Confirmed = {}
  /\ Fresh(p)
  /\ status' = [status EXCEPT ![p] = "PROCESSING"]
  /\ call' = [call EXCEPT ![p] = "calling"]
  /\ state' = "PROCESSING"
  /\ UNCHANGED <<cashOnly, settled, paidBy, reference, stripe, linking>>

\* createOffSessionPaymentIntent: Stripe decides at once or later, ...
createPaymentIntent(p, outcome) ==
  /\ call[p] = "calling"
  /\ intent' = [intent EXCEPT ![p] = outcome]
  /\ call' = [call EXCEPT ![p] = outcome]
  /\ UNCHANGED <<cashOnly, charge, books, reference, session, linking>>

\* ... a declined card is thrown, and a lost answer or a crash ends the request
\* with whatever Stripe did.
loseAnswer(p) ==
  /\ call[p] \notin {"none", "done"}
  /\ call' = [call EXCEPT ![p] = "done"]
  /\ \/ UNCHANGED intent
     \/ /\ call[p] = "calling"
        /\ intent' = [intent EXCEPT ![p] = "failed"]
  /\ UNCHANGED <<cashOnly, charge, books, reference, session, linking>>

\* collectOffSession, second transaction: the answer is written to the payment
\* and the charge as they are by now.
faultyRecordAnswer(p) ==
  /\ call[p] \in {"succeeded", "processing", "requires_action", "failed"}
  /\ reference' = [reference EXCEPT ![p] = IF @ = "none" THEN "intent" ELSE @]
  /\ call' = [call EXCEPT ![p] = IF @ = "succeeded" THEN "settling" ELSE "done"]
  /\ state' = CASE call[p] = "requires_action" -> "REQUIRES_ACTION"
                [] call[p] \in {"failed", "processing"} -> "FAILED"
                [] OTHER -> state
  /\ status' = IF call[p] \in {"failed", "processing"}
               THEN [status EXCEPT ![p] = "FAILED"] ELSE status
  /\ UNCHANGED <<cashOnly, settled, destination, paidBy, stripe, linking>>
faultyTrustAnswer(p) ==
  /\ call[p] \in {"succeeded", "processing", "requires_action", "failed"}
  /\ reference' = [reference EXCEPT ![p] = IF @ = "none" THEN "intent" ELSE @]
  /\ call' = [call EXCEPT ![p] = IF @ = "failed" THEN "done" ELSE "settling"]
  /\ status' = IF call[p] = "failed" THEN [status EXCEPT ![p] = "FAILED"] ELSE status
  /\ UNCHANGED <<cashOnly, settled, charge, paidBy, stripe, linking>>
recordAnswer(p) ==
  /\ call[p] \in {"succeeded", "processing", "requires_action", "failed"}
  /\ reference' = [reference EXCEPT ![p] = IF @ = "none" THEN "intent" ELSE @]
  /\ call' = [call EXCEPT ![p] = IF @ = "succeeded" THEN "settling" ELSE "done"]
  /\ state' = CASE call[p] = "requires_action" -> "REQUIRES_ACTION"
                [] call[p] = "failed" -> "FAILED"
                [] OTHER -> state
  /\ status' = IF call[p] = "failed" THEN [status EXCEPT ![p] = "FAILED"] ELSE status
  /\ UNCHANGED <<cashOnly, settled, destination, paidBy, stripe, linking>>

\* settlePaymentFromProvider, after a charge that succeeded at once.
settlePaymentFromProvider(p) ==
  /\ call[p] = "settling"
  /\ call' = [call EXCEPT ![p] = "done"]
  /\ \/ status[p] = "CONFIRMED" /\ UNCHANGED <<settled, state, paidBy, status>>
     \/ status[p] # "CONFIRMED" /\ confirmPaymentAttempt(p)
  /\ UNCHANGED <<cashOnly, destination, reference, stripe, linking>>

-----------------------------------------------------------------------------
\* createPaymentLink: the charge is prepared in one transaction ...
createPaymentLink ==
  /\ ~cashOnly
  /\ freezeDirectCharge
  /\ Confirmed = {}
  /\ OpenForNewCollection({"PAYMENT_LINK_READY"})
  /\ NoActivePayment
  /\ linking < MaxLinks
  /\ state' = "PAYMENT_LINK_READY"
  /\ linking' = linking + 1
  /\ UNCHANGED <<cashOnly, settled, paidBy, status, reference, call, stripe>>

\* ... and startPayment claims the payment in another: it refuses a settled
\* liability, keeps an active payment, or creates one.
startPayment ==
  /\ linking > 0
  /\ linking' = linking - 1
  /\ \/ /\ settled \/ Confirmed # {} \/ ~NoActivePayment
        /\ UNCHANGED status
     \/ /\ ~settled
        /\ Confirmed = {}
        /\ NoActivePayment
        /\ \E p \in Payments : Fresh(p) /\ status' = [status EXCEPT ![p] = "PROCESSING"]
  /\ UNCHANGED <<cashOnly, settled, paidBy, charge, reference, call, stripe>>

\* createCheckoutSession, and persistStripeCheckoutResult unless it is lost.
createCheckoutSession(p) ==
  /\ status[p] = "PROCESSING"
  /\ call[p] = "none"
  /\ reference[p] = "none"
  /\ session' = [session EXCEPT ![p] = IF @ = "none" THEN "open" ELSE @]
  /\ reference' \in {reference, [reference EXCEPT ![p] = "session"]}
  /\ UNCHANGED <<cashOnly, charge, books, call, intent, linking>>

\* confirmCashCollection and confirmTrustedPaymentInTx, one transaction.
confirmCashCollection(p) ==
  /\ cashOnly
  /\ freezeDirectCharge
  /\ Confirmed = {}
  /\ OpenForNewCollection({})
  /\ NoActivePayment
  /\ Fresh(p)
  /\ reference' = [reference EXCEPT ![p] = "cash"]
  /\ confirmPaymentAttempt(p)
  /\ UNCHANGED <<cashOnly, call, stripe, linking>>

-----------------------------------------------------------------------------
\* Stripe finishes an intent that was processing.
finishIntent(p, outcome) ==
  /\ intent[p] = "processing"
  /\ intent' = [intent EXCEPT ![p] = outcome]
  /\ UNCHANGED <<cashOnly, charge, books, reference, call, session, linking>>

\* The hirer pays on a page whose address was stored, or it expires.
finishSession(p, outcome) ==
  /\ session[p] = "open"
  /\ outcome = "paid" => reference[p] = "session"
  /\ session' = [session EXCEPT ![p] = outcome]
  /\ UNCHANGED <<cashOnly, charge, books, reference, call, intent, linking>>

\* applyInboxPaymentEvent: an event of the referenced object, or of the first
\* object heard of, reaches applyProviderStatusInTransaction.
faultyKnownReference(p, object) == reference[p] = object
KnownReference(p, object) == reference[p] \in {"none", object}

applyConfirmed(p, object) ==
  /\ KnownReference(p, object)
  /\ status[p] \notin {"NONE", "CONFIRMED"}
  /\ reference' = [reference EXCEPT ![p] = object]
  /\ \/ /\ status[p] \in {"CANCELLED", "FAILED"}
        /\ Confirmed \ {p} # {}
        /\ UNCHANGED <<settled, state, paidBy, status>>
     \/ /\ status[p] \in {"CANCELLED", "FAILED"} => Confirmed \ {p} = {}
        /\ confirmPaymentAttempt(p)
  /\ UNCHANGED <<cashOnly, destination, call, stripe, linking>>

\* A failed or expired payment ends; the state of the charge stays.
applyFailed(p, object, terminal) ==
  /\ KnownReference(p, object)
  /\ status[p] = "PROCESSING"
  /\ reference' = [reference EXCEPT ![p] = object]
  /\ status' = [status EXCEPT ![p] = terminal]
  /\ UNCHANGED <<cashOnly, settled, paidBy, charge, call, stripe, linking>>

paymentIntentSucceeded(p) == intent[p] = "succeeded" /\ applyConfirmed(p, "intent")
paymentIntentFailed(p) == intent[p] = "failed" /\ applyFailed(p, "intent", "FAILED")
checkoutCompleted(p) == session[p] = "paid" /\ applyConfirmed(p, "session")
checkoutExpired(p) == session[p] = "expired" /\ applyFailed(p, "session", "CANCELLED")

-----------------------------------------------------------------------------
\* confirmCharge: the liability goes to the reconciliation or a receivable ...
confirmCharge ==
  /\ ~settled
  /\ destination = "NONE"
  /\ destination' = "CONTRACT"
  /\ UNCHANGED <<cashOnly, books, state, reference, call, stripe, linking>>

\* ... and is settled with it.
settleWithContract ==
  /\ destination = "CONTRACT"
  /\ settled' = TRUE
  /\ UNCHANGED <<cashOnly, charge, paidBy, status, reference, call, stripe, linking>>

-----------------------------------------------------------------------------
CollectionInit ==
  /\ cashOnly \in BOOLEAN
  /\ settled = FALSE
  /\ destination = "NONE"
  /\ state = "NONE"
  /\ paidBy = 0
  /\ status = [p \in Payments |-> "NONE"]
  /\ reference = [p \in Payments |-> "none"]
  /\ call = [p \in Payments |-> "none"]
  /\ intent = [p \in Payments |-> "none"]
  /\ session = [p \in Payments |-> "none"]
  /\ linking = 0

OffSession(p) ==
  \/ collectOffSession(p)
  \/ \E outcome \in {"succeeded", "processing", "requires_action", "failed"} :
       createPaymentIntent(p, outcome)
  \/ loseAnswer(p)
  \/ recordAnswer(p)
  \/ settlePaymentFromProvider(p)

Stripe(p) ==
  \/ \E outcome \in {"succeeded", "failed"} : finishIntent(p, outcome)
  \/ \E outcome \in {"paid", "expired"} : finishSession(p, outcome)

Webhook(p) ==
  \/ paymentIntentSucceeded(p)
  \/ paymentIntentFailed(p)
  \/ checkoutCompleted(p)
  \/ checkoutExpired(p)

CollectionNext ==
  \/ \E p \in Payments :
       \/ OffSession(p)
       \/ createCheckoutSession(p)
       \/ confirmCashCollection(p)
       \/ Stripe(p)
       \/ Webhook(p)
  \/ createPaymentLink
  \/ startPayment
  \/ confirmCharge
  \/ settleWithContract

\* Stripe repeats a webhook, and the inbox worker an event, until it is applied.
CollectionFairness == \A p \in Payments : WF_collectionVars(Webhook(p))

CollectionSpec == CollectionInit /\ [][CollectionNext]_collectionVars /\ CollectionFairness

-----------------------------------------------------------------------------
CollectionTypeOK ==
  /\ cashOnly \in BOOLEAN /\ settled \in BOOLEAN
  /\ destination \in {"NONE", "DIRECT", "CONTRACT"}
  /\ state \in ChargeState
  /\ paidBy \in {0} \union Payments
  /\ status \in [Payments -> {"NONE", "PROCESSING", "CONFIRMED", "FAILED", "CANCELLED"}]
  /\ reference \in [Payments -> {"none", "intent", "session", "cash"}]
  /\ call \in [Payments -> {"none", "calling", "succeeded", "processing",
                            "requires_action", "failed", "settling", "done"}]
  /\ intent \in [Payments -> {"none", "succeeded", "processing", "requires_action", "failed"}]
  /\ session \in [Payments -> {"none", "open", "paid", "expired"}]
  /\ linking \in 0..MaxLinks

\* The money of a payment has left the hirer, recorded or not.
Collected(p) == intent[p] = "succeeded" \/ session[p] = "paid" \/ reference[p] = "cash"

\* The hirer pays a liability once: the saved card, the link and cash never
\* collect it twice, and none collects what was charged to the contract.
LiabilityCollectedOnce ==
  \A p \in Payments :
    Collected(p) => /\ destination = "DIRECT"
                    /\ \A q \in Payments : Collected(q) => p = q

\* A liability collected directly is settled by one confirmed payment, which is
\* the one whose money was taken.
SettledByItsPayment ==
  /\ settled /\ destination = "DIRECT" => paidBy \in Confirmed
  /\ \A p \in Confirmed : paidBy = p /\ settled /\ state = "PAID" /\ Collected(p)

\* Money that was taken settles the liability, whichever answer was lost.
CollectedMoneySettles ==
  []<>(\A p \in Payments : Collected(p) => settled /\ paidBy = p)
=============================================================================
