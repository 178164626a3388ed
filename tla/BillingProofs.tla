----------------------------- MODULE BillingProofs -----------------------------
(***************************************************************************)
(* A road liability is collected once and settled by the payment whose      *)
(* money was taken; and the invoices of the company are numbered without a  *)
(* gap, advance with their contract, and show every event that was          *)
(* processed: for any number of payments, link requests, contracts, events  *)
(* and workers, and however many of them crash or outlive their lock.       *)
(***************************************************************************)
EXTENDS DirectCollection, InvoiceOutbox, TLAPS

\* A payment has one way to be paid: off session, by link or in cash.
OneWay(p) ==
  /\ status[p] = "NONE" => call[p] = "none" /\ session[p] = "none" /\ reference[p] = "none"
  /\ call[p] = "none" => intent[p] = "none"
  /\ call[p] # "none" => session[p] = "none"
  /\ reference[p] = "session" => session[p] # "none"
  /\ reference[p] = "intent" => call[p] # "none"
  /\ reference[p] = "cash" => call[p] = "none" /\ session[p] = "none" /\ status[p] = "CONFIRMED"

\* What the off-session request knows of its payment and the charge.
CallHolds(p) ==
  /\ call[p] = "calling" => intent[p] = "none" /\ status[p] = "PROCESSING"
  /\ call[p] \in {"calling", "failed", "requires_action"} => state = "PROCESSING"
  /\ call[p] \in {"succeeded", "failed", "requires_action"} => intent[p] = call[p]
  /\ call[p] = "processing" => intent[p] \in {"processing", "succeeded", "failed"}
  /\ call[p] = "settling" => intent[p] = "succeeded"
  /\ call[p] \notin {"none", "done"} => state \in {"PROCESSING", "PAID"}

\* A payment that ended took no money; one in flight or confirmed is the only.
PaymentHolds(p) ==
  /\ status[p] # "NONE" => destination = "DIRECT"
  /\ status[p] = "FAILED" => intent[p] = "failed"
  /\ status[p] = "CANCELLED" => session[p] = "expired"
  /\ status[p] = "CONFIRMED" => Collected(p) /\ paidBy = p /\ settled /\ state = "PAID"
  /\ Collected(p) => status[p] \in {"PROCESSING", "CONFIRMED"}
  /\ session[p] = "paid" => reference[p] = "session"

Open(p) == status[p] \in {"PROCESSING", "CONFIRMED"}
Busy(p) == call[p] \notin {"none", "done"}

CollectionInvariant ==
  /\ CollectionTypeOK
  /\ \A p \in Payments : OneWay(p) /\ CallHolds(p) /\ PaymentHolds(p)
  /\ \A p, q \in Payments : Open(p) /\ Open(q) => p = q
  /\ \A p, q \in Payments : Busy(p) /\ (Busy(q) \/ Open(q)) => p = q
  /\ state = "PAID" => paidBy # 0
  /\ linking > 0 => state \in {"PAYMENT_LINK_READY", "PAID"} /\ destination = "DIRECT"
  /\ settled /\ destination = "DIRECT" => paidBy \in Confirmed
  /\ paidBy # 0 => paidBy \in Confirmed

-----------------------------------------------------------------------------
\* 0 stands for no payment.
LEMMA PaymentIds == Payments \subseteq Nat /\ 0 \notin Payments
  BY CollectionConstants DEF Payments

\* A payment whose money was taken has no rival.
LEMMA CollectedWins ==
  ASSUME CollectionInvariant, NEW p \in Payments, Collected(p)
  PROVE  Open(p) /\ ~Winner(p) /\ Confirmed \subseteq {p}
  <1>1. Open(p)
    BY DEF CollectionInvariant, PaymentHolds, Open
  <1>2. Confirmed \subseteq {p}
    BY <1>1 DEF CollectionInvariant, Confirmed, Open
  <1>3. paidBy \in {0, p}
    BY <1>2 DEF CollectionInvariant
  <1> QED
    BY <1>1, <1>2, <1>3 DEF Winner

\* collectOffSession writes its payment row under the charge lock ...
LEMMA CollectOffSessionKeeps ==
  ASSUME CollectionInvariant, NEW p \in Payments, collectOffSession(p)
  PROVE  CollectionInvariant'
  <1> USE PaymentIds DEF CollectionInvariant, CollectionTypeOK, Confirmed, collectOffSession, freezeDirectCharge, OpenForNewCollection, NoActivePayment, Fresh, stripe
  <1>1. CollectionTypeOK'
    BY CollectionConstants DEF ChargeState
  <1>2. \A q \in Payments : OneWay(q)'
    BY DEF OneWay
  <1>3. \A q \in Payments : CallHolds(q)'
    BY DEF OneWay, CallHolds
  <1>4. \A q \in Payments : PaymentHolds(q)'
    BY DEF PaymentHolds, Collected
  <1>5. \A q, r \in Payments : Open(q)' /\ Open(r)' => q = r
    BY DEF Open
  <1>6. /\ \A q, r \in Payments : Busy(q)' /\ (Busy(r)' \/ Open(r)') => q = r
        /\ state' = "PAID" => paidBy' # 0
    BY DEF CallHolds, Open, Busy
  <1>7. (linking > 0 => state \in {"PAYMENT_LINK_READY", "PAID"} /\ destination = "DIRECT")'
    BY DEF Busy
  <1>8. /\ (settled /\ destination = "DIRECT" => paidBy \in Confirmed)'
        /\ (paidBy # 0 => paidBy \in Confirmed)'
    BY DEF Open
  <1> QED
    BY <1>1, <1>2, <1>3, <1>4, <1>5, <1>6, <1>7, <1>8

\* ... then Stripe takes the call,
LEMMA CreatePaymentIntentKeeps ==
  ASSUME CollectionInvariant, NEW p \in Payments,
         NEW outcome \in {"succeeded", "processing", "requires_action", "failed"},
         createPaymentIntent(p, outcome)
  PROVE  CollectionInvariant'
  <1> USE PaymentIds DEF CollectionInvariant, CollectionTypeOK, Confirmed, createPaymentIntent, charge, books
  <1>1. CollectionTypeOK'
    BY CollectionConstants DEF ChargeState
  <1>2. \A q \in Payments : OneWay(q)'
    BY DEF OneWay
  <1>3. \A q \in Payments : CallHolds(q)'
    BY DEF CallHolds
  <1>4. \A q \in Payments : PaymentHolds(q)'
    BY DEF CallHolds, PaymentHolds, Collected
  <1>5. \A q, r \in Payments : Open(q)' /\ Open(r)' => q = r
    BY DEF Open
  <1>6. /\ \A q, r \in Payments : Busy(q)' /\ (Busy(r)' \/ Open(r)') => q = r
        /\ state' = "PAID" => paidBy' # 0
    BY DEF Open, Busy
  <1>7. (linking > 0 => state \in {"PAYMENT_LINK_READY", "PAID"} /\ destination = "DIRECT")'
    BY DEF Busy
  <1>8. /\ (settled /\ destination = "DIRECT" => paidBy \in Confirmed)'
        /\ (paidBy # 0 => paidBy \in Confirmed)'
    BY DEF Open
  <1> QED
    BY <1>1, <1>2, <1>3, <1>4, <1>5, <1>6, <1>7, <1>8

\* whose answer may be lost,
LEMMA LoseAnswerKeeps ==
  ASSUME CollectionInvariant, NEW p \in Payments, loseAnswer(p)
  PROVE  CollectionInvariant'
  <1> USE PaymentIds DEF CollectionInvariant, CollectionTypeOK, Confirmed, loseAnswer, charge, books
  <1>1. CollectionTypeOK'
    BY CollectionConstants DEF ChargeState
  <1>2. \A q \in Payments : OneWay(q)'
    BY DEF OneWay
  <1>3. \A q \in Payments : CallHolds(q)'
    BY DEF CallHolds
  <1>4. \A q \in Payments : PaymentHolds(q)'
    BY DEF CallHolds, PaymentHolds, Collected
  <1>5. \A q, r \in Payments : Open(q)' /\ Open(r)' => q = r
    BY DEF Open
  <1>6. /\ \A q, r \in Payments : Busy(q)' /\ (Busy(r)' \/ Open(r)') => q = r
        /\ state' = "PAID" => paidBy' # 0
    BY DEF Busy
  <1>7. (linking > 0 => state \in {"PAYMENT_LINK_READY", "PAID"} /\ destination = "DIRECT")'
    BY DEF Busy
  <1>8. /\ (settled /\ destination = "DIRECT" => paidBy \in Confirmed)'
        /\ (paidBy # 0 => paidBy \in Confirmed)'
    BY DEF Open
  <1> QED
    BY <1>1, <1>2, <1>3, <1>4, <1>5, <1>6, <1>7, <1>8

\* or recorded,
LEMMA RecordAnswerKeeps ==
  ASSUME CollectionInvariant, NEW p \in Payments, recordAnswer(p)
  PROVE  CollectionInvariant'
  <1> USE PaymentIds DEF CollectionInvariant, CollectionTypeOK, Confirmed, recordAnswer, stripe
  <1>1. CollectionTypeOK'
    BY CollectionConstants DEF ChargeState
  <1>2. \A q \in Payments : OneWay(q)'
    BY DEF OneWay
  <1>3. \A q \in Payments : CallHolds(q)'
    BY DEF CallHolds, Busy
  <1>4. \A q \in Payments : PaymentHolds(q)'
    BY DEF OneWay, CallHolds, PaymentHolds, Collected
  <1>5. \A q, r \in Payments : Open(q)' /\ Open(r)' => q = r
    BY DEF Open
  <1>6. /\ \A q, r \in Payments : Busy(q)' /\ (Busy(r)' \/ Open(r)') => q = r
        /\ state' = "PAID" => paidBy' # 0
    BY DEF Open, Busy
  <1>7. (linking > 0 => state \in {"PAYMENT_LINK_READY", "PAID"} /\ destination = "DIRECT")'
    BY DEF CallHolds
  <1>8. /\ (settled /\ destination = "DIRECT" => paidBy \in Confirmed)'
        /\ (paidBy # 0 => paidBy \in Confirmed)'
    BY DEF CallHolds, PaymentHolds
  <1> QED
    BY <1>1, <1>2, <1>3, <1>4, <1>5, <1>6, <1>7, <1>8

\* and settles the charge.
LEMMA SettleFromProviderKeeps ==
  ASSUME CollectionInvariant, NEW p \in Payments, settlePaymentFromProvider(p)
  PROVE  CollectionInvariant'
  <1> USE PaymentIds DEF CollectionInvariant, CollectionTypeOK, Confirmed,
                         settlePaymentFromProvider, stripe
  <1>1. Collected(p) /\ Open(p) /\ Confirmed \subseteq {p}
    BY CollectedWins DEF CallHolds, Collected
  <1>2. \/ status[p] = "CONFIRMED" /\ UNCHANGED <<settled, state, paidBy, status>>
        \/ /\ status' = [status EXCEPT ![p] = "CONFIRMED"]
           /\ settled' = TRUE /\ state' = "PAID" /\ paidBy' = p
    BY <1>1, CollectedWins DEF confirmPaymentAttempt
  <1>3. CollectionTypeOK'
    BY <1>1, <1>2, CollectionConstants DEF ChargeState
  <1>4. \A q \in Payments : OneWay(q)'
    BY <1>1, <1>2 DEF OneWay, Open, PaymentHolds
  <1>5. \A q \in Payments : CallHolds(q)'
    BY <1>1, <1>2 DEF CallHolds, Busy
  <1>6. \A q \in Payments : PaymentHolds(q)'
    BY <1>1, <1>2 DEF PaymentHolds, Collected, Open
  <1>7. \A q, r \in Payments : Open(q)' /\ Open(r)' => q = r
    BY <1>1, <1>2 DEF Open
  <1>8. /\ \A q, r \in Payments : Busy(q)' /\ (Busy(r)' \/ Open(r)') => q = r
        /\ state' = "PAID" => paidBy' # 0
    BY <1>1, <1>2 DEF Open, Busy
  <1>9. (linking > 0 => state \in {"PAYMENT_LINK_READY", "PAID"} /\ destination = "DIRECT")'
    BY <1>2
  <1>10. /\ (settled /\ destination = "DIRECT" => paidBy \in Confirmed)'
         /\ (paidBy # 0 => paidBy \in Confirmed)'
    BY <1>1, <1>2
  <1> QED
    BY <1>3, <1>4, <1>5, <1>6, <1>7, <1>8, <1>9, <1>10

\* A link makes the charge direct, unless a payment is under way.
LEMMA CreatePaymentLinkKeeps ==
  ASSUME CollectionInvariant, createPaymentLink
  PROVE  CollectionInvariant'
  <1> USE PaymentIds DEF CollectionInvariant, CollectionTypeOK, Confirmed, createPaymentLink, freezeDirectCharge, OpenForNewCollection, NoActivePayment, stripe
  <1>1. CollectionTypeOK'
    BY CollectionConstants DEF ChargeState
  <1>2. \A q \in Payments : OneWay(q)'
    BY DEF OneWay
  <1>3. \A q \in Payments : CallHolds(q)'
    BY DEF CallHolds
  <1>4. \A q \in Payments : PaymentHolds(q)'
    BY DEF PaymentHolds, Collected
  <1>5. \A q, r \in Payments : Open(q)' /\ Open(r)' => q = r
    BY DEF Open
  <1>6. /\ \A q, r \in Payments : Busy(q)' /\ (Busy(r)' \/ Open(r)') => q = r
        /\ state' = "PAID" => paidBy' # 0
    BY DEF Open, Busy
  <1>7. (linking > 0 => state \in {"PAYMENT_LINK_READY", "PAID"} /\ destination = "DIRECT")'
    BY DEF Busy
  <1>8. /\ (settled /\ destination = "DIRECT" => paidBy \in Confirmed)'
        /\ (paidBy # 0 => paidBy \in Confirmed)'
    BY DEF Open
  <1> QED
    BY <1>1, <1>2, <1>3, <1>4, <1>5, <1>6, <1>7, <1>8

\* The customer opens the link: another payment row ...
LEMMA StartPaymentKeeps ==
  ASSUME CollectionInvariant, startPayment
  PROVE  CollectionInvariant'
  <1> USE PaymentIds DEF CollectionInvariant, CollectionTypeOK, Confirmed, startPayment, NoActivePayment, Fresh, charge, stripe
  <1>1. CollectionTypeOK'
    BY CollectionConstants DEF ChargeState
  <1>2. \A q \in Payments : OneWay(q)'
    BY DEF OneWay
  <1>3. \A q \in Payments : CallHolds(q)'
    BY DEF CallHolds
  <1>4. \A q \in Payments : PaymentHolds(q)'
    BY DEF PaymentHolds, Collected
  <1>5. \A q, r \in Payments : Open(q)' /\ Open(r)' => q = r
    BY DEF Open
  <1>6. /\ \A q, r \in Payments : Busy(q)' /\ (Busy(r)' \/ Open(r)') => q = r
        /\ state' = "PAID" => paidBy' # 0
    BY DEF CallHolds, Open, Busy
  <1>7. (linking > 0 => state \in {"PAYMENT_LINK_READY", "PAID"} /\ destination = "DIRECT")'
    BY DEF Busy
  <1>8. /\ (settled /\ destination = "DIRECT" => paidBy \in Confirmed)'
        /\ (paidBy # 0 => paidBy \in Confirmed)'
    BY DEF Open
  <1> QED
    BY <1>1, <1>2, <1>3, <1>4, <1>5, <1>6, <1>7, <1>8

\* ... and its Checkout session.
LEMMA CreateCheckoutSessionKeeps ==
  ASSUME CollectionInvariant, NEW p \in Payments, createCheckoutSession(p)
  PROVE  CollectionInvariant'
  <1> USE PaymentIds DEF CollectionInvariant, CollectionTypeOK, Confirmed, createCheckoutSession, charge, books
  <1>1. CollectionTypeOK'
    BY CollectionConstants DEF ChargeState
  <1>2. \A q \in Payments : OneWay(q)'
    BY DEF OneWay
  <1>3. \A q \in Payments : CallHolds(q)'
    BY DEF CallHolds
  <1>4. \A q \in Payments : PaymentHolds(q)'
    BY DEF PaymentHolds, Collected
  <1>5. \A q, r \in Payments : Open(q)' /\ Open(r)' => q = r
    BY DEF Open
  <1>6. /\ \A q, r \in Payments : Busy(q)' /\ (Busy(r)' \/ Open(r)') => q = r
        /\ state' = "PAID" => paidBy' # 0
    BY DEF Open, Busy
  <1>7. (linking > 0 => state \in {"PAYMENT_LINK_READY", "PAID"} /\ destination = "DIRECT")'
    BY DEF Busy
  <1>8. /\ (settled /\ destination = "DIRECT" => paidBy \in Confirmed)'
        /\ (paidBy # 0 => paidBy \in Confirmed)'
    BY DEF Open
  <1> QED
    BY <1>1, <1>2, <1>3, <1>4, <1>5, <1>6, <1>7, <1>8

\* Cash is confirmed in one transaction.
LEMMA ConfirmCashCollectionKeeps ==
  ASSUME CollectionInvariant, NEW p \in Payments, confirmCashCollection(p)
  PROVE  CollectionInvariant'
  <1> USE PaymentIds DEF CollectionInvariant, CollectionTypeOK, Confirmed, confirmCashCollection, freezeDirectCharge, OpenForNewCollection, NoActivePayment, Fresh, confirmPaymentAttempt, Winner, stripe
  <1>1. CollectionTypeOK'
    BY CollectionConstants DEF ChargeState
  <1>2. \A q \in Payments : OneWay(q)'
    BY DEF OneWay
  <1>3. \A q \in Payments : CallHolds(q)'
    BY DEF CallHolds
  <1>4. \A q \in Payments : PaymentHolds(q)'
    BY DEF PaymentHolds, Collected
  <1>5. \A q, r \in Payments : Open(q)' /\ Open(r)' => q = r
    BY DEF Open
  <1>6. /\ \A q, r \in Payments : Busy(q)' /\ (Busy(r)' \/ Open(r)') => q = r
        /\ state' = "PAID" => paidBy' # 0
    BY DEF CallHolds, Busy
  <1>7. (linking > 0 => state \in {"PAYMENT_LINK_READY", "PAID"} /\ destination = "DIRECT")'
    BY DEF Busy
  <1>8. /\ (settled /\ destination = "DIRECT" => paidBy \in Confirmed)'
        /\ (paidBy # 0 => paidBy \in Confirmed)'
    BY DEF Open
  <1> QED
    BY <1>1, <1>2, <1>3, <1>4, <1>5, <1>6, <1>7, <1>8

\* Stripe ends an intent ...
LEMMA FinishIntentKeeps ==
  ASSUME CollectionInvariant, NEW p \in Payments, NEW outcome \in {"succeeded", "failed"},
         finishIntent(p, outcome)
  PROVE  CollectionInvariant'
  <1> USE PaymentIds DEF CollectionInvariant, CollectionTypeOK, Confirmed, finishIntent, charge, books
  <1>1. CollectionTypeOK'
    BY CollectionConstants DEF ChargeState
  <1>2. \A q \in Payments : OneWay(q)'
    BY DEF OneWay
  <1>3. \A q \in Payments : CallHolds(q)'
    BY DEF CallHolds
  <1>4. \A q \in Payments : PaymentHolds(q)'
    BY DEF OneWay, PaymentHolds, Collected
  <1>5. \A q, r \in Payments : Open(q)' /\ Open(r)' => q = r
    BY DEF Open
  <1>6. /\ \A q, r \in Payments : Busy(q)' /\ (Busy(r)' \/ Open(r)') => q = r
        /\ state' = "PAID" => paidBy' # 0
    BY DEF Open, Busy
  <1>7. (linking > 0 => state \in {"PAYMENT_LINK_READY", "PAID"} /\ destination = "DIRECT")'
    BY DEF Busy
  <1>8. /\ (settled /\ destination = "DIRECT" => paidBy \in Confirmed)'
        /\ (paidBy # 0 => paidBy \in Confirmed)'
    BY DEF Open
  <1> QED
    BY <1>1, <1>2, <1>3, <1>4, <1>5, <1>6, <1>7, <1>8

\* ... or a session: money is taken for one payment only.
LEMMA FinishSessionKeeps ==
  ASSUME CollectionInvariant, NEW p \in Payments, NEW outcome \in {"paid", "expired"},
         finishSession(p, outcome)
  PROVE  CollectionInvariant'
  <1> USE PaymentIds DEF CollectionInvariant, CollectionTypeOK, Confirmed, finishSession, charge, books
  <1>1. CollectionTypeOK'
    BY CollectionConstants DEF ChargeState
  <1>2. \A q \in Payments : OneWay(q)'
    BY DEF OneWay
  <1>3. \A q \in Payments : CallHolds(q)'
    BY DEF CallHolds
  <1>4. \A q \in Payments : PaymentHolds(q)'
    BY DEF OneWay, PaymentHolds, Collected
  <1>5. \A q, r \in Payments : Open(q)' /\ Open(r)' => q = r
    BY DEF Open
  <1>6. /\ \A q, r \in Payments : Busy(q)' /\ (Busy(r)' \/ Open(r)') => q = r
        /\ state' = "PAID" => paidBy' # 0
    BY DEF Open, Busy
  <1>7. (linking > 0 => state \in {"PAYMENT_LINK_READY", "PAID"} /\ destination = "DIRECT")'
    BY DEF Busy
  <1>8. /\ (settled /\ destination = "DIRECT" => paidBy \in Confirmed)'
        /\ (paidBy # 0 => paidBy \in Confirmed)'
    BY DEF Open
  <1> QED
    BY <1>1, <1>2, <1>3, <1>4, <1>5, <1>6, <1>7, <1>8

\* The webhook of a payment that succeeded settles what is not settled,
LEMMA ApplyConfirmedKeeps ==
  ASSUME CollectionInvariant, NEW p \in Payments,
         paymentIntentSucceeded(p) \/ checkoutCompleted(p)
  PROVE  CollectionInvariant'
  <1> USE PaymentIds DEF CollectionInvariant, CollectionTypeOK, Confirmed, applyConfirmed,
                         paymentIntentSucceeded, checkoutCompleted, KnownReference, stripe
  <1>1. Collected(p) /\ Open(p) /\ Confirmed \subseteq {p}
    BY CollectedWins DEF Collected
  <1>2. /\ status' = [status EXCEPT ![p] = "CONFIRMED"]
        /\ settled' = TRUE /\ state' = "PAID" /\ paidBy' = p
        /\ UNCHANGED <<cashOnly, destination, call, intent, session, linking>>
        /\ reference' \in [Payments -> {"none", "intent", "session", "cash"}]
        /\ \A q \in Payments \ {p} : reference'[q] = reference[q]
        /\ \/ reference'[p] = reference[p]
           \/ /\ reference'[p] = "intent"
              /\ reference[p] = "none" /\ session[p] = "none" /\ call[p] # "none"
        /\ call[p] \notin {"calling", "failed", "requires_action"}
    <2>1. UNCHANGED <<cashOnly, destination, call, intent, session, linking>>
      OBVIOUS
    <2>2. /\ status' = [status EXCEPT ![p] = "CONFIRMED"]
          /\ settled' = TRUE /\ state' = "PAID" /\ paidBy' = p
      BY <1>1, CollectedWins DEF confirmPaymentAttempt, Open
    <2>3. CASE paymentIntentSucceeded(p)
      BY <2>1, <2>2, <2>3 DEF OneWay, CallHolds, PaymentHolds
    <2>4. CASE checkoutCompleted(p)
      BY <2>1, <2>2, <2>4 DEF OneWay, CallHolds, PaymentHolds
    <2> QED
      BY <2>3, <2>4
  <1> HIDE DEF applyConfirmed, paymentIntentSucceeded, checkoutCompleted, KnownReference
  <1>3. CollectionTypeOK'
    BY <1>1, <1>2, CollectionConstants DEF ChargeState
  <1>4. \A q \in Payments : OneWay(q)'
    BY <1>1, <1>2 DEF OneWay, Open, PaymentHolds
  <1>5. \A q \in Payments : CallHolds(q)'
    BY <1>1, <1>2 DEF CallHolds, Busy
  <1>6. \A q \in Payments : PaymentHolds(q)'
    BY <1>1, <1>2 DEF PaymentHolds, Collected, Open
  <1>7. \A q, r \in Payments : Open(q)' /\ Open(r)' => q = r
    BY <1>1, <1>2 DEF Open
  <1>8. /\ \A q, r \in Payments : Busy(q)' /\ (Busy(r)' \/ Open(r)') => q = r
        /\ state' = "PAID" => paidBy' # 0
    BY <1>1, <1>2 DEF Open, Busy
  <1>9. (linking > 0 => state \in {"PAYMENT_LINK_READY", "PAID"} /\ destination = "DIRECT")'
    BY <1>2
  <1>10. /\ (settled /\ destination = "DIRECT" => paidBy \in Confirmed)'
         /\ (paidBy # 0 => paidBy \in Confirmed)'
    BY <1>1, <1>2
  <1> QED
    BY <1>3, <1>4, <1>5, <1>6, <1>7, <1>8, <1>9, <1>10

\* and that of one that failed leaves a confirmed payment alone.
LEMMA ApplyFailedKeeps ==
  ASSUME CollectionInvariant, NEW p \in Payments, paymentIntentFailed(p) \/ checkoutExpired(p)
  PROVE  CollectionInvariant'
  <1> USE PaymentIds DEF CollectionInvariant, CollectionTypeOK, Confirmed, paymentIntentFailed, checkoutExpired, applyFailed, KnownReference, charge, stripe
  <1>1. CollectionTypeOK'
    BY CollectionConstants DEF ChargeState
  <1>2. \A q \in Payments : OneWay(q)'
    BY DEF OneWay
  <1>3. \A q \in Payments : CallHolds(q)'
    BY DEF OneWay, CallHolds
  <1>4. \A q \in Payments : PaymentHolds(q)'
    BY DEF OneWay, PaymentHolds, Collected
  <1>5. \A q, r \in Payments : Open(q)' /\ Open(r)' => q = r
    BY DEF Open
  <1>6. /\ \A q, r \in Payments : Busy(q)' /\ (Busy(r)' \/ Open(r)') => q = r
        /\ state' = "PAID" => paidBy' # 0
    BY DEF Open, Busy
  <1>7. (linking > 0 => state \in {"PAYMENT_LINK_READY", "PAID"} /\ destination = "DIRECT")'
    BY DEF Busy
  <1>8. /\ (settled /\ destination = "DIRECT" => paidBy \in Confirmed)'
        /\ (paidBy # 0 => paidBy \in Confirmed)'
    BY DEF Open
  <1> QED
    BY <1>1, <1>2, <1>3, <1>4, <1>5, <1>6, <1>7, <1>8

\* The liability goes to the contract, or is settled with it.
LEMMA ContractKeeps ==
  ASSUME CollectionInvariant, confirmCharge \/ settleWithContract
  PROVE  CollectionInvariant'
  <1> USE PaymentIds DEF CollectionInvariant, CollectionTypeOK, Confirmed, confirmCharge, settleWithContract, charge, books, stripe
  <1>1. CollectionTypeOK'
    BY CollectionConstants DEF ChargeState
  <1>2. \A q \in Payments : OneWay(q)'
    BY DEF OneWay
  <1>3. \A q \in Payments : CallHolds(q)'
    BY DEF CallHolds
  <1>4. \A q \in Payments : PaymentHolds(q)'
    BY DEF PaymentHolds, Collected
  <1>5. \A q, r \in Payments : Open(q)' /\ Open(r)' => q = r
    BY DEF Open
  <1>6. /\ \A q, r \in Payments : Busy(q)' /\ (Busy(r)' \/ Open(r)') => q = r
        /\ state' = "PAID" => paidBy' # 0
    BY DEF Open, Busy
  <1>7. (linking > 0 => state \in {"PAYMENT_LINK_READY", "PAID"} /\ destination = "DIRECT")'
    BY DEF Busy
  <1>8. /\ (settled /\ destination = "DIRECT" => paidBy \in Confirmed)'
        /\ (paidBy # 0 => paidBy \in Confirmed)'
    BY DEF Open
  <1> QED
    BY <1>1, <1>2, <1>3, <1>4, <1>5, <1>6, <1>7, <1>8

-----------------------------------------------------------------------------
\* No payment is there at first.
LEMMA CollectionStarts == CollectionInit => CollectionInvariant
  <1> SUFFICES ASSUME CollectionInit PROVE CollectionInvariant
    OBVIOUS
  <1> USE CollectionConstants DEF CollectionInit
  <1>1. CollectionTypeOK
    <2>1. cashOnly \in BOOLEAN /\ settled \in BOOLEAN
      OBVIOUS
    <2>2. status \in [Payments -> {"NONE", "PROCESSING", "CONFIRMED", "FAILED", "CANCELLED"}]
      OBVIOUS
    <2>3. linking \in 0..MaxLinks
      OBVIOUS
    <2> QED
      BY <2>1, <2>2, <2>3 DEF CollectionTypeOK, ChargeState
  <1>2. \A p \in Payments : /\ OneWay(p) /\ CallHolds(p) /\ PaymentHolds(p)
                            /\ ~Open(p) /\ ~Busy(p)
    BY DEF OneWay, CallHolds, PaymentHolds, Collected, Open, Busy
  <1> QED
    BY <1>1, <1>2 DEF CollectionInvariant

\* Every step of a collection keeps the invariant.
LEMMA CollectionStep ==
  CollectionInvariant /\ [CollectionNext]_collectionVars => CollectionInvariant'
  <1> SUFFICES ASSUME CollectionInvariant, [CollectionNext]_collectionVars
               PROVE  CollectionInvariant'
    OBVIOUS
  <1>1. ASSUME NEW p \in Payments, OffSession(p) PROVE CollectionInvariant'
    BY <1>1, CollectOffSessionKeeps, CreatePaymentIntentKeeps, LoseAnswerKeeps, RecordAnswerKeeps, SettleFromProviderKeeps
       DEF OffSession
  <1>2. ASSUME NEW p \in Payments, Stripe(p) PROVE CollectionInvariant'
    BY <1>2, FinishIntentKeeps, FinishSessionKeeps DEF Stripe
  <1>3. ASSUME NEW p \in Payments, Webhook(p) PROVE CollectionInvariant'
    BY <1>3, ApplyConfirmedKeeps, ApplyFailedKeeps DEF Webhook
  <1>4. CASE UNCHANGED collectionVars
    BY <1>4
       DEF collectionVars, CollectionInvariant, CollectionTypeOK, OneWay, CallHolds,
           PaymentHolds, Collected, Open, Busy, Confirmed
  <1> QED
    BY <1>1, <1>2, <1>3, <1>4, CreatePaymentLinkKeeps, StartPaymentKeeps, CreateCheckoutSessionKeeps, ConfirmCashCollectionKeeps, ContractKeeps
       DEF CollectionNext

\* The invariant of a collection holds, its typing included.
THEOREM CollectionIsInvariant == CollectionSpec => []CollectionInvariant
  BY CollectionStarts, CollectionStep, PTL DEF CollectionSpec

\* A liability is collected by one payment only, and never when it was charged
\* to the contract: the saved card, the link and cash exclude each other.
THEOREM CollectedOnce == CollectionSpec => []LiabilityCollectedOnce
  <1>1. CollectionInvariant => LiabilityCollectedOnce
    BY DEF CollectionInvariant, PaymentHolds, Open, LiabilityCollectedOnce
  <1> QED
    BY <1>1, CollectionStarts, CollectionStep, PTL DEF CollectionSpec

\* What settles a liability directly is the payment whose money was taken.
THEOREM SettledByTheCollected == CollectionSpec => []SettledByItsPayment
  <1>1. CollectionInvariant => SettledByItsPayment
    BY DEF CollectionInvariant, PaymentHolds, Confirmed, SettledByItsPayment
  <1> QED
    BY <1>1, CollectionStarts, CollectionStep, PTL DEF CollectionSpec

-----------------------------------------------------------------------------
Written(e) == outbox[e].status # "NONE"
About(w) == outbox[worker[w].event].contract
Composing(w) == worker[w].phase \in {"composing", "issuing"}

\* What a worker has under way agrees with the row it works on: an invoice it
\* composes shows the event and more than any issued one, what it has handled is
\* shown or shared, and what it is about to send was not sent.
JobAgrees(w) ==
  LET e == worker[w].event IN
  worker[w].phase # "idle" =>
    /\ e \in Events /\ Written(e)
    /\ worker[w].consumer = "notifier" => outbox[e].kind = "shared"
    /\ Composing(w) =>
         /\ worker[w].consumer = "issuer"
         /\ outbox[e].content <= worker[w].content
         /\ worker[w].content <= facts[About(w)]
         /\ \A i \in Of(About(w)) : i.content <= worker[w].content
    /\ worker[w].phase = "issuing" =>
         /\ \A i \in Of(About(w)) : i.content # worker[w].content
         /\ worker[w].number \in 1..nextNumber
    /\ worker[w].phase = "handled" => Shown(e) \/ worker[w].consumer = "notifier"
    /\ worker[w].phase = "sending" =>
         worker[w].consumer = "notifier" /\ e \in reserved /\ sent[e] = 0

EventAgrees(e) ==
  /\ Written(e) => outbox[e].content \in 1..facts[outbox[e].contract]
  /\ ~Written(e) => \A c \in Contracts : facts[c] < e
  /\ outbox[e].status = "PROCESSED" => Shown(e) \/ outbox[e].kind = "shared"
  /\ IF e \in reserved THEN sent[e] <= 1 ELSE sent[e] = 0

InvoicesAgree ==
  /\ NumbersAreConsecutive
  /\ RevisionsAdvance
  /\ nextNumber >= 1
  /\ \A i \in invoices : i.content <= facts[i.contract] /\ 1 <= i.revision /\ i.revision <= i.content
  /\ \A c \in Contracts : Of(c) # {} => Current(c) # {}

\* One worker composes an invoice of a contract, and one sends for an event.
WorkersExclude ==
  \A w, v \in Workers : w # v =>
    /\ Composing(w) /\ Composing(v) => About(w) # About(v)
    /\ worker[w].phase = "sending" /\ worker[v].phase = "sending" => worker[w].event # worker[v].event

OutboxInvariant ==
  /\ OutboxTypeOK
  /\ InvoicesAgree
  /\ WorkersExclude
  /\ \A c \in Contracts : facts[c] <= MaxEvents
  /\ \A e \in Events : EventAgrees(e)
  /\ \A w \in Workers : JobAgrees(w)

-----------------------------------------------------------------------------
\* What the rows, the jobs and the invoices are made of.
LEMMA OutboxTypes == ASSUME OutboxInvariant
  PROVE  /\ \A e \in Events : /\ outbox[e] \in OutboxRow /\ e \in Nat
                              /\ outbox[e].contract \in Contracts /\ outbox[e].content \in Nat
                              /\ sent[e] \in Nat
         /\ \A w \in Workers : worker[w] \in Jobs
         /\ \A c \in Contracts : facts[c] \in Nat
         /\ \A i \in invoices : i.contract \in Contracts /\ i.revision \in Nat /\ i.content \in Nat /\ i.number \in Nat
         /\ MaxEvents \in Nat /\ nextNumber \in Nat
  BY OutboxConstants DEF OutboxInvariant, OutboxTypeOK, OutboxRow, Events

\* An event about the contract whose invoice is issued ends up shown.
LEMMA ShowsEnough ==
  ASSUME OutboxInvariant, NEW w \in Workers, worker[w].phase = "composing",
         Shows(About(w), worker[w].content)
  PROVE  Shown(worker[w].event)
  BY DEF Shows, Shown, About, Composing, OutboxInvariant, JobAgrees

\* An invoice with the content of the last composition is the current one.
LEMMA LastIsCurrent ==
  ASSUME OutboxInvariant, NEW w \in Workers, worker[w].phase = "composing",
         ~Shows(About(w), worker[w].content)
  PROVE  \A i \in Of(About(w)) : i.content # worker[w].content
  <1> SUFFICES ASSUME NEW i \in Of(About(w)), i.content = worker[w].content PROVE FALSE
    OBVIOUS
  <1>1. \A j \in Of(About(w)) : j.content <= i.content
    BY DEF OutboxInvariant, JobAgrees, Composing
  <1>2. i \in invoices /\ \A j \in Of(About(w)) : j \in invoices /\ j.contract = i.contract
    BY DEF Of
  <1>3. \A j \in Of(About(w)) : j.revision <= i.revision
    <2> SUFFICES ASSUME NEW j \in Of(About(w)), ~(j.revision <= i.revision) PROVE FALSE
      OBVIOUS
    <2>1. i.revision < j.revision
      BY <1>2, OutboxTypes
    <2>2. i.content < j.content
      BY <1>2, <2>1 DEF OutboxInvariant, InvoicesAgree, RevisionsAdvance
    <2> QED
      BY <1>1, <1>2, <2>2, OutboxTypes
  <1> QED
    BY <1>3 DEF Current, Shows

\* The next revision exists, is the only one, and is within the bound.
LEMMA OneNextRevision ==
  ASSUME OutboxInvariant, NEW w \in Workers, worker[w].phase = "issuing"
  PROVE  \E r \in Nat :
           /\ NextRevision(About(w), worker[w].number, worker[w].content)
                = {Invoice(About(w), r, worker[w].number, worker[w].content)}
           /\ \A i \in Of(About(w)) : i.revision < r
           /\ 1 <= r /\ r <= worker[w].content
  <1> DEFINE c == About(w)
             content == worker[w].content
             Next1 == {r \in 1..MaxEvents : /\ \A i \in Of(c) : i.revision < r
                                            /\ r = 1 \/ \E i \in Of(c) : i.revision + 1 = r}
  <1>1. /\ worker[w].event \in Events /\ Written(worker[w].event) /\ c \in Contracts
        /\ content \in Nat /\ 1 <= content /\ content <= MaxEvents
    <2>1. worker[w].event \in Events /\ Written(worker[w].event)
      BY DEF OutboxInvariant, JobAgrees
    <2>2. /\ outbox[worker[w].event].content <= content /\ content <= facts[c]
          /\ outbox[worker[w].event].content >= 1
      BY <2>1, OutboxTypes DEF OutboxInvariant, JobAgrees, Composing, EventAgrees
    <2>3. c \in Contracts /\ content \in Nat
      BY <2>1, OutboxTypes DEF About, Jobs
    <2>4. facts[c] <= MaxEvents
      BY <2>3 DEF OutboxInvariant
    <2> QED
      BY <2>1, <2>2, <2>3, <2>4, OutboxTypes
  <1>2. \A i \in Of(c) : /\ i \in invoices /\ i.revision \in Nat /\ i.content \in Nat
                         /\ 1 <= i.revision /\ i.revision <= i.content /\ i.content < content
    <2> SUFFICES ASSUME NEW i \in Of(c)
                 PROVE  /\ i \in invoices /\ i.revision \in Nat /\ i.content \in Nat
                        /\ 1 <= i.revision /\ i.revision <= i.content /\ i.content < content
      OBVIOUS
    <2>1. i \in invoices /\ i.revision \in Nat /\ i.content \in Nat
      BY OutboxTypes DEF Of
    <2>2. 1 <= i.revision /\ i.revision <= i.content
      BY <2>1 DEF OutboxInvariant, InvoicesAgree
    <2>3. i.content <= content /\ i.content # content
      BY DEF OutboxInvariant, JobAgrees, Composing
    <2> QED
      BY <1>1, <2>1, <2>2, <2>3
  <1>3. \E r \in Nat : Next1 = {r} /\ (\A i \in Of(c) : i.revision < r) /\ 1 <= r /\ r <= content
    <2>1. CASE Of(c) = {}
      <3>1. Next1 = {1}
        BY <1>1, <2>1, OutboxTypes
      <3> QED
        BY <1>1, <2>1, <3>1
    <2>2. CASE Of(c) # {}
      <3>1. PICK m \in Of(c) : \A j \in Of(c) : j.revision <= m.revision
        BY <1>1, <2>2 DEF OutboxInvariant, InvoicesAgree, Current
      <3> DEFINE r == m.revision + 1
      <3>2. r \in Nat /\ 1 <= r /\ r <= content /\ r <= MaxEvents /\ \A i \in Of(c) : i.revision < r
        BY <1>1, <1>2, <3>1, OutboxTypes
      <3>3. r \in Next1
        BY <3>2, OutboxTypes
      <3>4. \A s \in Next1 : s = r
        BY <1>2, <3>1, OutboxTypes
      <3> HIDE DEF r, Next1
      <3>5. Next1 = {r}
        BY <3>3, <3>4
      <3> QED
        BY <3>2, <3>5
    <2> QED
      BY <2>1, <2>2
  <1>4. PICK r \in Nat : Next1 = {r} /\ (\A i \in Of(c) : i.revision < r) /\ 1 <= r /\ r <= content
    BY <1>3
  <1>5. NextRevision(c, worker[w].number, content)
          = {Invoice(c, s, worker[w].number, content) : s \in Next1}
    BY DEF NextRevision
  <1> HIDE DEF Next1, c, content
  <1>6. NextRevision(c, worker[w].number, content) = {Invoice(c, r, worker[w].number, content)}
    BY <1>4, <1>5
  <1> QED
    BY <1>4, <1>6 DEF c, content

\* Invoices, and what is shown of an event, do not depend on the status of a row.
SameRows ==
  \A e \in Events : /\ outbox'[e].kind = outbox[e].kind
                    /\ outbox'[e].contract = outbox[e].contract
                    /\ outbox'[e].content = outbox[e].content
                    /\ Written(e)' = Written(e)

\* A step that issues nothing and writes no event.
LEMMA NothingIssued ==
  ASSUME OutboxInvariant, UNCHANGED <<facts, invoices, nextNumber>>, faults' \in Nat,
         outbox' \in [Events -> OutboxRow], SameRows,
         worker' \in [Workers -> Jobs], WorkersExclude',
         reserved \subseteq reserved', reserved' \subseteq Events, sent' \in [Events -> Nat],
         \A e \in Events : outbox'[e].status = "PROCESSED" =>
           outbox[e].status = "PROCESSED" \/ Shown(e) \/ outbox[e].kind = "shared",
         \A e \in Events : IF e \in reserved' THEN sent'[e] <= 1 ELSE sent'[e] = 0,
         \A v \in Workers :
           \/ JobAgrees(v)'
           \/ /\ worker'[v] = worker[v]
              /\ worker[v].phase = "sending" => sent'[worker[v].event] = sent[worker[v].event]
  PROVE  OutboxInvariant'
  <1>1. OutboxTypeOK'
    BY DEF OutboxInvariant, OutboxTypeOK
  <1>2. \A c \in Contracts : Of(c)' = Of(c) /\ Current(c)' = Current(c)
    <2> SUFFICES ASSUME NEW c \in Contracts PROVE Of(c)' = Of(c) /\ Current(c)' = Current(c)
      OBVIOUS
    <2>1. Of(c)' = Of(c)
      BY DEF Of
    <2> QED
      BY <2>1 DEF Current
  <1>3. \A e \in Events : Shown(e)' = Shown(e)
    <2> SUFFICES ASSUME NEW e \in Events PROVE Shown(e)' = Shown(e)
      OBVIOUS
    <2>1. /\ outbox'[e].contract = outbox[e].contract
          /\ outbox'[e].content = outbox[e].content
          /\ outbox[e].contract \in Contracts
      BY OutboxTypes DEF SameRows
    <2>2. Current(outbox[e].contract)' = Current(outbox[e].contract)
      BY <2>1 DEF Current, Of
    <2> QED
      BY <2>1, <2>2 DEF Shown
  <1>4. InvoicesAgree'
    BY <1>2 DEF OutboxInvariant, InvoicesAgree, NumbersAreConsecutive, RevisionsAdvance
  <1>5. ASSUME NEW e \in Events PROVE EventAgrees(e)'
    <2>1. EventAgrees(e)
      BY DEF OutboxInvariant
    <2>2. outbox[e].status = "PROCESSED" \/ outbox'[e].status # "PROCESSED" \/ Shown(e)
            \/ outbox[e].kind = "shared"
      OBVIOUS
    <2> QED
      BY <1>3, <2>1, <2>2 DEF EventAgrees, SameRows
  <1>6. ASSUME NEW v \in Workers PROVE JobAgrees(v)'
    <2>1. CASE /\ worker'[v] = worker[v]
               /\ worker[v].phase = "sending" => sent'[worker[v].event] = sent[worker[v].event]
      <3>1. JobAgrees(v) /\ Composing(v)' = Composing(v)
        BY <2>1 DEF OutboxInvariant, Composing
      <3>2. worker[v].event \in Events =>
              /\ About(v)' = About(v)
              /\ \A i : i \in Of(About(v))' <=> i \in Of(About(v))
        <4> SUFFICES ASSUME worker[v].event \in Events
                     PROVE  /\ About(v)' = About(v)
                            /\ \A i : i \in Of(About(v))' <=> i \in Of(About(v))
          OBVIOUS
        <4>1. About(v)' = About(v)
          BY <2>1 DEF About, SameRows
        <4> QED
          BY <4>1 DEF Of
      <3> QED
        BY <1>3, <2>1, <3>1, <3>2 DEF JobAgrees, SameRows
    <2> QED
      BY <2>1
  <1> QED
    BY <1>1, <1>4, <1>5, <1>6 DEF OutboxInvariant

\* A worker's step.
LEMMA WorkerKeeps ==
  ASSUME OutboxInvariant, NEW w \in Workers, NEW j \in Jobs,
         worker' = [worker EXCEPT ![w] = j],
         UNCHANGED <<facts, invoices, nextNumber>>, faults' \in Nat,
         outbox' \in [Events -> OutboxRow], SameRows,
         reserved \subseteq reserved', reserved' \subseteq Events, sent' \in [Events -> Nat],
         \A e \in Events : outbox'[e].status = "PROCESSED" =>
           outbox[e].status = "PROCESSED" \/ Shown(e) \/ outbox[e].kind = "shared",
         \A e \in Events : IF e \in reserved' THEN sent'[e] <= 1 ELSE sent'[e] = 0,
         \A e \in Events : sent'[e] = sent[e] \/ (worker[w].phase = "sending" /\ e = worker[w].event),
         JobAgrees(w)',
         j.phase \in {"composing", "issuing"} =>
           j.event \in Events /\ \A v \in Workers \ {w} : Composing(v) => About(v) # outbox[j.event].contract,
         j.phase = "sending" =>
           \A v \in Workers \ {w} : worker[v].phase = "sending" => worker[v].event # j.event
  PROVE  OutboxInvariant'
  <1>1. worker' \in [Workers -> Jobs] /\ worker'[w] = j
    BY DEF OutboxInvariant, OutboxTypeOK
  <1>2. \A v \in Workers \ {w} : worker'[v] = worker[v]
    BY DEF OutboxInvariant, OutboxTypeOK
  <1>3. \A v \in Workers \ {w} : /\ Composing(v)' = Composing(v)
                                /\ Composing(v) => About(v)' = About(v)
    BY <1>2 DEF Composing, About, SameRows, OutboxInvariant, JobAgrees
  <1>4. Composing(w)' => About(w)' = outbox[j.event].contract
    BY <1>1 DEF Composing, About, SameRows
  <1>5. WorkersExclude'
    <2> SUFFICES ASSUME NEW a \in Workers, NEW b \in Workers, a # b
                 PROVE  /\ Composing(a)' /\ Composing(b)' => About(a)' # About(b)'
                        /\ worker'[a].phase = "sending" /\ worker'[b].phase = "sending" =>
                             worker'[a].event # worker'[b].event
      BY DEF WorkersExclude
    <2>1. CASE a # w /\ b # w
      <3>1. /\ worker'[a] = worker[a] /\ worker'[b] = worker[b]
            /\ Composing(a)' = Composing(a) /\ Composing(b)' = Composing(b)
            /\ Composing(a) => About(a)' = About(a)
            /\ Composing(b) => About(b)' = About(b)
        BY <2>1, <1>2, <1>3 DEF Composing, About
      <3>2. /\ Composing(a) /\ Composing(b) => About(a) # About(b)
            /\ worker[a].phase = "sending" /\ worker[b].phase = "sending" =>
                 worker[a].event # worker[b].event
        BY DEF OutboxInvariant, WorkersExclude
      <3>3. Composing(a)' /\ Composing(b)' => About(a)' # About(b)'
        BY <3>1, <3>2
      <3> QED
        BY <3>1, <3>2, <3>3
    <2>2. CASE a = w \/ b = w
      BY <2>2, <1>1, <1>2, <1>3, <1>4 DEF Composing
    <2> QED
      BY <2>1, <2>2
  <1>6. \A v \in Workers \ {w} : worker[v].phase = "sending" =>
          sent'[worker[v].event] = sent[worker[v].event]
    BY DEF OutboxInvariant, WorkersExclude, JobAgrees
  <1> QED
    BY <1>1, <1>2, <1>5, <1>6, NothingIssued

\* Only the status and the attempts of a written row change.
LEMMA OutboxRowKeeps ==
  ASSUME OutboxInvariant, NEW e \in Events, Written(e), NEW r \in OutboxRow,
         outbox' = [outbox EXCEPT ![e] = r], r.status # "NONE",
         r.kind = outbox[e].kind, r.contract = outbox[e].contract, r.content = outbox[e].content
  PROVE  /\ outbox' \in [Events -> OutboxRow] /\ SameRows
         /\ outbox'[e] = r
         /\ \A f \in Events : f # e => outbox'[f] = outbox[f]
  <1>1. /\ outbox' \in [Events -> OutboxRow] /\ outbox'[e] = r
        /\ \A f \in Events : f # e => outbox'[f] = outbox[f]
    BY DEF OutboxInvariant, OutboxTypeOK
  <1>2. ASSUME NEW f \in Events
        PROVE  /\ outbox'[f].kind = outbox[f].kind
               /\ outbox'[f].contract = outbox[f].contract
               /\ outbox'[f].content = outbox[f].content
               /\ Written(f)' = Written(f)
    <2>1. CASE f = e
      BY <1>1, <2>1 DEF Written
    <2>2. CASE f # e
      BY <1>1, <2>2 DEF Written
    <2> QED
      BY <2>1, <2>2
  <1> QED
    BY <1>1, <1>2 DEF SameRows

\* A step of a worker that changes its job and nothing else.
LEMMA JobKeeps ==
  ASSUME OutboxInvariant, NEW w \in Workers, NEW j \in Jobs,
         worker' = [worker EXCEPT ![w] = j],
         UNCHANGED <<facts, outbox, invoicing, notices>>, faults' \in Nat,
         JobAgrees(w)', j.phase # "sending",
         j.phase \in {"composing", "issuing"} =>
           j.event \in Events /\ \A v \in Workers \ {w} : Composing(v) => About(v) # outbox[j.event].contract
  PROVE  OutboxInvariant'
  <1>1. /\ UNCHANGED <<facts, invoices, nextNumber>>
        /\ outbox' = outbox /\ reserved' = reserved /\ sent' = sent
    BY DEF invoicing, notices
  <1>2. SameRows /\ outbox' \in [Events -> OutboxRow]
    BY <1>1 DEF SameRows, Written, OutboxInvariant, OutboxTypeOK
  <1>3. /\ reserved \subseteq reserved' /\ reserved' \subseteq Events /\ sent' \in [Events -> Nat]
        /\ \A e \in Events : IF e \in reserved' THEN sent'[e] <= 1 ELSE sent'[e] = 0
        /\ \A e \in Events : sent'[e] = sent[e]
        /\ \A e \in Events : outbox'[e].status = "PROCESSED" => outbox[e].status = "PROCESSED"
    BY <1>1 DEF OutboxInvariant, OutboxTypeOK, EventAgrees
  <1> QED
    BY <1>1, <1>2, <1>3, WorkerKeeps

\* What a worker at work knows of its row.
LEMMA AtWork ==
  ASSUME OutboxInvariant, NEW w \in Workers, worker[w].phase # "idle"
  PROVE  /\ worker[w] \in Jobs /\ worker[w].event \in Events
         /\ Written(worker[w].event)
         /\ worker[w].consumer = "notifier" => outbox[worker[w].event].kind = "shared"
         /\ outbox[worker[w].event] \in OutboxRow
         /\ About(w) \in Contracts
  BY OutboxTypes DEF OutboxInvariant, JobAgrees, About

\* A worker that forgets its work.
LEMMA IdleKeeps ==
  ASSUME OutboxInvariant, NEW w \in Workers, worker' = [worker EXCEPT ![w] = Idle],
         UNCHANGED <<facts, outbox, invoicing, notices>>, faults' \in Nat
  PROVE  OutboxInvariant'
  <1>1. Idle \in Jobs /\ Idle.phase = "idle"
    BY DEF Idle, Job, Jobs, Phase, Consumers
  <1>2. worker'[w] = Idle
    BY DEF OutboxInvariant, OutboxTypeOK
  <1>3. JobAgrees(w)'
    BY <1>1, <1>2 DEF JobAgrees
  <1> QED
    BY <1>1, <1>3, JobKeeps

\* What is shown is a matter of the rows' content and the invoices.
LEMMA SameShown ==
  ASSUME UNCHANGED <<outbox, invoices>>, NEW e
  PROVE  (Shown(e)' <=> Shown(e)) /\ (Written(e)' <=> Written(e))
  <1>1. outbox' = outbox /\ invoices' = invoices
    OBVIOUS
  <1>2. ASSUME NEW c PROVE Of(c)' = Of(c) /\ Current(c)' = Current(c)
    <2>1. Of(c)' = Of(c)
      BY <1>1 DEF Of
    <2> QED
      BY <2>1 DEF Current
  <1>3. Current(outbox[e].contract)' = Current(outbox[e].contract)
    BY <1>1, <1>2 DEF Current, Of
  <1> QED
    BY <1>1, <1>3 DEF Shown, Written

-----------------------------------------------------------------------------
\* A row is listed without a lock: it may be claimed by another by now.
LEMMA ListKeeps ==
  ASSUME OutboxInvariant, NEW w \in Workers, NEW consumer \in Consumers, NEW e \in Events,
         listDue(w, consumer, e)
  PROVE  OutboxInvariant'
  <1> DEFINE j == Job("listed", consumer, e, outbox[e].attempts)
  <1>1. j \in Jobs /\ j.phase = "listed" /\ j.event = e /\ j.consumer = consumer
    BY OutboxTypes DEF Job, Jobs, Phase, OutboxRow
  <1>2. /\ outbox[e].status = "PENDING" /\ outbox' = outbox
        /\ consumer = "notifier" => outbox[e].kind = "shared"
        /\ worker' = [worker EXCEPT ![w] = j]
        /\ UNCHANGED <<facts, outbox, invoicing, notices>> /\ faults' \in Nat
    BY DEF listDue, Consumes, OutboxInvariant, OutboxTypeOK
  <1> HIDE DEF j
  <1>3. worker'[w] = j
    BY <1>2 DEF OutboxInvariant, OutboxTypeOK
  <1>4. JobAgrees(w)'
    BY <1>1, <1>2, <1>3 DEF JobAgrees, Written, Composing
  <1> QED
    BY <1>1, <1>2, <1>4, JobKeeps

\* The claim is conditional on the row still being pending.
LEMMA ClaimRowKeeps ==
  ASSUME OutboxInvariant, NEW w \in Workers, claim(w) PROVE OutboxInvariant'
  <1> DEFINE e == worker[w].event
  <1>1. worker[w].phase = "listed" /\ UNCHANGED <<facts, invoicing, notices, faults>>
    BY DEF claim
  <1>2. /\ worker[w] \in Jobs /\ e \in Events /\ Written(e) /\ outbox[e] \in OutboxRow
        /\ worker[w].consumer = "notifier" => outbox[e].kind = "shared"
        /\ faults' \in Nat
    BY <1>1, AtWork DEF OutboxInvariant, OutboxTypeOK
  <1>3. CASE /\ outbox' = [outbox EXCEPT ![e].status = "PROCESSING"]
             /\ worker' = [worker EXCEPT ![w].phase = "claimed"]
    <2> DEFINE r == [outbox[e] EXCEPT !.status = "PROCESSING"]
               j == [worker[w] EXCEPT !.phase = "claimed"]
    <2>1. /\ r \in OutboxRow /\ r.status = "PROCESSING"
          /\ r.kind = outbox[e].kind /\ r.contract = outbox[e].contract
          /\ r.content = outbox[e].content
      BY <1>2 DEF OutboxRow, Status
    <2>2. /\ j \in Jobs /\ j.phase = "claimed" /\ j.event = e /\ j.consumer = worker[w].consumer
      BY <1>2 DEF Jobs, Phase
    <2>3. outbox' = [outbox EXCEPT ![e] = r] /\ worker' = [worker EXCEPT ![w] = j]
      BY <1>3
    <2> HIDE DEF r, j
    <2>4. /\ outbox' \in [Events -> OutboxRow] /\ SameRows /\ outbox'[e] = r
          /\ \A f \in Events : f # e => outbox'[f] = outbox[f]
      BY <1>2, <2>1, <2>3, OutboxRowKeeps
    <2>5. worker'[w] = j
      BY <2>3 DEF OutboxInvariant, OutboxTypeOK
    <2>6. JobAgrees(w)'
      BY <1>2, <2>1, <2>2, <2>4, <2>5 DEF JobAgrees, Written, Composing
    <2>7. /\ UNCHANGED <<facts, invoices, nextNumber>> /\ reserved' = reserved /\ sent' = sent
      BY <1>1 DEF invoicing, notices
    <2>8. /\ reserved \subseteq reserved' /\ reserved' \subseteq Events /\ sent' \in [Events -> Nat]
          /\ \A f \in Events : IF f \in reserved' THEN sent'[f] <= 1 ELSE sent'[f] = 0
          /\ \A f \in Events : sent'[f] = sent[f]
      BY <2>7 DEF OutboxInvariant, OutboxTypeOK, EventAgrees
    <2>9. \A f \in Events : outbox'[f].status = "PROCESSED" => outbox[f].status = "PROCESSED"
      BY <2>1, <2>4
    <2> QED
      BY <1>2, <2>2, <2>3, <2>4, <2>6, <2>7, <2>8, <2>9, WorkerKeeps
  <1>4. CASE worker' = [worker EXCEPT ![w] = Idle] /\ UNCHANGED outbox
    BY <1>1, <1>2, <1>4, IdleKeeps
  <1> QED
    BY <1>3, <1>4 DEF claim

\* What is composed shows all changes there are, as the contract lock is held.
LEMMA ComposeKeeps ==
  ASSUME OutboxInvariant, NEW w \in Workers, composeInvoice(w) PROVE OutboxInvariant'
  <1> DEFINE e == worker[w].event
             c == outbox[e].contract
             j == [worker[w] EXCEPT !.phase = "composing", !.content = facts[c]]
  <1>1. /\ worker[w].phase = "claimed" /\ worker[w].consumer = "issuer" /\ LockFree(c)
        /\ worker' = [worker EXCEPT ![w] = j]
        /\ UNCHANGED <<facts, outbox, invoicing, notices, faults>>
    BY DEF composeInvoice
  <1>2. /\ worker[w] \in Jobs /\ e \in Events /\ Written(e) /\ c \in Contracts
        /\ facts[c] \in Nat /\ faults' \in Nat
    BY <1>1, AtWork, OutboxTypes DEF OutboxInvariant, OutboxTypeOK, About
  <1>3. /\ j \in Jobs /\ j.phase = "composing" /\ j.event = e /\ j.consumer = "issuer"
        /\ j.content = facts[c]
    BY <1>1, <1>2 DEF Jobs, Phase
  <1>4. \A v \in Workers \ {w} : Composing(v) => About(v) # c
    BY <1>1 DEF LockFree, Working, Composing, About
  <1>5. /\ outbox[e].content <= facts[c]
        /\ \A i \in Of(c) : i.content <= facts[c]
    BY <1>2 DEF OutboxInvariant, EventAgrees, InvoicesAgree, Of
  <1> HIDE DEF j, e, c
  <1>6. worker'[w] = j
    BY <1>1 DEF OutboxInvariant, OutboxTypeOK
  <1>7. JobAgrees(w)'
    BY <1>1, <1>2, <1>3, <1>5, <1>6 DEF JobAgrees, Composing, Written, About, Of, invoicing, c
  <1> QED
    BY <1>1, <1>2, <1>3, <1>4, <1>7, JobKeeps DEF c

\* The invoice found shows the event, or a new one is to be issued.
LEMMA AllocateKeeps ==
  ASSUME OutboxInvariant, NEW w \in Workers, allocateInvoiceNumber(w) PROVE OutboxInvariant'
  <1>1. /\ worker[w].phase = "composing"
        /\ UNCHANGED <<facts, outbox, invoicing, notices, faults>>
    BY DEF allocateInvoiceNumber
  <1>e. PICK e \in Events : e = worker[w].event
    BY <1>1, AtWork
  <1>c. PICK c \in Contracts : c = About(w) /\ c = outbox[e].contract
    BY <1>1, <1>e, AtWork DEF About
  <1>2. /\ worker[w] \in Jobs /\ e \in Events /\ Written(e) /\ c \in Contracts
        /\ facts[c] \in Nat /\ faults' \in Nat /\ nextNumber \in Nat /\ nextNumber >= 1
    BY <1>1, <1>e, AtWork, OutboxTypes DEF OutboxInvariant, OutboxTypeOK, About, InvoicesAgree
  <1>3. /\ worker[w].consumer = "issuer"
        /\ outbox[e].content <= worker[w].content /\ worker[w].content <= facts[c]
        /\ \A i \in Of(c) : i.content <= worker[w].content
    BY <1>1, <1>e, <1>c DEF OutboxInvariant, JobAgrees, Composing
  <1>4. \A v \in Workers \ {w} : Composing(v) => About(v) # c
    BY <1>1, <1>c DEF OutboxInvariant, WorkersExclude, Composing
  <1>5. CASE /\ Shows(c, worker[w].content)
             /\ worker' = [worker EXCEPT ![w] = Job("handled", "issuer", @.event, 0)]
    <2> DEFINE j == Job("handled", "issuer", e, 0)
    <2>1. j \in Jobs /\ j.phase = "handled" /\ j.event = e /\ j.consumer = "issuer"
      BY <1>2 DEF Job, Jobs, Phase, Consumers
    <2>2. Shown(e)
      BY <1>1, <1>e, <1>c, <1>5, ShowsEnough
    <2>3. worker' = [worker EXCEPT ![w] = j]
      BY <1>e, <1>5
    <2> HIDE DEF j
    <2>4. worker'[w] = j
      BY <2>3 DEF OutboxInvariant, OutboxTypeOK
    <2>5. (Shown(e)' <=> Shown(e)) /\ (Written(e)' <=> Written(e))
      <3>1. outbox' = outbox /\ invoices' = invoices
        BY <1>1 DEF invoicing
      <3> QED
        BY <3>1, SameShown
    <2>6. JobAgrees(w)'
      BY <1>2, <2>1, <2>2, <2>4, <2>5 DEF JobAgrees, Composing
    <2> QED
      BY <1>1, <1>2, <2>1, <2>3, <2>6, JobKeeps
  <1>6. CASE /\ ~Shows(c, worker[w].content)
             /\ worker' = [worker EXCEPT ![w].phase = "issuing", ![w].number = nextNumber]
    <2> DEFINE j == [worker[w] EXCEPT !.phase = "issuing", !.number = nextNumber]
    <2>1. /\ j \in Jobs /\ j.phase = "issuing" /\ j.event = e /\ j.consumer = "issuer"
          /\ j.content = worker[w].content /\ j.number = nextNumber
      BY <1>2, <1>3, <1>e DEF Jobs, Phase
    <2>2. \A i \in Of(c) : i.content # worker[w].content
      BY <1>1, <1>c, <1>6, LastIsCurrent
    <2>3. worker' = [worker EXCEPT ![w] = j]
      BY <1>6
    <2>4. j.number \in 1..nextNumber
      BY <1>2, <2>1
    <2> HIDE DEF j
    <2>5. worker'[w] = j
      BY <2>3 DEF OutboxInvariant, OutboxTypeOK
    <2>6. nextNumber' = nextNumber /\ facts' = facts /\ outbox' = outbox /\ invoices' = invoices
      BY <1>1 DEF invoicing
    <2>7. About(w)' = c /\ Written(e)'
      BY <1>2, <1>c, <2>1, <2>5, <2>6 DEF About, Written
    <2>8. \A i \in Of(About(w))' : i.content <= worker[w].content /\ i.content # worker[w].content
      <3>1. \A i : i \in Of(About(w))' => i \in Of(c)
        BY <2>6, <2>7 DEF Of
      <3> QED
        BY <1>3, <2>2, <3>1
    <2>9. JobAgrees(w)'
      BY <1>2, <1>3, <2>1, <2>4, <2>5, <2>6, <2>7, <2>8 DEF JobAgrees, Composing
    <2> QED
      BY <1>1, <1>2, <1>4, <2>1, <2>3, <2>9, <1>c, JobKeeps
  <1> QED
    BY <1>c, <1>e, <1>5, <1>6 DEF allocateInvoiceNumber

\* An error while an event is handled leaves its row to be marked.
LEMMA FailsKeeps ==
  ASSUME OutboxInvariant, NEW w \in Workers, handlingFails(w) PROVE OutboxInvariant'
  <1> DEFINE j == [worker[w] EXCEPT !.phase = "failed"]
  <1>1. /\ worker[w].phase = "claimed" /\ worker' = [worker EXCEPT ![w] = j]
        /\ UNCHANGED <<facts, outbox, invoicing, notices, faults>>
    BY DEF handlingFails
  <1>2. /\ worker[w] \in Jobs /\ worker[w].event \in Events /\ Written(worker[w].event)
        /\ worker[w].consumer = "notifier" => outbox[worker[w].event].kind = "shared"
        /\ faults' \in Nat
    BY <1>1, AtWork DEF OutboxInvariant, OutboxTypeOK
  <1>3. /\ j \in Jobs /\ j.phase = "failed" /\ j.event = worker[w].event
        /\ j.consumer = worker[w].consumer
    BY <1>2 DEF Jobs, Phase
  <1> HIDE DEF j
  <1>4. worker'[w] = j
    BY <1>1 DEF OutboxInvariant, OutboxTypeOK
  <1>5. JobAgrees(w)'
    BY <1>1, <1>2, <1>3, <1>4 DEF JobAgrees, Composing, Written
  <1> QED
    BY <1>1, <1>2, <1>3, <1>5, JobKeeps

\* A notifier with nothing to deliver has handled an event both consumers take.
LEMMA NothingKeeps ==
  ASSUME OutboxInvariant, NEW w \in Workers, nothingToDeliver(w) PROVE OutboxInvariant'
  <1> DEFINE j == [worker[w] EXCEPT !.phase = "handled"]
  <1>1. /\ worker[w].phase = "claimed" /\ worker[w].consumer = "notifier" /\ worker' = [worker EXCEPT ![w] = j]
        /\ UNCHANGED <<facts, outbox, invoicing, notices, faults>>
    BY DEF nothingToDeliver
  <1>2. /\ worker[w] \in Jobs /\ worker[w].event \in Events /\ Written(worker[w].event)
        /\ worker[w].consumer = "notifier" => outbox[worker[w].event].kind = "shared"
        /\ faults' \in Nat
    BY <1>1, AtWork DEF OutboxInvariant, OutboxTypeOK
  <1>3. /\ j \in Jobs /\ j.phase = "handled" /\ j.event = worker[w].event
        /\ j.consumer = worker[w].consumer
    BY <1>2 DEF Jobs, Phase
  <1> HIDE DEF j
  <1>4. worker'[w] = j
    BY <1>1 DEF OutboxInvariant, OutboxTypeOK
  <1>5. JobAgrees(w)'
    BY <1>1, <1>2, <1>3, <1>4 DEF JobAgrees, Composing, Written
  <1> QED
    BY <1>1, <1>2, <1>3, <1>5, JobKeeps

\* The reservation of the key: the second worker finds it and does not send.
LEMMA ReserveKeeps ==
  ASSUME OutboxInvariant, NEW w \in Workers, reserve(w) PROVE OutboxInvariant'
  <1> DEFINE e == worker[w].event
             j == [worker[w] EXCEPT !.phase = IF e \in reserved THEN "handled" ELSE "sending"]
  <1>1. /\ worker[w].phase = "claimed" /\ worker[w].consumer = "notifier"
        /\ reserved' = reserved \union {e}
        /\ worker' = [worker EXCEPT ![w] = j]
        /\ UNCHANGED <<facts, outbox, invoicing, sent, faults>>
    BY DEF reserve
  <1>2. /\ worker[w] \in Jobs /\ e \in Events /\ Written(e) /\ outbox[e].kind = "shared"
        /\ faults' \in Nat
    BY <1>1, AtWork DEF OutboxInvariant, OutboxTypeOK
  <1>3. /\ j \in Jobs /\ j.event = e /\ j.consumer = "notifier"
        /\ e \in reserved => j.phase = "handled"
        /\ e \notin reserved => j.phase = "sending"
    BY <1>1, <1>2 DEF Jobs, Phase
  <1>4. e \notin reserved => sent[e] = 0
    BY <1>2 DEF OutboxInvariant, EventAgrees
  <1> HIDE DEF j, e
  <1>5. worker'[w] = j
    BY <1>1 DEF OutboxInvariant, OutboxTypeOK
  <1>6. JobAgrees(w)'
    BY <1>1, <1>2, <1>3, <1>4, <1>5 DEF JobAgrees, Composing, Written
  <1>7. j.phase = "sending" =>
          \A v \in Workers \ {w} : worker[v].phase = "sending" => worker[v].event # j.event
    BY <1>3 DEF OutboxInvariant, JobAgrees
  <1>8. /\ UNCHANGED <<facts, invoices, nextNumber>> /\ outbox' = outbox /\ sent' = sent
    BY <1>1 DEF invoicing
  <1>9. /\ SameRows /\ outbox' \in [Events -> OutboxRow] /\ sent' \in [Events -> Nat]
        /\ reserved \subseteq reserved' /\ reserved' \subseteq Events
        /\ \A f \in Events : outbox'[f].status = "PROCESSED" => outbox[f].status = "PROCESSED"
        /\ \A f \in Events : sent'[f] = sent[f]
    BY <1>1, <1>2, <1>8 DEF SameRows, Written, OutboxInvariant, OutboxTypeOK
  <1>10. ASSUME NEW f \in Events PROVE IF f \in reserved' THEN sent'[f] <= 1 ELSE sent'[f] = 0
    <2>1. IF f \in reserved THEN sent[f] <= 1 ELSE sent[f] = 0
      BY DEF OutboxInvariant, EventAgrees
    <2> QED
      BY <1>1, <1>8, <2>1, OutboxTypes
  <1>11. j.phase \notin {"composing", "issuing"}
    BY <1>3
  <1> QED
    BY <1>1, <1>2, <1>3, <1>6, <1>7, <1>8, <1>9, <1>10, <1>11, WorkerKeeps

\* Only the worker that reserved the key sends.
LEMMA SendKeeps ==
  ASSUME OutboxInvariant, NEW w \in Workers, send(w) PROVE OutboxInvariant'
  <1> DEFINE e == worker[w].event
             j == [worker[w] EXCEPT !.phase = "handled"]
  <1>1. /\ worker[w].phase = "sending" /\ worker' = [worker EXCEPT ![w] = j]
        /\ sent' \in {sent, [sent EXCEPT ![e] = @ + 1]}
        /\ UNCHANGED <<facts, outbox, invoicing, reserved, faults>>
    BY DEF send
  <1>2. /\ worker[w] \in Jobs /\ e \in Events /\ Written(e) /\ outbox[e].kind = "shared"
        /\ worker[w].consumer = "notifier" /\ e \in reserved /\ sent[e] = 0 /\ faults' \in Nat
    BY <1>1, AtWork DEF OutboxInvariant, OutboxTypeOK, JobAgrees
  <1>3. j \in Jobs /\ j.event = e /\ j.consumer = "notifier" /\ j.phase = "handled"
    BY <1>2 DEF Jobs, Phase
  <1> HIDE DEF j, e
  <1>4. worker'[w] = j
    BY <1>1 DEF OutboxInvariant, OutboxTypeOK
  <1>5. JobAgrees(w)'
    BY <1>1, <1>2, <1>3, <1>4 DEF JobAgrees, Composing, Written
  <1>6. /\ sent' \in [Events -> Nat] /\ sent'[e] <= 1
        /\ \A f \in Events : f # e => sent'[f] = sent[f]
    BY <1>1, <1>2 DEF OutboxInvariant, OutboxTypeOK
  <1>7. /\ UNCHANGED <<facts, invoices, nextNumber>> /\ outbox' = outbox /\ reserved' = reserved
    BY <1>1 DEF invoicing
  <1>8. /\ SameRows /\ outbox' \in [Events -> OutboxRow]
        /\ reserved \subseteq reserved' /\ reserved' \subseteq Events
        /\ \A f \in Events : outbox'[f].status = "PROCESSED" => outbox[f].status = "PROCESSED"
    BY <1>7 DEF SameRows, Written, OutboxInvariant, OutboxTypeOK
  <1>9. ASSUME NEW f \in Events PROVE IF f \in reserved' THEN sent'[f] <= 1 ELSE sent'[f] = 0
    <2>1. IF f \in reserved THEN sent[f] <= 1 ELSE sent[f] = 0
      BY DEF OutboxInvariant, EventAgrees
    <2>2. CASE f = e
      BY <1>2, <1>6, <1>7, <2>2
    <2>3. CASE f # e
      BY <1>6, <1>7, <2>1, <2>3
    <2> QED
      BY <2>2, <2>3
  <1>10. \A f \in Events : sent'[f] = sent[f] \/ (worker[w].phase = "sending" /\ f = worker[w].event)
    BY <1>1, <1>6 DEF e
  <1>11. j.phase \notin {"composing", "issuing"} /\ j.phase # "sending"
    BY <1>3
  <1> QED
    BY <1>1, <1>2, <1>3, <1>5, <1>6, <1>7, <1>8, <1>9, <1>10, <1>11, WorkerKeeps

\* A worker that records the outcome of an event and is free again.
LEMMA OutcomeKeeps ==
  ASSUME OutboxInvariant, NEW w \in Workers, NEW e \in Events, Written(e), NEW r \in OutboxRow,
         outbox' = [outbox EXCEPT ![e] = r], r.status # "NONE",
         r.kind = outbox[e].kind, r.contract = outbox[e].contract, r.content = outbox[e].content,
         worker' = [worker EXCEPT ![w] = Idle],
         UNCHANGED <<facts, invoicing, notices, faults>>,
         r.status = "PROCESSED" => Shown(e) \/ outbox[e].kind = "shared"
  PROVE  OutboxInvariant'
  <1>1. /\ outbox' \in [Events -> OutboxRow] /\ SameRows /\ outbox'[e] = r
        /\ \A f \in Events : f # e => outbox'[f] = outbox[f]
    BY OutboxRowKeeps
  <1>2. /\ UNCHANGED <<facts, invoices, nextNumber>> /\ reserved' = reserved /\ sent' = sent
        /\ faults' \in Nat
    BY DEF invoicing, notices, OutboxInvariant, OutboxTypeOK
  <1>3. Idle \in Jobs /\ Idle.phase = "idle" /\ worker'[w] = Idle
    BY DEF Idle, Job, Jobs, Phase, Consumers, OutboxInvariant, OutboxTypeOK
  <1>4. JobAgrees(w)'
    BY <1>3 DEF JobAgrees
  <1>5. \A f \in Events : outbox'[f].status = "PROCESSED" =>
          outbox[f].status = "PROCESSED" \/ Shown(f) \/ outbox[f].kind = "shared"
    BY <1>1
  <1>6. /\ reserved \subseteq reserved' /\ reserved' \subseteq Events /\ sent' \in [Events -> Nat]
        /\ \A f \in Events : IF f \in reserved' THEN sent'[f] <= 1 ELSE sent'[f] = 0
        /\ \A f \in Events : sent'[f] = sent[f]
    BY <1>2 DEF OutboxInvariant, OutboxTypeOK, EventAgrees
  <1> QED
    BY <1>1, <1>2, <1>3, <1>4, <1>5, <1>6, WorkerKeeps

\* A row is marked once its event was dealt with.
LEMMA ProcessedKeeps ==
  ASSUME OutboxInvariant, NEW w \in Workers, markProcessed(w) PROVE OutboxInvariant'
  <1>1. /\ worker[w].phase = "handled" /\ worker' = [worker EXCEPT ![w] = Idle]
        /\ outbox' = [outbox EXCEPT ![worker[w].event].status = "PROCESSED"]
        /\ UNCHANGED <<facts, invoicing, notices, faults>>
    BY DEF markProcessed
  <1>2. PICK e \in Events : e = worker[w].event
    BY <1>1, AtWork
  <1>3. Written(e) /\ outbox[e] \in OutboxRow /\ (worker[w].consumer = "notifier" => outbox[e].kind = "shared")
    BY <1>1, <1>2, AtWork
  <1>4. Shown(e) \/ outbox[e].kind = "shared"
    <2>1. worker[w].consumer \in {"issuer", "notifier"}
      BY <1>1, AtWork DEF Jobs, Consumers
    <2>2. Shown(e) \/ worker[w].consumer = "notifier"
      BY <1>1, <1>2 DEF OutboxInvariant, JobAgrees
    <2> QED
      BY <1>3, <2>1, <2>2
  <1> DEFINE r == [outbox[e] EXCEPT !.status = "PROCESSED"]
  <1>5. /\ r \in OutboxRow /\ r.status = "PROCESSED" /\ r.kind = outbox[e].kind
        /\ r.contract = outbox[e].contract /\ r.content = outbox[e].content
    BY <1>3 DEF OutboxRow, Status
  <1>6. outbox' = [outbox EXCEPT ![e] = r]
    BY <1>1, <1>2
  <1> HIDE DEF r
  <1> QED
    BY <1>1, <1>3, <1>4, <1>5, <1>6, OutcomeKeeps

\* A row that failed is due again or failed for good.
LEMMA FailedKeeps ==
  ASSUME OutboxInvariant, NEW w \in Workers, markFailed(w) PROVE OutboxInvariant'
  <1> DEFINE n == worker[w].attempts + 1
             s == IF n >= MaxAttempts THEN "FAILED" ELSE "PENDING"
  <1>1. /\ worker[w].phase = "failed" /\ worker' = [worker EXCEPT ![w] = Idle]
        /\ outbox' = [outbox EXCEPT ![worker[w].event].status = s, ![worker[w].event].attempts = n]
        /\ UNCHANGED <<facts, invoicing, notices, faults>>
    BY DEF markFailed
  <1>2. PICK e \in Events : e = worker[w].event
    BY <1>1, AtWork
  <1>3. Written(e) /\ outbox[e] \in OutboxRow /\ n \in Nat /\ s \in {"FAILED", "PENDING"}
    BY <1>1, <1>2, AtWork DEF Jobs
  <1> DEFINE r == [outbox[e] EXCEPT !.status = s, !.attempts = n]
  <1> HIDE DEF n, s
  <1>4. r \in OutboxRow
    BY <1>3 DEF OutboxRow, Status
  <1>5. /\ r.status = s /\ r.kind = outbox[e].kind
        /\ r.contract = outbox[e].contract /\ r.content = outbox[e].content
    BY <1>3 DEF OutboxRow
  <1>6. outbox' = [outbox EXCEPT ![e] = r]
    BY <1>1, <1>2, <1>3 DEF OutboxInvariant, OutboxTypeOK
  <1> HIDE DEF r
  <1> QED
    BY <1>1, <1>3, <1>4, <1>5, <1>6, OutcomeKeeps

\* A crash forgets the job, and nothing that is stored.
LEMMA CrashKeeps ==
  ASSUME OutboxInvariant, NEW w \in Workers, crash(w) PROVE OutboxInvariant'
  <1>1. /\ faults' \in Nat /\ worker' = [worker EXCEPT ![w] = Idle]
        /\ UNCHANGED <<facts, outbox, invoicing, notices>>
    BY DEF crash, OutboxInvariant, OutboxTypeOK
  <1> QED
    BY <1>1, IdleKeeps

\* A row locked too long is due again, while its first worker may go on.
LEMMA UnlockKeeps ==
  ASSUME OutboxInvariant, NEW e \in Events, unlockStale(e) PROVE OutboxInvariant'
  <1> DEFINE r == [outbox[e] EXCEPT !.status = "PENDING"]
  <1>1. /\ outbox[e].status = "PROCESSING" /\ outbox' = [outbox EXCEPT ![e] = r]
        /\ UNCHANGED <<facts, worker, invoicing, notices>> /\ faults' \in Nat
    BY DEF unlockStale, Unlock, OutboxInvariant, OutboxTypeOK
  <1>2. /\ r \in OutboxRow /\ r.status = "PENDING" /\ r.kind = outbox[e].kind
        /\ r.contract = outbox[e].contract /\ r.content = outbox[e].content
    BY OutboxTypes DEF OutboxRow, Status
  <1> HIDE DEF r
  <1>3. /\ outbox' \in [Events -> OutboxRow] /\ SameRows /\ outbox'[e] = r
        /\ \A f \in Events : f # e => outbox'[f] = outbox[f]
    BY <1>1, <1>2, OutboxRowKeeps DEF Written
  <1>4. /\ UNCHANGED <<facts, invoices, nextNumber>> /\ reserved' = reserved /\ sent' = sent
        /\ worker' = worker
    BY <1>1 DEF invoicing, notices
  <1>5. WorkersExclude'
    <2>1. \A v \in Workers : /\ Composing(v)' <=> Composing(v)
                             /\ Composing(v) => About(v)' = About(v)
      BY <1>3, <1>4 DEF Composing, About, SameRows, OutboxInvariant, JobAgrees
    <2>2. WorkersExclude
      BY DEF OutboxInvariant
    <2> QED
      BY <1>4, <2>1, <2>2 DEF WorkersExclude, Composing
  <1>6. \A f \in Events : outbox'[f].status = "PROCESSED" => outbox[f].status = "PROCESSED"
    BY <1>2, <1>3
  <1>7. /\ reserved \subseteq reserved' /\ reserved' \subseteq Events /\ sent' \in [Events -> Nat]
        /\ \A f \in Events : IF f \in reserved' THEN sent'[f] <= 1 ELSE sent'[f] = 0
        /\ worker' \in [Workers -> Jobs]
    BY <1>4 DEF OutboxInvariant, OutboxTypeOK, EventAgrees
  <1> QED
    BY <1>1, <1>3, <1>4, <1>5, <1>6, <1>7, NothingIssued

-----------------------------------------------------------------------------
\* The invoice x that a worker issues: it is the next revision of its contract,
\* takes the next number, and shows all that any earlier one does.
Issued(w, c, x) ==
  /\ x = Invoice(c, x.revision, x.number, x.content)
  /\ {x.revision, x.number, x.content} \subseteq Nat
  /\ x.number = nextNumber
  /\ x.content = worker[w].content /\ x.content <= facts[c]
  /\ 1 <= x.revision /\ x.revision <= x.content
  /\ \A i \in Of(c) : i.revision < x.revision /\ i.content < x.content
  /\ invoices' = invoices \union {x}
  /\ nextNumber' = nextNumber + 1

\* The number read is free only if it is still the next one.
LEMMA IssuesNext ==
  ASSUME OutboxInvariant, NEW w \in Workers, worker[w].phase = "issuing",
         NEW c \in Contracts, c = About(w), ~NumberTaken(worker[w].number),
         invoices' = invoices \union NextRevision(c, worker[w].number, worker[w].content),
         nextNumber' = worker[w].number + 1
  PROVE  \E x : Issued(w, c, x)
  <1>1. worker[w] \in Jobs /\ nextNumber \in Nat
    BY OutboxTypes
  <1>2. /\ worker[w].number \in 1..nextNumber
        /\ \A i \in Of(c) : i.content <= worker[w].content /\ i.content # worker[w].content
        /\ worker[w].content <= facts[c]
    BY DEF OutboxInvariant, JobAgrees, Composing
  <1>3. worker[w].number = nextNumber
    <2>1. {i.number : i \in invoices} = 1..(nextNumber - 1)
      BY DEF OutboxInvariant, InvoicesAgree, NumbersAreConsecutive
    <2>2. worker[w].number \notin 1..(nextNumber - 1)
      BY <2>1 DEF NumberTaken
    <2> QED
      BY <1>1, <1>2, <2>2
  <1>4. PICK r \in Nat :
          /\ NextRevision(c, worker[w].number, worker[w].content)
               = {Invoice(c, r, worker[w].number, worker[w].content)}
          /\ \A i \in Of(c) : i.revision < r
          /\ 1 <= r /\ r <= worker[w].content
    BY OneNextRevision
  <1> DEFINE x == Invoice(c, r, worker[w].number, worker[w].content)
  <1>5. /\ x.contract = c /\ x.revision = r /\ x.number = worker[w].number
        /\ x.content = worker[w].content
        /\ x = Invoice(c, x.revision, x.number, x.content)
    BY DEF Invoice
  <1>6. worker[w].content \in Nat /\ \A i \in Of(c) : i.content \in Nat
    BY <1>1, OutboxTypes DEF Jobs, Of
  <1>7. invoices' = invoices \union {x}
    BY <1>4
  <1> HIDE DEF x
  <1>8. /\ {x.revision, x.number, x.content} \subseteq Nat
        /\ 1 <= x.revision /\ x.revision <= x.content /\ x.content <= facts[c]
    BY <1>1, <1>2, <1>3, <1>4, <1>5, <1>6
  <1>9. \A i \in Of(c) : i.revision < x.revision /\ i.content < x.content
    BY <1>2, <1>4, <1>5, <1>6
  <1> QED
    BY <1>3, <1>5, <1>7, <1>8, <1>9 DEF Issued

\* The invoices after one is issued.
LEMMA IssuedInvoices ==
  ASSUME OutboxInvariant, NEW w \in Workers, NEW c \in Contracts, NEW x, Issued(w, c, x),
         facts' = facts
  PROVE  /\ InvoicesAgree'
         /\ \A d \in Contracts : d # c => \A i : i \in Of(d)' <=> i \in Of(d)
         /\ x \in Current(c)'
         /\ \A i \in invoices' : /\ i.contract \in Contracts
                                 /\ i = Invoice(i.contract, i.revision, i.number, i.content)
                                 /\ {i.revision, i.number, i.content} \subseteq Nat
  <1>1. /\ x.contract = c /\ x = Invoice(c, x.revision, x.number, x.content)
        /\ x.revision \in Nat /\ x.number \in Nat /\ x.content \in Nat
        /\ x.number = nextNumber /\ nextNumber' = nextNumber + 1
        /\ x.content <= facts[c] /\ 1 <= x.revision /\ x.revision <= x.content
        /\ \A i \in Of(c) : i.revision < x.revision /\ i.content < x.content
        /\ invoices' = invoices \union {x}
    BY DEF Issued, Invoice
  <1>2. /\ nextNumber \in Nat /\ nextNumber >= 1
        /\ \A i \in invoices : i.contract \in Contracts /\ i.revision \in Nat /\ i.content \in Nat /\ i.number \in Nat
    BY OutboxTypes DEF OutboxInvariant, InvoicesAgree
  <1>3. /\ {i.number : i \in invoices} = 1..(nextNumber - 1)
        /\ \A i, j \in invoices : i.number = j.number => i = j
    BY DEF OutboxInvariant, InvoicesAgree, NumbersAreConsecutive
  <1>4. NumbersAreConsecutive'
    <2>1. {i.number : i \in invoices'} = {i.number : i \in invoices} \union {x.number}
      BY <1>1
    <2>2. {i.number : i \in invoices'} = 1..(nextNumber' - 1)
      BY <1>1, <1>2, <1>3, <2>1
    <2>3. \A i \in invoices : i.number # x.number
      <3> SUFFICES ASSUME NEW i \in invoices PROVE i.number # x.number
        OBVIOUS
      <3>1. i.number \in 1..(nextNumber - 1)
        BY <1>3
      <3> QED
        BY <1>1, <1>2, <3>1
    <2>4. \A i, j \in invoices' : i.number = j.number => i = j
      BY <1>1, <1>3, <2>3
    <2> QED
      BY <2>2, <2>4 DEF NumbersAreConsecutive
  <1>5. RevisionsAdvance'
    <2> SUFFICES ASSUME NEW i \in invoices', NEW j \in invoices',
                        i.contract = j.contract, i.revision < j.revision
                 PROVE  i.content < j.content
      BY DEF RevisionsAdvance
    <2>1. CASE i \in invoices /\ j \in invoices
      BY <2>1 DEF OutboxInvariant, InvoicesAgree, RevisionsAdvance
    <2>2. CASE i \in invoices /\ j = x
      BY <1>1, <2>2 DEF Of
    <2>3. CASE i = x /\ j \in invoices
      <3>1. j \in Of(c)
        BY <1>1, <2>3 DEF Of
      <3>2. j.revision < i.revision /\ j.revision \in Nat /\ i.revision \in Nat
        BY <1>1, <1>2, <2>3, <3>1
      <3> QED
        BY <3>2
    <2>4. CASE i = x /\ j = x
      BY <1>1, <2>4
    <2> QED
      BY <1>1, <2>1, <2>2, <2>3, <2>4
  <1>6. \A d \in Contracts : d # c => \A i : i \in Of(d)' <=> i \in Of(d)
    BY <1>1 DEF Of
  <1>7. \A i : i \in Of(c)' <=> i \in Of(c) \/ i = x
    BY <1>1 DEF Of
  <1>8. x \in Current(c)'
    <2>1. x \in Of(c)'
      BY <1>7
    <2>2. \A j \in Of(c)' : j.revision <= x.revision
      <3> SUFFICES ASSUME NEW j \in Of(c)' PROVE j.revision <= x.revision
        OBVIOUS
      <3>1. CASE j \in Of(c)
        BY <1>1, <1>2, <3>1 DEF Of
      <3>2. CASE j = x
        BY <1>1, <3>2
      <3> QED
        BY <1>7, <3>1, <3>2
    <2> QED
      BY <2>1, <2>2 DEF Current
  <1>9. ASSUME NEW d \in Contracts, Of(d)' # {} PROVE Current(d)' # {}
    <2>1. CASE d = c
      BY <1>8, <2>1
    <2>2. CASE d # c
      <3>1. Current(d) # {}
        BY <1>6, <1>9, <2>2 DEF OutboxInvariant, InvoicesAgree
      <3>2. PICK i \in Current(d) : TRUE
        BY <3>1
      <3>3. i \in Current(d)'
        BY <1>6, <2>2, <3>2 DEF Current
      <3> QED
        BY <3>3
    <2> QED
      BY <2>1, <2>2
  <1>10. ASSUME NEW i \in invoices'
         PROVE  i.content <= facts'[i.contract] /\ 1 <= i.revision /\ i.revision <= i.content
    <2>1. CASE i \in invoices
      BY <2>1 DEF OutboxInvariant, InvoicesAgree
    <2>2. CASE i = x
      BY <1>1, <2>2
    <2> QED
      BY <1>1, <2>1, <2>2
  <1>11. nextNumber' >= 1
    BY <1>1, <1>2
  <1>12. ASSUME NEW i \in invoices'
         PROVE  /\ i.contract \in Contracts
                /\ i = Invoice(i.contract, i.revision, i.number, i.content)
                /\ {i.revision, i.number, i.content} \subseteq Nat
    <2>1. CASE i \in invoices
      BY <2>1 DEF OutboxInvariant, OutboxTypeOK
    <2>2. CASE i = x
      BY <1>1, <2>2
    <2> QED
      BY <1>1, <2>1, <2>2
  <1>13. InvoicesAgree'
    BY <1>4, <1>5, <1>9, <1>10, <1>11 DEF InvoicesAgree
  <1> QED
    BY <1>6, <1>8, <1>12, <1>13

\* An invoice is issued, or its number was taken by another contract.
LEMMA InvoiceIssueKeeps ==
  ASSUME OutboxInvariant, NEW w \in Workers, issueWrite(w) PROVE OutboxInvariant'
  <1>1. worker[w].phase = "issuing" /\ UNCHANGED <<facts, outbox, notices, faults>>
    BY DEF issueWrite
  <1>e. PICK e \in Events : e = worker[w].event
    BY <1>1, AtWork
  <1>c. PICK c \in Contracts : c = About(w) /\ c = outbox[e].contract
    BY <1>1, <1>e, AtWork DEF About
  <1>2. /\ worker[w] \in Jobs /\ Written(e) /\ faults' \in Nat /\ worker[w].consumer = "issuer"
        /\ outbox[e].content <= worker[w].content
    BY <1>1, <1>e, AtWork DEF OutboxInvariant, OutboxTypeOK, JobAgrees, Composing
  <1>3. CASE /\ NumberTaken(worker[w].number) /\ UNCHANGED invoicing
             /\ worker' = [worker EXCEPT ![w] = Job("failed", "issuer", @.event, @.attempts)]
    <2> DEFINE j == Job("failed", "issuer", e, worker[w].attempts)
    <2>1. j \in Jobs /\ j.phase = "failed" /\ j.event = e /\ j.consumer = "issuer"
      BY <1>2 DEF Job, Jobs, Phase, Consumers
    <2>2. worker' = [worker EXCEPT ![w] = j]
      BY <1>e, <1>3
    <2> HIDE DEF j
    <2>3. worker'[w] = j
      BY <2>2 DEF OutboxInvariant, OutboxTypeOK
    <2>4. JobAgrees(w)'
      BY <1>1, <1>2, <2>1, <2>3 DEF JobAgrees, Composing, Written
    <2> QED
      BY <1>1, <1>2, <1>3, <2>1, <2>2, <2>4, JobKeeps
  <1>4. CASE /\ ~NumberTaken(worker[w].number)
             /\ invoices' = invoices \union NextRevision(c, worker[w].number, worker[w].content)
             /\ nextNumber' = worker[w].number + 1
             /\ worker' = [worker EXCEPT ![w] = Job("handled", "issuer", @.event, 0)]
    <2>1. PICK x : Issued(w, c, x)
      BY <1>1, <1>c, <1>4, IssuesNext
    <2>2. /\ outbox' = outbox /\ facts' = facts /\ reserved' = reserved /\ sent' = sent
      BY <1>1 DEF notices
    <2>3. /\ InvoicesAgree'
          /\ \A d \in Contracts : d # c => \A i : i \in Of(d)' <=> i \in Of(d)
          /\ x \in Current(c)'
          /\ \A i \in invoices' : /\ i.contract \in Contracts
                                  /\ i = Invoice(i.contract, i.revision, i.number, i.content)
                                  /\ {i.revision, i.number, i.content} \subseteq Nat
      BY <2>1, <2>2, IssuedInvoices
    <2>4. /\ x.content = worker[w].content /\ x.content \in Nat /\ nextNumber' = nextNumber + 1
          /\ \A i \in Of(c) : i.content < x.content
      BY <2>1 DEF Issued
    <2>5. \A f \in Events : outbox[f].contract = c /\ outbox[f].content <= x.content => Shown(f)'
      BY <2>2, <2>3 DEF Shown
    <2>6. ASSUME NEW f \in Events, Shown(f) PROVE Shown(f)'
      <3>1. outbox[f].contract \in Contracts /\ outbox[f].content \in Nat
        BY OutboxTypes
      <3>2. PICK i \in Current(outbox[f].contract) : i.content >= outbox[f].content
        BY <2>6 DEF Shown
      <3>3. CASE outbox[f].contract = c
        <4>1. i.content < x.content /\ i.content \in Nat
          BY <2>4, <3>2, <3>3, OutboxTypes DEF Current, Of
        <4> QED
          BY <2>4, <2>5, <3>1, <3>2, <3>3, <4>1
      <3>4. CASE outbox[f].contract # c
        <4>1. i \in Current(outbox[f].contract)'
          BY <2>2, <2>3, <3>1, <3>2, <3>4 DEF Current, Of
        <4> QED
          BY <2>2, <3>2, <4>1 DEF Shown
      <3> QED
        BY <3>3, <3>4
    <2> DEFINE j == Job("handled", "issuer", e, 0)
    <2>7. j \in Jobs /\ j.phase = "handled" /\ j.event = e /\ j.consumer = "issuer"
      BY <1>2 DEF Job, Jobs, Phase, Consumers
    <2>8. worker' = [worker EXCEPT ![w] = j]
      BY <1>e, <1>4
    <2> HIDE DEF j
    <2>9. /\ worker' \in [Workers -> Jobs] /\ worker'[w] = j
          /\ \A v \in Workers \ {w} : worker'[v] = worker[v]
      BY <2>7, <2>8 DEF OutboxInvariant, OutboxTypeOK
    <2>10. OutboxTypeOK'
      BY <2>2, <2>3, <2>4, <2>9, <1>2, OutboxTypes DEF OutboxInvariant, OutboxTypeOK
    <2>11. WorkersExclude'
      <3> SUFFICES ASSUME NEW a \in Workers, NEW b \in Workers, a # b
                   PROVE  /\ Composing(a)' /\ Composing(b)' => About(a)' # About(b)'
                          /\ worker'[a].phase = "sending" /\ worker'[b].phase = "sending" =>
                               worker'[a].event # worker'[b].event
        BY DEF WorkersExclude
      <3>1. CASE a = w \/ b = w
        BY <2>7, <2>9, <3>1 DEF Composing
      <3>2. CASE a # w /\ b # w
        <4>1. worker'[a] = worker[a] /\ worker'[b] = worker[b]
          BY <2>9, <3>2
        <4>2. WorkersExclude
          BY DEF OutboxInvariant
        <4> QED
          BY <2>2, <4>1, <4>2 DEF WorkersExclude, Composing, About
      <3> QED
        BY <3>1, <3>2
    <2>12. ASSUME NEW f \in Events PROVE EventAgrees(f)'
      <3>1. EventAgrees(f)
        BY DEF OutboxInvariant
      <3> QED
        BY <2>2, <2>6, <3>1 DEF EventAgrees, Written
    <2>13. Shown(e)'
      BY <1>2, <1>c, <2>4, <2>5
    <2>14. JobAgrees(w)'
      BY <1>2, <2>2, <2>7, <2>9, <2>13 DEF JobAgrees, Composing, Written
    <2>15. ASSUME NEW v \in Workers \ {w} PROVE JobAgrees(v)'
      <3>1. JobAgrees(v) /\ worker'[v] = worker[v]
        BY <2>9 DEF OutboxInvariant
      <3>2. CASE worker[v].phase = "idle"
        BY <3>1, <3>2 DEF JobAgrees
      <3>3. CASE worker[v].phase # "idle"
        <4>f. PICK f \in Events : f = worker[v].event
          BY <3>3, AtWork
        <4>d. PICK d \in Contracts : d = About(v) /\ d = About(v)'
          BY <2>2, <3>1, <3>3, AtWork DEF About
        <4>1. /\ Composing(v)' <=> Composing(v)
              /\ Written(f)' <=> Written(f)
          BY <2>2, <3>1 DEF Composing, Written
        <4>2. Composing(v) => d # c
          BY <1>1, <1>c, <4>d DEF OutboxInvariant, WorkersExclude, Composing
        <4>3. Composing(v) => \A i : i \in Of(About(v))' => i \in Of(About(v))
          BY <2>3, <4>2, <4>d DEF Of
        <4>4. worker[v].phase = "issuing" => worker[v].number \in 1..nextNumber'
          BY <2>4, <3>1, OutboxTypes DEF JobAgrees
        <4>5. Shown(f) => Shown(f)'
          BY <2>6
        <4> QED
          BY <2>2, <3>1, <3>3, <4>f, <4>d, <4>1, <4>3, <4>4, <4>5 DEF JobAgrees, Composing
      <3> QED
        BY <3>2, <3>3
    <2>16. \A d \in Contracts : facts'[d] <= MaxEvents
      BY <2>2 DEF OutboxInvariant
    <2> QED
      BY <2>3, <2>10, <2>11, <2>12, <2>14, <2>15, <2>16 DEF OutboxInvariant
  <1> QED
    BY <1>c, <1>e, <1>3, <1>4 DEF issueWrite

\* A business change: its row shows one change more than any earlier row.
LEMMA WriteKeeps ==
  ASSUME OutboxInvariant, NEW e \in Events, writeOutboxEvent(e) PROVE OutboxInvariant'
  <1> DEFINE c == outbox[e].contract
             n == facts[c] + 1
             r == [outbox[e] EXCEPT !.status = "PENDING", !.content = n]
  <1>1. /\ ~Written(e) /\ \A f \in Events : f < e => Written(f)
        /\ facts' = [facts EXCEPT ![c] = @ + 1]
        /\ worker' = worker /\ invoices' = invoices /\ nextNumber' = nextNumber
        /\ reserved' = reserved /\ sent' = sent /\ faults' = faults
    BY DEF writeOutboxEvent, Written, invoicing, notices
  <1>2. /\ c \in Contracts /\ facts[c] \in Nat /\ outbox[e] \in OutboxRow /\ e \in Nat
        /\ e <= MaxEvents /\ MaxEvents \in Nat /\ n \in Nat
    BY OutboxTypes DEF Events
  <1>4. outbox' = [outbox EXCEPT ![e] = r]
    BY DEF writeOutboxEvent
  <1>n. n = facts[c] + 1
    OBVIOUS
  <1> HIDE DEF n
  <1>r. r \in OutboxRow
    BY <1>2 DEF OutboxRow, Status
  <1>3. /\ r \in OutboxRow /\ r.status = "PENDING" /\ r.content = facts[c] + 1
        /\ r.kind = outbox[e].kind /\ r.contract = c
    BY <1>2, <1>n, <1>r DEF OutboxRow
  <1>p. PICK k \in Contracts : k = c
    BY <1>2
  <1> HIDE DEF r
  <1>5. /\ outbox' \in [Events -> OutboxRow] /\ outbox'[e] = r
        /\ \A f \in Events : f # e => outbox'[f] = outbox[f]
    BY <1>3, <1>4 DEF OutboxInvariant, OutboxTypeOK
  <1>6. /\ facts' \in [Contracts -> Nat] /\ facts'[k] = facts[k] + 1
        /\ \A d \in Contracts : d # k => facts'[d] = facts[d]
        /\ \A d \in Contracts : facts[d] <= facts'[d] /\ facts[d] \in Nat /\ facts'[d] \in Nat
    BY <1>1, <1>2, <1>p DEF OutboxInvariant, OutboxTypeOK
  <1>7. /\ \A d \in Contracts : facts[d] < e
        /\ \A f \in Events : ~Written(f) => \A d \in Contracts : facts[d] < f
    BY <1>1 DEF OutboxInvariant, EventAgrees
  <1>8. \A f \in Events : f # e => /\ (Shown(f)' <=> Shown(f))
                                  /\ (Written(f)' <=> Written(f))
    <2> SUFFICES ASSUME NEW f \in Events, f # e
                 PROVE  (Shown(f)' <=> Shown(f)) /\ (Written(f)' <=> Written(f))
      OBVIOUS
    <2>1. outbox'[f] = outbox[f]
      BY <1>5
    <2>2. \A i : i \in Current(outbox[f].contract)' <=> i \in Current(outbox[f].contract)
      BY <1>1, <2>1 DEF Current, Of
    <2> QED
      BY <2>1, <2>2 DEF Shown, Written
  <1>9. Written(e)'
    BY <1>3, <1>5 DEF Written
  <1>10. OutboxTypeOK'
    BY <1>1, <1>5, <1>6 DEF OutboxInvariant, OutboxTypeOK
  <1>11. \A d \in Contracts : facts'[d] <= MaxEvents
    <2> SUFFICES ASSUME NEW d \in Contracts PROVE facts'[d] <= MaxEvents
      OBVIOUS
    <2>1. facts[d] <= MaxEvents /\ facts[d] < e
      BY <1>7 DEF OutboxInvariant
    <2> QED
      BY <1>2, <1>6, <2>1
  <1>12. InvoicesAgree'
    <2>1. InvoicesAgree
      BY DEF OutboxInvariant
    <2>2. NumbersAreConsecutive' /\ RevisionsAdvance'
      BY <1>1, <2>1 DEF InvoicesAgree, NumbersAreConsecutive, RevisionsAdvance
    <2>3. \A i \in invoices' : i.content <= facts'[i.contract] /\ 1 <= i.revision /\ i.revision <= i.content
      <3> SUFFICES ASSUME NEW i \in invoices
                   PROVE  i.content <= facts'[i.contract] /\ 1 <= i.revision /\ i.revision <= i.content
        BY <1>1
      <3>1. /\ i.content <= facts[i.contract] /\ 1 <= i.revision /\ i.revision <= i.content
            /\ i.contract \in Contracts /\ i.content \in Nat
        BY <2>1, OutboxTypes DEF InvoicesAgree
      <3> QED
        BY <1>6, <3>1
    <2>4. \A d \in Contracts : Of(d)' # {} => Current(d)' # {}
      <3> SUFFICES ASSUME NEW d \in Contracts, Of(d)' # {} PROVE Current(d)' # {}
        OBVIOUS
      <3>1. \A i : i \in Of(d)' <=> i \in Of(d)
        BY <1>1 DEF Of
      <3>2. PICK i \in Current(d) : TRUE
        BY <2>1, <3>1 DEF InvoicesAgree
      <3>3. i \in Current(d)'
        BY <3>1, <3>2 DEF Current
      <3> QED
        BY <3>3
    <2> QED
      BY <1>1, <2>1, <2>2, <2>3, <2>4 DEF InvoicesAgree
  <1>13. WorkersExclude'
    <2>1. \A v \in Workers : worker[v].phase # "idle" => About(v)' = About(v)
      <3> SUFFICES ASSUME NEW v \in Workers, worker[v].phase # "idle" PROVE About(v)' = About(v)
        OBVIOUS
      <3>1. worker[v].event \in Events /\ worker[v].event # e
        BY <1>1, AtWork
      <3> QED
        BY <1>1, <1>5, <3>1 DEF About
    <2>2. WorkersExclude
      BY DEF OutboxInvariant
    <2> QED
      BY <1>1, <2>1, <2>2 DEF WorkersExclude, Composing
  <1>14. ASSUME NEW f \in Events PROVE EventAgrees(f)'
    <2>1. CASE f = e
      <3>1. outbox'[e].contract = k /\ outbox'[e].content = facts'[k] /\ outbox'[e].status = "PENDING"
        BY <1>3, <1>5, <1>6, <1>p
      <3>2. outbox'[e].content \in 1..facts'[outbox'[e].contract]
        BY <1>6, <3>1
      <3>3. IF e \in reserved THEN sent[e] <= 1 ELSE sent[e] = 0
        BY DEF OutboxInvariant, EventAgrees
      <3> QED
        BY <1>1, <1>9, <2>1, <3>1, <3>2, <3>3 DEF EventAgrees
    <2>2. CASE f # e
      <3>1. /\ EventAgrees(f) /\ outbox'[f] = outbox[f] /\ outbox[f].contract \in Contracts
            /\ outbox[f].content \in Nat /\ f \in Nat
        BY <1>5, <2>2, OutboxTypes DEF OutboxInvariant
      <3>2. Written(f)' => outbox'[f].content \in 1..facts'[outbox'[f].contract]
        BY <1>6, <1>8, <2>2, <3>1 DEF EventAgrees
      <3>3. ~Written(f)' => \A d \in Contracts : facts'[d] < f
        <4> SUFFICES ASSUME ~Written(f)', NEW d \in Contracts PROVE facts'[d] < f
          OBVIOUS
        <4>1. ~Written(f) /\ f > e
          BY <1>1, <1>2, <1>8, <2>2, <3>1
        <4>2. facts[d] < f /\ facts[d] < e
          BY <1>7, <4>1
        <4> QED
          BY <1>2, <1>6, <3>1, <4>1, <4>2
      <3> QED
        BY <1>1, <1>8, <2>2, <3>1, <3>2, <3>3 DEF EventAgrees
    <2> QED
      BY <2>1, <2>2
  <1>15. ASSUME NEW v \in Workers PROVE JobAgrees(v)'
    <2>1. JobAgrees(v) /\ worker'[v] = worker[v]
      BY <1>1 DEF OutboxInvariant
    <2>2. CASE worker[v].phase = "idle"
      BY <2>1, <2>2 DEF JobAgrees
    <2>3. CASE worker[v].phase # "idle"
      <3>f. PICK f \in Events : f = worker[v].event
        BY <2>3, AtWork
      <3>1. f # e /\ outbox'[f] = outbox[f]
        BY <1>1, <1>5, <2>3, <3>f, AtWork
      <3>d. PICK d \in Contracts : d = About(v) /\ d = About(v)'
        BY <2>1, <2>3, <3>1, <3>f, AtWork DEF About
      <3>2. (Composing(v)' <=> Composing(v)) /\ (Written(f)' <=> Written(f)) /\ (Shown(f)' <=> Shown(f))
        BY <1>8, <2>1, <3>1 DEF Composing
      <3>3. \A i : i \in Of(About(v))' <=> i \in Of(About(v))
        BY <1>1, <3>d DEF Of
      <3>4. Composing(v) => worker[v].content <= facts'[d]
        <4>1. Composing(v) => worker[v].content <= facts[d]
          BY <2>1, <2>3, <3>d DEF JobAgrees
        <4>2. worker[v].content \in Nat
          BY <2>3, AtWork DEF Jobs
        <4> QED
          BY <1>6, <4>1, <4>2
      <3> QED
        BY <1>1, <2>1, <2>3, <3>f, <3>d, <3>1, <3>2, <3>3, <3>4 DEF JobAgrees
    <2> QED
      BY <2>2, <2>3
  <1> QED
    BY <1>10, <1>11, <1>12, <1>13, <1>14, <1>15 DEF OutboxInvariant

-----------------------------------------------------------------------------
\* Nothing is written, issued or sent at first.
LEMMA OutboxStart == OutboxInit => OutboxInvariant
  <1> SUFFICES ASSUME OutboxInit PROVE OutboxInvariant
    OBVIOUS
  <1>1. PICK history \in Histories : outbox = Unwritten(history)
    BY DEF OutboxInit
  <1>2. /\ \A e \in Events : history[e] \in [kind : {"invoice", "shared"}, contract : Contracts]
        /\ MaxEvents \in Nat
    BY OutboxConstants DEF Events
  <1>3. /\ facts = [c \in Contracts |-> 0] /\ worker = [w \in Workers |-> Idle]
        /\ invoices = {} /\ nextNumber = 1 /\ reserved = {} /\ sent = [e \in Events |-> 0]
        /\ faults = 0
    BY DEF OutboxInit
  <1>4. \A e \in Events : /\ Unwritten(history)[e] \in OutboxRow
                          /\ outbox[e].status = "NONE"
    BY <1>1, <1>2 DEF Unwritten, OutboxRow, Status
  <1>5. outbox \in [Events -> OutboxRow]
    BY <1>1, <1>4 DEF Unwritten
  <1>6. Idle \in Jobs /\ Idle.phase = "idle"
    BY DEF Idle, Job, Jobs, Phase, Consumers
  <1>7. OutboxTypeOK
    BY <1>3, <1>5, <1>6 DEF OutboxTypeOK
  <1>8. InvoicesAgree
    BY <1>3 DEF InvoicesAgree, NumbersAreConsecutive, RevisionsAdvance, Of
  <1>9. WorkersExclude
    BY <1>3, <1>6 DEF WorkersExclude, Composing
  <1>10. \A c \in Contracts : facts[c] <= MaxEvents
    <2>1. \A c \in Contracts : facts[c] = 0
      BY <1>3
    <2>2. 0 <= MaxEvents
      BY OutboxConstants
    <2> QED
      BY <2>1, <2>2
  <1>11. \A e \in Events : EventAgrees(e)
    BY <1>2, <1>3, <1>4 DEF EventAgrees, Written, Events
  <1>12. \A w \in Workers : JobAgrees(w)
    BY <1>3, <1>6 DEF JobAgrees
  <1> QED
    BY <1>7, <1>8, <1>9, <1>10, <1>11, <1>12 DEF OutboxInvariant

\* Every step of the outbox and of its workers keeps the invariant.
LEMMA OutboxStep == OutboxInvariant /\ [OutboxNext]_outboxVars => OutboxInvariant'
  <1> SUFFICES ASSUME OutboxInvariant, [OutboxNext]_outboxVars PROVE OutboxInvariant'
    OBVIOUS
  <1>1. ASSUME NEW e \in Events, writeOutboxEvent(e) PROVE OutboxInvariant'
    BY <1>1, WriteKeeps
  <1>2. ASSUME NEW w \in Workers, WorkerStep(w) PROVE OutboxInvariant'
    BY <1>2, ListKeeps, ClaimRowKeeps, ComposeKeeps, AllocateKeeps, InvoiceIssueKeeps, ReserveKeeps,
       SendKeeps, NothingKeeps, FailsKeeps, ProcessedKeeps, FailedKeeps DEF WorkerStep
  <1>3. ASSUME NEW w \in Workers, crash(w) PROVE OutboxInvariant'
    BY <1>3, CrashKeeps
  <1>4. ASSUME NEW e \in Events, unlockStale(e) PROVE OutboxInvariant'
    BY <1>4, UnlockKeeps
  <1>5. CASE UNCHANGED outboxVars
    <2>1. /\ facts' = facts /\ outbox' = outbox /\ worker' = worker /\ invoices' = invoices
          /\ nextNumber' = nextNumber /\ reserved' = reserved /\ sent' = sent /\ faults' = faults
      BY <1>5 DEF outboxVars
    <2> QED
      BY <2>1 DEF OutboxInvariant, OutboxTypeOK, InvoicesAgree, NumbersAreConsecutive,
         RevisionsAdvance, Current, Of, WorkersExclude, Composing, About, EventAgrees, JobAgrees,
         Written, Shown
  <1> QED
    BY <1>1, <1>2, <1>3, <1>4, <1>5 DEF OutboxNext

\* The invariant of the outbox holds, its typing included.
THEOREM OutboxIsInvariant == OutboxSpec => []OutboxInvariant
  BY OutboxStart, OutboxStep, PTL DEF OutboxSpec

\* The invoices of the company are numbered without a gap or a duplicate, however
\* many workers allocate a number at once.
THEOREM InvoicesAreNumbered == OutboxSpec => []NumbersAreConsecutive
  <1>1. OutboxInvariant => NumbersAreConsecutive
    BY DEF OutboxInvariant, InvoicesAgree
  <1> QED
    BY <1>1, OutboxIsInvariant, PTL

\* A later revision of a contract's invoice shows more than an earlier one: a
\* worker that is late cannot bring an older state of the contract back.
THEOREM RevisionsAreOrdered == OutboxSpec => []RevisionsAdvance
  <1>1. OutboxInvariant => RevisionsAdvance
    BY DEF OutboxInvariant, InvoicesAgree
  <1> QED
    BY <1>1, OutboxIsInvariant, PTL

\* An event only the invoice is about is marked processed only once the current
\* invoice shows it, for any number of workers, events and attempts.
THEOREM ProcessedEventsAreShown == OutboxSpec => []ProcessedIsShown
  <1>1. OutboxInvariant => ProcessedIsShown
    BY OutboxTypes DEF OutboxInvariant, EventAgrees, ProcessedIsShown
  <1> QED
    BY <1>1, OutboxIsInvariant, PTL

\* A notification is sent once at most, however often its event is handled.
THEOREM NotificationsAreSentOnce == OutboxSpec => []SentOnce
  <1>1. OutboxInvariant => SentOnce
    BY OutboxTypes DEF OutboxInvariant, EventAgrees, SentOnce
  <1> QED
    BY <1>1, OutboxIsInvariant, PTL
=============================================================================
