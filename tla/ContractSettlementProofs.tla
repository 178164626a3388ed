----------------------- MODULE ContractSettlementProofs -----------------------
(***************************************************************************)
(* No item but a contested renewal is confirmed twice, none is collected a *)
(* third time, and no contract closes with a priced renewal unpaid, for    *)
(* any number of renewals, lines, liabilities and payments: the detailed   *)
(* settlement implements SettledOnce.                                      *)
(***************************************************************************)
EXTENDS ContractSettlement, TLAPS

LEMMA PaymentIds == Payments \subseteq Nat /\ 0 \notin Payments
  BY SettlementConstants DEF Payments

LEMMA TypeInit == Init => TypeOK
  <1> SUFFICES ASSUME Init PROVE TypeOK
    OBVIOUS
  <1>1. NoPay \in [status : PaymentStatus, purpose : Purpose, items : SUBSET Items]
    BY DEF NoPay, Pay, PaymentStatus, Purpose
  <1>2. pay \in [Payments -> [status : PaymentStatus, purpose : Purpose, items : SUBSET Items]]
    BY <1>1 DEF Init
  <1> QED
    BY <1>2 DEF Init, TypeOK, ContractStatus

\* The rows a step writes are well typed.
LEMMA TypeStep == TypeOK /\ [Next]_vars => TypeOK'
  <1> SUFFICES ASSUME TypeOK, [Next]_vars PROVE TypeOK'
    OBVIOUS
  <1> DEFINE Goal == TypeOK'
  <1> USE DEF TypeOK, ContractStatus
  <1>1. CASE offerRenewal
    BY <1>1, SettlementConstants DEF offerRenewal, recon, road, jobs, cash, reads
  <1>2. CASE confirmRenewalPublic
    BY <1>2, SettlementConstants DEF confirmRenewalPublic, recon, road, jobs, cash, reads
  <1>3. CASE prepareOfficeRenewalRegistration
    BY <1>3, SettlementConstants DEF prepareOfficeRenewalRegistration, Cancelled,
       Active, Purposed, terms, recon, road, cash, reads, PaymentStatus, Purpose, Items, Pay,
       NoPay
  <1>4. CASE renew
    BY <1>4, SettlementConstants DEF renew, RegisterRenewal, Unapplied, recon, road,
       cash, reads
  <1>5. CASE renewRefused
    BY <1>5, SettlementConstants DEF renewRefused, terms, recon, road, cash, reads
  <1>6. ASSUME NEW r \in Renewals, settleRenewalCashRead(r) PROVE Goal
    BY <1>6, SettlementConstants DEF settleRenewalCashRead, Outstanding, terms, recon,
       road, cash, reads
  <1>7. ASSUME NEW r \in Renewals, settleRenewalCashWrite(r) PROVE Goal
    <2>1. PICK p \in Payments : \/ pay' = [pay EXCEPT ![p] = Pay("CONFIRMED", "RENEWAL", {r})]
                                  /\ LinkRenewals(p, {r})
                                  /\ session' = [session EXCEPT ![p] = "CASH"]
                               \/ UNCHANGED <<pay, session, paidBy>>
      BY <1>7 DEF settleRenewalCashWrite, Confirm
    <2>2. pay' \in [Payments -> [status : PaymentStatus, purpose : Purpose, items : SUBSET Items]]
      BY <2>1 DEF Pay, PaymentStatus, Purpose, Items
    <2>3. /\ paidBy' \in [Renewals -> {0} \union Payments]
          /\ session' \in [Payments -> {"none", "made", "open", "paid", "expired", "CASH"}]
      BY <2>1 DEF LinkRenewals
    <2> QED
      BY <1>7, <2>2, <2>3 DEF settleRenewalCashWrite, recon, road, cash, reads
  <1>8. CASE confirmReturn
    BY <1>8, SettlementConstants DEF confirmReturn, recon, road, jobs, cash, reads
  <1>9. CASE carIn
    BY <1>9, SettlementConstants DEF carIn, recon, road, jobs, cash, reads
  <1>10. CASE editLinesRead
    BY <1>10, SettlementConstants DEF editLinesRead, Editable, terms, recon, road, cash, reads
  <1>11. CASE editLinesWrite
    BY <1>11, SettlementConstants DEF editLinesWrite, terms, road, cash, reads
  <1>12. ASSUME NEW l \in Liabilities, ingestLiability(l) PROVE Goal
    BY <1>12, SettlementConstants DEF ingestLiability, terms, recon, jobs, cash, reads
  <1>13. ASSUME NEW l \in Liabilities, chargeLineRead(l) PROVE Goal
    BY <1>13, SettlementConstants DEF chargeLineRead, Editable, Chargeable, terms,
       recon, road, cash, reads
  <1>14. ASSUME NEW l \in Liabilities, chargeLineWrite(l) PROVE Goal
    BY <1>14, SettlementConstants DEF chargeLineWrite, terms, cash, reads
  <1>15. ASSUME NEW l \in Liabilities, chargeReceivable(l) PROVE Goal
    BY <1>15, SettlementConstants DEF chargeReceivable, Chargeable, terms, recon, jobs,
       cash, reads
  <1>16. CASE ensureReconciliationFinalized
    BY <1>16, SettlementConstants DEF ensureReconciliationFinalized, terms, road, jobs,
       cash, reads
  <1>17. CASE settleReconciliationWithoutPayment
    BY <1>17, SettlementConstants DEF settleReconciliationWithoutPayment, CloseContract,
       road, jobs, cash, reads
  <1>18. CASE close
    BY <1>18, SettlementConstants DEF close, CloseContract, recon, road, jobs, cash, reads
  <1>19. CASE prepareReconciliationCashCollection
    BY <1>19, SettlementConstants DEF prepareReconciliationCashCollection, InFlight,
       Active, Purposed, terms, recon, road, reads
  <1>20. CASE settleReconciliationCashRead
    BY <1>20, SettlementConstants DEF settleReconciliationCashRead, Contest, Outstanding,
       terms, recon, road, cash
  <1>20w. CASE settleReconciliationCashWrite
    <2>1. PICK p \in Payments : TakeCash(p)
      BY <1>20w DEF settleReconciliationCashWrite
    <2>2. lines \union counted \subseteq Items
      BY DEF Items
    <2>3. Cancelled(InFlight) \in
            [Payments -> [status : PaymentStatus, purpose : Purpose, items : SUBSET Items]]
      BY DEF Cancelled, PaymentStatus
    <2>4. Pay("CONFIRMED", "RECONCILIATION", lines \union counted) \in
            [status : PaymentStatus, purpose : Purpose, items : SUBSET Items]
      BY <2>2 DEF Pay, PaymentStatus, Purpose
    <2>5. pay' \in [Payments -> [status : PaymentStatus, purpose : Purpose, items : SUBSET Items]]
      BY <2>1, <2>3, <2>4 DEF TakeCash
    <2> QED
      BY <2>1, <2>5 DEF TakeCash, CloseContract, LinkRenewals
  <1>21. CASE cashRefused
    BY <1>21, SettlementConstants DEF cashRefused, terms, recon, road
  <1>22. ASSUME NEW r \in Renewals, startRenewalPaymentPublic(r) PROVE Goal
    BY <1>22, SettlementConstants DEF startRenewalPaymentPublic, Claim, New, Pay, terms,
       recon, road, jobs, cash, reads, PaymentStatus, Purpose, Items, Pay, NoPay
  <1>23. CASE startReconciliationPayment
    BY <1>23, SettlementConstants DEF startReconciliationPayment, Claim, New, Pay, Due,
       Outstanding, terms, recon, road, jobs, cash, reads, PaymentStatus, Purpose, Items, Pay,
       NoPay
  <1>24. ASSUME NEW l \in Liabilities, startPostClosePayment(l) PROVE Goal
    BY <1>24, SettlementConstants DEF startPostClosePayment, Claim, New, Pay, terms,
       recon, road, jobs, cash, reads, PaymentStatus, Purpose, Items, Pay, NoPay
  <1>25. ASSUME NEW p \in Payments, createCheckoutSession(p) PROVE Goal
    BY <1>25, SettlementConstants DEF createCheckoutSession, terms, recon, road, jobs,
       cash, reads
  <1>26. ASSUME NEW p \in Payments, storeCheckoutSession(p) PROVE Goal
    BY <1>26, SettlementConstants DEF storeCheckoutSession, terms, recon, road, jobs,
       cash, reads, PaymentStatus, Purpose, Items, Pay, NoPay
  <1>27. ASSUME NEW p \in Payments, customerPays(p) PROVE Goal
    BY <1>27, SettlementConstants DEF customerPays, terms, recon, road, jobs, cash, reads
  <1>28. ASSUME NEW p \in Payments, sessionExpires(p) PROVE Goal
    BY <1>28, SettlementConstants DEF sessionExpires, terms, recon, road, jobs, cash, reads
  <1>29. ASSUME NEW p \in Payments, confirmReconciliationRead(p) PROVE Goal
    BY <1>29, SettlementConstants DEF confirmReconciliationRead, Contest, terms, recon, road, cash
  <1>29w. ASSUME NEW p \in Payments, confirmReconciliationWrite(p) PROVE Goal
    BY <1>29w, SettlementConstants DEF confirmReconciliationWrite, SettleReconciliation,
       Confirm, LinkRenewals, CloseContract, Pay, jobs, cash, reads, PaymentStatus, Purpose,
       Items, Pay, NoPay
  <1>30. ASSUME NEW p \in Payments, confirmRenewal(p) PROVE Goal
    <2>1. PICK r \in Renewals : pay' = [pay EXCEPT ![p] = Pay("CONFIRMED", "RENEWAL", {r})]
      BY <1>30 DEF confirmRenewal, Confirm
    <2>2. pay' \in [Payments -> [status : PaymentStatus, purpose : Purpose, items : SUBSET Items]]
      BY <2>1 DEF Pay, PaymentStatus, Purpose, Items
    <2>3. UNCHANGED paidBy \/ \E i \in Renewals : LinkRenewals(p, {i})
      BY <1>30 DEF confirmRenewal
    <2>4. paidBy' \in [Renewals -> {0} \union Payments]
      BY <2>3 DEF LinkRenewals
    <2>5. UNCHANGED renewal \/ \E i \in Renewals : renewal' = [renewal EXCEPT ![i] = "applied"]
      BY <1>30 DEF confirmRenewal
    <2>6. renewal' \in [Renewals -> {"NONE", "offered", "approved", "applied", "DELETED"}]
      BY <2>5
    <2>7. link' \in {"none", "open", "used"}
      BY <1>30 DEF confirmRenewal
    <2> QED
      BY <1>30, <2>2, <2>4, <2>6, <2>7 DEF confirmRenewal, recon, road, jobs, cash, reads
  <1>31. ASSUME NEW p \in Payments, confirmReceivable(p) PROVE Goal
    BY <1>31, SettlementConstants DEF confirmReceivable, Confirm, Pay, terms, recon,
       jobs, cash, reads, PaymentStatus, Purpose, Items, Pay, NoPay
  <1>32. ASSUME NEW p \in Payments, cancelExpired(p) PROVE Goal
    BY <1>32, SettlementConstants DEF cancelExpired, Cancelled, terms, recon, road,
       jobs, cash, reads, PaymentStatus, Purpose, Items, Pay, NoPay
  <1>33. CASE UNCHANGED vars
    BY <1>33 DEF vars
  <1> QED
    BY <1>1, <1>2, <1>3, <1>4, <1>5, <1>6, <1>7, <1>8, <1>9, <1>10, <1>11, <1>12, <1>13,
       <1>14, <1>15, <1>16, <1>17, <1>18, <1>19, <1>20, <1>20w, <1>21, <1>22, <1>23, <1>24,
       <1>25, <1>26, <1>27, <1>28, <1>29, <1>29w, <1>30, <1>31, <1>32, <1>33 DEF Next, Renewing,
       Reconciling, Starting, Card

THEOREM TypeCorrect == Spec => []TypeOK
  BY TypeInit, TypeStep, PTL DEF Spec
-----------------------------------------------------------------------------
Live == {"PROCESSING", "CONFIRMED"}

LEMMA NoPayFields == NoPay.status = "NONE" /\ NoPay.purpose = "NONE" /\ NoPay.items = {}
  BY DEF NoPay, Pay

\* Rows of a renewal or a receivable have one item; unused rows no session.
ShapedRow(p) ==
  /\ pay[p].status = "NONE" \/ pay[p].purpose = "NONE" => pay[p] = NoPay
  /\ pay[p] = NoPay => session[p] = "none"
  /\ pay[p].purpose = "RENEWAL" => \E r \in Renewals : pay[p].items = {r}
  /\ pay[p].purpose = "POST_CLOSE_RECEIVABLE" => \E l \in Liabilities : pay[p].items = {l}
Shaped == \A p \in Payments : ShapedRow(p)

\* A session that can still collect for the reconciliation belongs to a
\* payment in flight, and at most one payment is.
Collecting ==
  /\ \A p \in Payments :
       /\ session[p] = "CASH" => pay[p].status = "CONFIRMED"
       /\ pay[p].status = "CONFIRMED" => session[p] \in {"paid", "CASH"}
       /\ pay[p].purpose = "RECONCILIATION" /\ session[p] \in {"made", "open", "paid"}
            => pay[p].status \in Live
  /\ \A p \in neutralized : session[p] = "expired"
  /\ \A p, q \in Payments :
       /\ pay[p].purpose = "RECONCILIATION" /\ pay[p].status \in Live
       /\ pay[q].purpose = "RECONCILIATION" /\ pay[q].status \in Live
       => p = q

\* The unique index on confirmed payments of one purpose and target.
OneConfirmed ==
  \A p, q \in Payments :
    /\ pay[p].status = "CONFIRMED" /\ pay[q].status = "CONFIRMED"
    /\ pay[p].purpose = pay[q].purpose
    /\ pay[p].purpose # "RECONCILIATION"
    /\ pay[p].items = pay[q].items
    => p = q

\* A liability is charged at one place, and collected there.
Charged ==
  /\ \A l \in Liabilities \intersect lines : charge[l] = "line"
  /\ \A p \in Payments : pay[p].purpose = "RECONCILIATION" =>
       \A l \in Liabilities \intersect pay[p].items : charge[l] = "line"
  /\ \A p \in Payments : pay[p].purpose = "POST_CLOSE_RECEIVABLE" =>
       \A l \in Liabilities \intersect pay[p].items : charge[l] = "receivable"
  /\ \A l \in charging : charge[l] = "none"

\* A confirmed payment settled its renewals, unless another was collecting one
\* at the same time or it came too late for one.
Paid ==
  /\ \A p \in Payments, r \in Renewals :
       pay[p].status = "CONFIRMED" /\ r \in pay[p].items =>
         \/ paidBy[r] = p
         \/ paidBy[r] # 0 /\ r \in contested
         \/ pay[p].purpose = "RENEWAL" /\ renewal[r] = "approved" /\ contract # "ACTIVE"
  /\ \A p \in Payments : pay[p].purpose = "RECONCILIATION" =>
       \A r \in Renewals \intersect pay[p].items : renewal[r] = "applied"
  /\ \A r \in desk : renewal[r] = "applied"
  /\ \A r \in Renewals : paidBy[r] # 0 =>
       /\ renewal[r] = "applied"
       /\ pay[paidBy[r]].status = "CONFIRMED"
       /\ r \in pay[paidBy[r]].items

Returned == contract \in {"REVIEW", "CLOSED"}

\* What a settlement has read stays true of the renewals that are not contested:
\* the desk takes no more cash after the return, and at most one payment of the
\* reconciliation is live.
Reading ==
  /\ \A p \in Payments : pay[p].purpose = "RECONCILIATION" => Returned
  /\ cashier \/ counting => Returned
  /\ \A p \in linking :
       /\ pay[p].purpose = "RECONCILIATION" /\ session[p] = "paid"
       /\ pay[p].status # "CONFIRMED"
  /\ \A p \in linking, r \in Renewals :
       r \in pay[p].items => r \in contested \/ (r \notin desk /\ paidBy[r] = 0)
  /\ counting => \A r \in counted :
       /\ renewal[r] = "applied"
       /\ \/ r \in contested
          \/ r \notin desk /\ (paidBy[r] = 0 \/ Confirmed("RECONCILIATION", {}) # {})
  /\ \A r \in desk : r \notin Free /\ (r \in contested \/ paidBy[r] = 0)

\* Payment p becomes confirmed for the items S and settles their renewals.
Settles(p, S) ==
  /\ pay[p].status # "CONFIRMED" /\ pay'[p].status = "CONFIRMED" /\ pay'[p].items = S
  /\ \A q \in Payments \ {p} :
       /\ pay'[q].purpose = pay[q].purpose /\ pay'[q].items = pay[q].items
       /\ pay'[q].status = "CONFIRMED" <=> pay[q].status = "CONFIRMED"
  /\ \A r \in Renewals \intersect S :
       /\ paidBy[r] = 0 \/ r \in contested
       /\ paidBy'[r] = p /\ renewal'[r] = "applied"
       /\ renewal[r] = "applied" \/ contract = "ACTIVE"
  /\ \A r \in Renewals \ S : paidBy'[r] = paidBy[r] /\ renewal'[r] = renewal[r]
  /\ contract # "ACTIVE" => contract' # "ACTIVE"
  /\ contested' = contested

LEMMA SettlesPaid ==
  ASSUME TypeOK, Paid, NEW p \in Payments, NEW S, Settles(p, S)
  PROVE  /\ \A q \in Payments, r \in Renewals :
              pay'[q].status = "CONFIRMED" /\ r \in pay'[q].items =>
                \/ paidBy'[r] = q
                \/ paidBy'[r] # 0 /\ r \in contested'
                \/ pay'[q].purpose = "RENEWAL" /\ renewal'[r] = "approved" /\ contract' # "ACTIVE"
         /\ \A r \in Renewals : paidBy'[r] # 0 =>
              /\ renewal'[r] = "applied"
              /\ pay'[paidBy'[r]].status = "CONFIRMED"
              /\ r \in pay'[paidBy'[r]].items
  <1>1. ASSUME NEW q \in Payments, NEW r \in Renewals,
               pay'[q].status = "CONFIRMED", r \in pay'[q].items
        PROVE  \/ paidBy'[r] = q
               \/ paidBy'[r] # 0 /\ r \in contested'
               \/ pay'[q].purpose = "RENEWAL" /\ renewal'[r] = "approved" /\ contract' # "ACTIVE"
    <2>1. CASE q = p
      BY <1>1, <2>1 DEF Settles
    <2>2. CASE q # p
      <3>1. /\ pay[q].status = "CONFIRMED" /\ r \in pay[q].items
            /\ pay'[q].purpose = pay[q].purpose
        BY <1>1, <2>2 DEF Settles
      <3>2. CASE r \in S
        BY <3>1, <3>2, PaymentIds DEF Settles, Paid
      <3>3. CASE r \notin S
        BY <3>1, <3>3 DEF Settles, Paid
      <3> QED
        BY <3>2, <3>3
    <2> QED
      BY <2>1, <2>2
  <1>2. ASSUME NEW r \in Renewals, paidBy'[r] # 0
        PROVE  /\ renewal'[r] = "applied"
               /\ pay'[paidBy'[r]].status = "CONFIRMED"
               /\ r \in pay'[paidBy'[r]].items
    BY <1>2 DEF Settles, Paid, TypeOK
  <1> QED
    BY <1>1, <1>2

LEMMA ShapedStep == TypeOK /\ Shaped /\ [Next]_vars => Shaped'
  <1> SUFFICES ASSUME TypeOK, Shaped, [Next]_vars PROVE Shaped'
    OBVIOUS
  <1> DEFINE Goal == Shaped'
  <1> USE DEF TypeOK, Shaped, ShapedRow
  <1>1. CASE offerRenewal
    BY <1>1 DEF offerRenewal, recon, road, jobs, cash, reads
  <1>2. CASE confirmRenewalPublic
    BY <1>2 DEF confirmRenewalPublic, recon, road, jobs, cash, reads
  <1>3. CASE prepareOfficeRenewalRegistration
    <2> DEFINE S == UNION {Active("RENEWAL", {r}) : r \in Unapplied}
    <2> SUFFICES ASSUME NEW q \in Payments PROVE ShapedRow(q)'
      BY DEF Shaped
    <2>1. pay[q].status = "PROCESSING" \/ q \notin S
      BY DEF Active, Purposed
    <2>0. /\ pay' = Cancelled(S)
          /\ session' = [p \in Payments |-> IF p \in S /\ session[p] = "open" THEN "expired"
                                                                              ELSE session[p]]
      BY <1>3 DEF prepareOfficeRenewalRegistration
    <2> HIDE DEF S
    <2>2. /\ pay'[q].status = IF q \in S THEN "CANCELLED" ELSE pay[q].status
          /\ pay'[q].purpose = pay[q].purpose
          /\ pay'[q].items = pay[q].items
          /\ q \notin S => pay'[q] = pay[q] /\ session'[q] = session[q]
      BY <2>0 DEF Cancelled, TypeOK
    <2>3. CASE q \in S
      BY <2>1, <2>2, <2>3, NoPayFields DEF Shaped, ShapedRow
    <2> QED
      BY <2>2, <2>3 DEF Shaped, ShapedRow
  <1>4. CASE renew
    BY <1>4 DEF renew, RegisterRenewal, Unapplied, recon, road, cash, reads
  <1>5. CASE renewRefused
    BY <1>5 DEF renewRefused, terms, recon, road, cash, reads
  <1>6. ASSUME NEW r \in Renewals, settleRenewalCashRead(r) PROVE Goal
    BY <1>6 DEF settleRenewalCashRead, Outstanding, terms, recon, road, cash, reads
  <1>7. ASSUME NEW r \in Renewals, settleRenewalCashWrite(r) PROVE Goal
    <2>1. CASE UNCHANGED <<pay, session>>
      BY <2>1
    <2>2. CASE \E p \in Payments : /\ pay' = [pay EXCEPT ![p] = Pay("CONFIRMED", "RENEWAL", {r})]
                                  /\ session' = [session EXCEPT ![p] = "CASH"]
      BY <2>2 DEF Pay, NoPay
    <2> QED
      BY <1>7, <2>1, <2>2 DEF settleRenewalCashWrite, Confirm
  <1>8. CASE confirmReturn
    BY <1>8 DEF confirmReturn, recon, road, jobs, cash, reads
  <1>9. CASE carIn
    BY <1>9 DEF carIn, recon, road, jobs, cash, reads
  <1>10. CASE editLinesRead
    BY <1>10 DEF editLinesRead, Editable, terms, recon, road, cash, reads
  <1>11. CASE editLinesWrite
    BY <1>11 DEF editLinesWrite, terms, road, cash, reads
  <1>12. ASSUME NEW l \in Liabilities, ingestLiability(l) PROVE Goal
    BY <1>12 DEF ingestLiability, terms, recon, jobs, cash, reads
  <1>13. ASSUME NEW l \in Liabilities, chargeLineRead(l) PROVE Goal
    BY <1>13 DEF chargeLineRead, Editable, Chargeable, terms, recon, road, cash, reads
  <1>14. ASSUME NEW l \in Liabilities, chargeLineWrite(l) PROVE Goal
    BY <1>14 DEF chargeLineWrite, terms, cash, reads
  <1>15. ASSUME NEW l \in Liabilities, chargeReceivable(l) PROVE Goal
    BY <1>15 DEF chargeReceivable, Chargeable, terms, recon, jobs, cash, reads
  <1>16. CASE ensureReconciliationFinalized
    BY <1>16 DEF ensureReconciliationFinalized, terms, road, jobs, cash, reads
  <1>17. CASE settleReconciliationWithoutPayment
    BY <1>17 DEF settleReconciliationWithoutPayment, CloseContract, road, jobs, cash, reads
  <1>18. CASE close
    BY <1>18 DEF close, CloseContract, recon, road, jobs, cash, reads
  <1>19. CASE prepareReconciliationCashCollection
    BY <1>19 DEF prepareReconciliationCashCollection, InFlight, Active, Purposed, terms,
       recon, road, reads
  <1>20. CASE settleReconciliationCashRead
    BY <1>20 DEF settleReconciliationCashRead, terms, recon, road, cash
  <1>20w. CASE settleReconciliationCashWrite
    <2>1. PICK p \in Payments :
            /\ pay' = [Cancelled(InFlight) EXCEPT ![p] = Pay("CONFIRMED", "RECONCILIATION", lines \union counted)]
            /\ session' = [session EXCEPT ![p] = "CASH"]
      BY <1>20w DEF settleReconciliationCashWrite, TakeCash
    <2>2. pay'[p] = Pay("CONFIRMED", "RECONCILIATION", lines \union counted) /\ session'[p] = "CASH"
      BY <2>1 DEF Cancelled
    <2>3. \A q \in Payments \ {p} :
            /\ pay'[q].purpose = pay[q].purpose /\ pay'[q].items = pay[q].items
            /\ pay'[q] = pay[q] \/ (pay[q].status = "PROCESSING" /\ pay'[q].status = "CANCELLED")
            /\ session'[q] = session[q]
      BY <2>1 DEF Cancelled, InFlight, Active, Purposed
    <2> QED
      BY <2>2, <2>3, NoPayFields DEF Pay
  <1>21. CASE cashRefused
    BY <1>21 DEF cashRefused, terms, recon, road
  <1>22. ASSUME NEW r \in Renewals, startRenewalPaymentPublic(r) PROVE Goal
    BY <1>22 DEF startRenewalPaymentPublic, Claim, New, Pay, terms, recon, road, jobs,
       cash, reads, NoPay
  <1>23. CASE startReconciliationPayment
    BY <1>23 DEF startReconciliationPayment, Claim, New, Pay, Due, Outstanding, terms,
       recon, road, jobs, cash, reads, NoPay
  <1>24. ASSUME NEW l \in Liabilities, startPostClosePayment(l) PROVE Goal
    BY <1>24 DEF startPostClosePayment, Claim, New, Pay, terms, recon, road, jobs, cash, reads,
       NoPay
  <1>25. ASSUME NEW p \in Payments, createCheckoutSession(p) PROVE Goal
    BY <1>25 DEF createCheckoutSession, NoPay, Pay
  <1>26. ASSUME NEW p \in Payments, storeCheckoutSession(p) PROVE Goal
    <2> SUFFICES ASSUME NEW q \in Payments PROVE ShapedRow(q)'
      BY DEF Shaped
    <2>1. pay[p] # NoPay /\ pay[p].purpose # "NONE"
      BY <1>26 DEF storeCheckoutSession, Shaped, ShapedRow
    <2>2. /\ pay'[q].purpose = pay[q].purpose /\ pay'[q].items = pay[q].items
          /\ q # p => pay'[q] = pay[q] /\ session'[q] = session[q]
          /\ q = p => pay'[q].status = "PROCESSING"
      BY <1>26 DEF storeCheckoutSession, TypeOK
    <2>3. CASE q = p
      BY <2>1, <2>2, <2>3, NoPayFields DEF Shaped, ShapedRow
    <2> QED
      BY <2>2, <2>3 DEF Shaped, ShapedRow
  <1>27. ASSUME NEW p \in Payments, customerPays(p) PROVE Goal
    BY <1>27 DEF customerPays, terms, recon, road, jobs, cash, reads
  <1>28. ASSUME NEW p \in Payments, sessionExpires(p) PROVE Goal
    BY <1>28 DEF sessionExpires, terms, recon, road, jobs, cash, reads
  <1>29. ASSUME NEW p \in Payments, confirmReconciliationRead(p) PROVE Goal
    BY <1>29 DEF confirmReconciliationRead, terms, recon, road, cash
  <1>29w. ASSUME NEW p \in Payments, confirmReconciliationWrite(p) PROVE Goal
    BY <1>29w DEF confirmReconciliationWrite, SettleReconciliation, Confirm, LinkRenewals,
       CloseContract, Pay, jobs, cash, reads, NoPay
  <1>30. ASSUME NEW p \in Payments, confirmRenewal(p) PROVE Goal
    BY <1>30 DEF confirmRenewal, Confirm, LinkRenewals, Pay, recon, road, jobs, cash, reads,
       NoPay
  <1>31. ASSUME NEW p \in Payments, confirmReceivable(p) PROVE Goal
    BY <1>31 DEF confirmReceivable, Confirm, Pay, terms, recon, jobs, cash, reads, NoPay
  <1>32. ASSUME NEW p \in Payments, cancelExpired(p) PROVE Goal
    <2> SUFFICES ASSUME NEW q \in Payments PROVE ShapedRow(q)'
      BY DEF Shaped
    <2>1. /\ pay'[q].purpose = pay[q].purpose /\ pay'[q].items = pay[q].items
          /\ q # p => pay'[q] = pay[q]
          /\ q = p => pay[q].status = "PROCESSING" /\ pay'[q].status = "CANCELLED"
          /\ session' = session
      BY <1>32 DEF cancelExpired, Cancelled, TypeOK
    <2>2. CASE q = p
      BY <2>1, <2>2, NoPayFields DEF Shaped, ShapedRow
    <2> QED
      BY <2>1, <2>2 DEF Shaped, ShapedRow
  <1>33. CASE UNCHANGED vars
    BY <1>33 DEF vars
  <1> QED
    BY <1>1, <1>2, <1>3, <1>4, <1>5, <1>6, <1>7, <1>8, <1>9, <1>10, <1>11, <1>12, <1>13,
       <1>14, <1>15, <1>16, <1>17, <1>18, <1>19, <1>20, <1>20w, <1>21, <1>22, <1>23, <1>24,
       <1>25, <1>26, <1>27, <1>28, <1>29, <1>29w, <1>30, <1>31, <1>32, <1>33 DEF Next, Renewing,
       Reconciling, Starting, Card

LEMMA CollectingStep == TypeOK /\ Shaped /\ Collecting /\ Reading /\ [Next]_vars => Collecting'
  <1> SUFFICES ASSUME TypeOK, Shaped, Collecting, Reading, [Next]_vars PROVE Collecting'
    OBVIOUS
  <1> DEFINE Goal == Collecting'
  <1> USE DEF TypeOK, Shaped, Collecting, Live, ShapedRow
  <1>1. CASE offerRenewal
    BY <1>1 DEF offerRenewal, recon, road, jobs, cash, reads
  <1>2. CASE confirmRenewalPublic
    BY <1>2 DEF confirmRenewalPublic, recon, road, jobs, cash, reads
  <1>3. CASE prepareOfficeRenewalRegistration
    BY <1>3 DEF prepareOfficeRenewalRegistration, Cancelled, Active, Purposed, terms,
       recon, road, cash, reads, Unapplied, Pay, NoPay
  <1>4. CASE renew
    BY <1>4 DEF renew, RegisterRenewal, Unapplied, recon, road, cash, reads
  <1>5. CASE renewRefused
    BY <1>5 DEF renewRefused, terms, recon, road, cash, reads
  <1>6. ASSUME NEW r \in Renewals, settleRenewalCashRead(r) PROVE Goal
    BY <1>6 DEF settleRenewalCashRead, Outstanding, terms, recon, road, cash, reads
  <1>7. ASSUME NEW r \in Renewals, settleRenewalCashWrite(r) PROVE Goal
    <2>0. UNCHANGED neutralized
      BY <1>7 DEF settleRenewalCashWrite, cash
    <2>1. CASE UNCHANGED <<pay, session>>
      BY <2>0, <2>1
    <2>2. CASE \E p \in Payments : /\ pay[p] = NoPay
                                  /\ pay' = [pay EXCEPT ![p] = Pay("CONFIRMED", "RENEWAL", {r})]
                                  /\ session' = [session EXCEPT ![p] = "CASH"]
      BY <2>0, <2>2 DEF Pay
    <2> QED
      BY <1>7, <2>1, <2>2 DEF settleRenewalCashWrite, New, Confirm
  <1>8. CASE confirmReturn
    BY <1>8 DEF confirmReturn, recon, road, jobs, cash, reads
  <1>9. CASE carIn
    BY <1>9 DEF carIn, recon, road, jobs, cash, reads
  <1>10. CASE editLinesRead
    BY <1>10 DEF editLinesRead, Editable, terms, recon, road, cash, reads
  <1>11. CASE editLinesWrite
    BY <1>11 DEF editLinesWrite, terms, road, cash, reads
  <1>12. ASSUME NEW l \in Liabilities, ingestLiability(l) PROVE Goal
    BY <1>12 DEF ingestLiability, terms, recon, jobs, cash, reads
  <1>13. ASSUME NEW l \in Liabilities, chargeLineRead(l) PROVE Goal
    BY <1>13 DEF chargeLineRead, Editable, Chargeable, terms, recon, road, cash, reads
  <1>14. ASSUME NEW l \in Liabilities, chargeLineWrite(l) PROVE Goal
    BY <1>14 DEF chargeLineWrite, terms, cash, reads
  <1>15. ASSUME NEW l \in Liabilities, chargeReceivable(l) PROVE Goal
    BY <1>15 DEF chargeReceivable, Chargeable, terms, recon, jobs, cash, reads
  <1>16. CASE ensureReconciliationFinalized
    BY <1>16 DEF ensureReconciliationFinalized, terms, road, jobs, cash, reads
  <1>17. CASE settleReconciliationWithoutPayment
    BY <1>17 DEF settleReconciliationWithoutPayment, CloseContract, road, jobs, cash, reads
  <1>18. CASE close
    BY <1>18 DEF close, CloseContract, recon, road, jobs, cash, reads
  <1>19. CASE prepareReconciliationCashCollection
    BY <1>19 DEF prepareReconciliationCashCollection, InFlight, Active, Purposed, terms,
       recon, road, reads
  <1>20. CASE settleReconciliationCashRead
    BY <1>20 DEF settleReconciliationCashRead, terms, recon, road, cash
  <1>20w. CASE settleReconciliationCashWrite
    BY <1>20w DEF settleReconciliationCashWrite, TakeCash, CloseContract, LinkRenewals,
       Cancelled, InFlight, Active, Purposed, New, Pay, Due, Outstanding, Collectable,
       Confirmed, NoPay
  <1>21. CASE cashRefused
    BY <1>21 DEF cashRefused, terms, recon, road
  <1>22. ASSUME NEW r \in Renewals, startRenewalPaymentPublic(r) PROVE Goal
    BY <1>22 DEF startRenewalPaymentPublic, Claim, New, Pay, terms, recon, road, jobs,
       cash, reads, NoPay
  <1>23. CASE startReconciliationPayment
    <2>1. /\ \A q \in Payments : pay[q].purpose = "RECONCILIATION" => pay[q].status \notin Live
          /\ UNCHANGED <<session, neutralized>>
      BY <1>23 DEF startReconciliationPayment, Claim, Active, Confirmed, Purposed, jobs, cash, reads
    <2>2. PICK p \in Payments : pay[p] = NoPay
                               /\ pay' = [pay EXCEPT ![p] = Pay("PROCESSING", "RECONCILIATION", Due)]
      BY <1>23 DEF startReconciliationPayment, Claim, New
    <2> QED
      BY <2>1, <2>2 DEF Pay
  <1>24. ASSUME NEW l \in Liabilities, startPostClosePayment(l) PROVE Goal
    BY <1>24 DEF startPostClosePayment, Claim, New, Pay, terms, recon, road, jobs, cash, reads,
       NoPay
  <1>25. ASSUME NEW p \in Payments, createCheckoutSession(p) PROVE Goal
    BY <1>25 DEF createCheckoutSession, terms, recon, road, jobs, cash, reads
  <1>26. ASSUME NEW p \in Payments, storeCheckoutSession(p) PROVE Goal
    BY <1>26 DEF storeCheckoutSession, terms, recon, road, jobs, cash, reads, Pay, NoPay
  <1>27. ASSUME NEW p \in Payments, customerPays(p) PROVE Goal
    BY <1>27 DEF customerPays, terms, recon, road, jobs, cash, reads
  <1>28. ASSUME NEW p \in Payments, sessionExpires(p) PROVE Goal
    BY <1>28 DEF sessionExpires, terms, recon, road, jobs, cash, reads
  <1>29. ASSUME NEW p \in Payments, confirmReconciliationRead(p) PROVE Goal
    BY <1>29 DEF confirmReconciliationRead, terms, recon, road, cash
  <1>29w. ASSUME NEW p \in Payments, confirmReconciliationWrite(p) PROVE Goal
    <2>1. /\ pay' = [pay EXCEPT ![p] = Pay("CONFIRMED", "RECONCILIATION", pay[p].items)]
          /\ UNCHANGED <<session, neutralized>>
      BY <1>29w DEF confirmReconciliationWrite, SettleReconciliation, Confirm, cash
    <2>2. session[p] = "paid" /\ pay[p].purpose = "RECONCILIATION"
      BY <1>29w DEF confirmReconciliationWrite, Reading
    <2> QED
      BY <2>1, <2>2 DEF Pay
  <1>30. ASSUME NEW p \in Payments, confirmRenewal(p) PROVE Goal
    BY <1>30 DEF confirmRenewal, Confirm, LinkRenewals, Pay, recon, road, jobs, cash, reads,
       NoPay
  <1>31. ASSUME NEW p \in Payments, confirmReceivable(p) PROVE Goal
    BY <1>31 DEF confirmReceivable, Confirm, Pay, terms, recon, jobs, cash, reads, NoPay
  <1>32. ASSUME NEW p \in Payments, cancelExpired(p) PROVE Goal
    BY <1>32 DEF cancelExpired, Cancelled, terms, recon, road, jobs, cash, reads, Pay, NoPay
  <1>33. CASE UNCHANGED vars
    BY <1>33 DEF vars
  <1> QED
    BY <1>1, <1>2, <1>3, <1>4, <1>5, <1>6, <1>7, <1>8, <1>9, <1>10, <1>11, <1>12, <1>13,
       <1>14, <1>15, <1>16, <1>17, <1>18, <1>19, <1>20, <1>20w, <1>21, <1>22, <1>23, <1>24,
       <1>25, <1>26, <1>27, <1>28, <1>29, <1>29w, <1>30, <1>31, <1>32, <1>33 DEF Next, Renewing,
       Reconciling, Starting, Card

LEMMA OneConfirmedStep == TypeOK /\ Shaped /\ Collecting /\ OneConfirmed /\ [Next]_vars => OneConfirmed'
  <1> SUFFICES ASSUME TypeOK, Shaped, Collecting, OneConfirmed, [Next]_vars PROVE OneConfirmed'
    OBVIOUS
  <1> DEFINE Goal == OneConfirmed'
  <1> USE DEF TypeOK, Shaped, Collecting, OneConfirmed, ShapedRow
  <1>1. CASE offerRenewal
    BY <1>1 DEF offerRenewal, recon, road, jobs, cash, reads
  <1>2. CASE confirmRenewalPublic
    BY <1>2 DEF confirmRenewalPublic, recon, road, jobs, cash, reads
  <1>3. CASE prepareOfficeRenewalRegistration
    BY <1>3 DEF prepareOfficeRenewalRegistration, Cancelled, Active, Purposed, terms,
       recon, road, cash, reads, Unapplied, Pay, NoPay
  <1>4. CASE renew
    BY <1>4 DEF renew, RegisterRenewal, Unapplied, recon, road, cash, reads
  <1>5. CASE renewRefused
    BY <1>5 DEF renewRefused, terms, recon, road, cash, reads
  <1>6. ASSUME NEW r \in Renewals, settleRenewalCashRead(r) PROVE Goal
    BY <1>6 DEF settleRenewalCashRead, Outstanding, terms, recon, road, cash, reads
  <1>7. ASSUME NEW r \in Renewals, settleRenewalCashWrite(r) PROVE Goal
    <2>1. CASE UNCHANGED pay
      BY <2>1
    <2>2. CASE \E p \in Payments : Confirm(p, "RENEWAL", {r})
      <3>1. PICK p \in Payments : Confirm(p, "RENEWAL", {r})
        BY <2>2
      <3>2. /\ pay'[p] = Pay("CONFIRMED", "RENEWAL", {r})
            /\ \A q \in Payments \ {p} : pay'[q] = pay[q]
        BY <3>1 DEF Confirm
      <3> QED
        BY <3>1, <3>2 DEF Confirm, Purposed, Pay
    <2> QED
      BY <1>7, <2>1, <2>2 DEF settleRenewalCashWrite
  <1>8. CASE confirmReturn
    BY <1>8 DEF confirmReturn, recon, road, jobs, cash, reads
  <1>9. CASE carIn
    BY <1>9 DEF carIn, recon, road, jobs, cash, reads
  <1>10. CASE editLinesRead
    BY <1>10 DEF editLinesRead, Editable, terms, recon, road, cash, reads
  <1>11. CASE editLinesWrite
    BY <1>11 DEF editLinesWrite, terms, road, cash, reads
  <1>12. ASSUME NEW l \in Liabilities, ingestLiability(l) PROVE Goal
    BY <1>12 DEF ingestLiability, terms, recon, jobs, cash, reads
  <1>13. ASSUME NEW l \in Liabilities, chargeLineRead(l) PROVE Goal
    BY <1>13 DEF chargeLineRead, Editable, Chargeable, terms, recon, road, cash, reads
  <1>14. ASSUME NEW l \in Liabilities, chargeLineWrite(l) PROVE Goal
    BY <1>14 DEF chargeLineWrite, terms, cash, reads
  <1>15. ASSUME NEW l \in Liabilities, chargeReceivable(l) PROVE Goal
    BY <1>15 DEF chargeReceivable, Chargeable, terms, recon, jobs, cash, reads
  <1>16. CASE ensureReconciliationFinalized
    BY <1>16 DEF ensureReconciliationFinalized, terms, road, jobs, cash, reads
  <1>17. CASE settleReconciliationWithoutPayment
    BY <1>17 DEF settleReconciliationWithoutPayment, CloseContract, road, jobs, cash, reads
  <1>18. CASE close
    BY <1>18 DEF close, CloseContract, recon, road, jobs, cash, reads
  <1>19. CASE prepareReconciliationCashCollection
    BY <1>19 DEF prepareReconciliationCashCollection, InFlight, Active, Purposed, terms,
       recon, road, reads
  <1>20. CASE settleReconciliationCashRead
    BY <1>20 DEF settleReconciliationCashRead, terms, recon, road, cash
  <1>20w. CASE settleReconciliationCashWrite
    BY <1>20w DEF settleReconciliationCashWrite, TakeCash, CloseContract, LinkRenewals,
       Cancelled, InFlight, Active, Purposed, New, Pay, Due, Outstanding, Collectable,
       Confirmed, NoPay
  <1>21. CASE cashRefused
    BY <1>21 DEF cashRefused, terms, recon, road
  <1>22. ASSUME NEW r \in Renewals, startRenewalPaymentPublic(r) PROVE Goal
    BY <1>22 DEF startRenewalPaymentPublic, Claim, New, Pay, terms, recon, road, jobs,
       cash, reads, NoPay
  <1>23. CASE startReconciliationPayment
    BY <1>23 DEF startReconciliationPayment, Claim, New, Pay, Due, Outstanding, terms,
       recon, road, jobs, cash, reads, NoPay
  <1>24. ASSUME NEW l \in Liabilities, startPostClosePayment(l) PROVE Goal
    BY <1>24 DEF startPostClosePayment, Claim, New, Pay, terms, recon, road, jobs, cash, reads,
       NoPay
  <1>25. ASSUME NEW p \in Payments, createCheckoutSession(p) PROVE Goal
    BY <1>25 DEF createCheckoutSession, terms, recon, road, jobs, cash, reads
  <1>26. ASSUME NEW p \in Payments, storeCheckoutSession(p) PROVE Goal
    BY <1>26 DEF storeCheckoutSession, terms, recon, road, jobs, cash, reads, Pay, NoPay
  <1>27. ASSUME NEW p \in Payments, customerPays(p) PROVE Goal
    BY <1>27 DEF customerPays, terms, recon, road, jobs, cash, reads
  <1>28. ASSUME NEW p \in Payments, sessionExpires(p) PROVE Goal
    BY <1>28 DEF sessionExpires, terms, recon, road, jobs, cash, reads
  <1>29. ASSUME NEW p \in Payments, confirmReconciliationRead(p) PROVE Goal
    BY <1>29 DEF confirmReconciliationRead, terms, recon, road, cash
  <1>29w. ASSUME NEW p \in Payments, confirmReconciliationWrite(p) PROVE Goal
    BY <1>29w DEF confirmReconciliationWrite, SettleReconciliation, Confirm, LinkRenewals,
       CloseContract, Pay, jobs, cash, reads, NoPay
  <1>30. ASSUME NEW p \in Payments, confirmRenewal(p) PROVE Goal
    <2>1. PICK r \in Renewals : Confirm(p, "RENEWAL", {r})
      BY <1>30 DEF confirmRenewal
    <2>2. /\ pay'[p] = Pay("CONFIRMED", "RENEWAL", {r})
          /\ \A q \in Payments \ {p} : pay'[q] = pay[q]
      BY <2>1 DEF Confirm
    <2> QED
      BY <2>1, <2>2 DEF Confirm, Purposed, Pay
  <1>31. ASSUME NEW p \in Payments, confirmReceivable(p) PROVE Goal
    <2>1. PICK l \in Liabilities : Confirm(p, "POST_CLOSE_RECEIVABLE", {l})
      BY <1>31 DEF confirmReceivable
    <2>2. /\ pay'[p] = Pay("CONFIRMED", "POST_CLOSE_RECEIVABLE", {l})
          /\ \A q \in Payments \ {p} : pay'[q] = pay[q]
      BY <2>1 DEF Confirm
    <2> QED
      BY <2>1, <2>2 DEF Confirm, Purposed, Pay
  <1>32. ASSUME NEW p \in Payments, cancelExpired(p) PROVE Goal
    BY <1>32 DEF cancelExpired, Cancelled, terms, recon, road, jobs, cash, reads, Pay, NoPay
  <1>33. CASE UNCHANGED vars
    BY <1>33 DEF vars
  <1> QED
    BY <1>1, <1>2, <1>3, <1>4, <1>5, <1>6, <1>7, <1>8, <1>9, <1>10, <1>11, <1>12, <1>13,
       <1>14, <1>15, <1>16, <1>17, <1>18, <1>19, <1>20, <1>20w, <1>21, <1>22, <1>23, <1>24,
       <1>25, <1>26, <1>27, <1>28, <1>29, <1>29w, <1>30, <1>31, <1>32, <1>33 DEF Next, Renewing,
       Reconciling, Starting, Card

LEMMA ChargedStep == TypeOK /\ Shaped /\ Charged /\ Reading /\ [Next]_vars => Charged'
  <1> SUFFICES ASSUME TypeOK, Shaped, Charged, Reading, [Next]_vars PROVE Charged'
    OBVIOUS
  <1> DEFINE Goal == Charged'
  <1> USE DEF TypeOK, Shaped, Charged, ShapedRow
  <1>1. CASE offerRenewal
    BY <1>1 DEF offerRenewal, recon, road, jobs, cash, reads
  <1>2. CASE confirmRenewalPublic
    BY <1>2 DEF confirmRenewalPublic, recon, road, jobs, cash, reads
  <1>3. CASE prepareOfficeRenewalRegistration
    BY <1>3 DEF prepareOfficeRenewalRegistration, Cancelled, Active, Purposed, terms,
       recon, road, cash, reads, Unapplied, Pay, NoPay
  <1>4. CASE renew
    BY <1>4 DEF renew, RegisterRenewal, Unapplied, recon, road, cash, reads
  <1>5. CASE renewRefused
    BY <1>5 DEF renewRefused, terms, recon, road, cash, reads
  <1>6. ASSUME NEW r \in Renewals, settleRenewalCashRead(r) PROVE Goal
    BY <1>6 DEF settleRenewalCashRead, Outstanding, terms, recon, road, cash, reads
  <1>7. ASSUME NEW r \in Renewals, settleRenewalCashWrite(r) PROVE Goal
    <2>1. CASE UNCHANGED pay
      BY <1>7, <2>1 DEF settleRenewalCashWrite, recon, road
    <2>2. CASE \E p \in Payments : pay' = [pay EXCEPT ![p] = Pay("CONFIRMED", "RENEWAL", {r})]
      BY <1>7, <2>2 DEF settleRenewalCashWrite, recon, road, Pay
    <2> QED
      BY <1>7, <2>1, <2>2 DEF settleRenewalCashWrite, Confirm
  <1>8. CASE confirmReturn
    BY <1>8 DEF confirmReturn, recon, road, jobs, cash, reads
  <1>9. CASE carIn
    BY <1>9 DEF carIn, recon, road, jobs, cash, reads
  <1>10. CASE editLinesRead
    BY <1>10 DEF editLinesRead, Editable, terms, recon, road, cash, reads
  <1>11. CASE editLinesWrite
    <2>1. \A l \in Liabilities : l \in lines' => l \in lines
      BY <1>11, SettlementConstants DEF editLinesWrite
    <2> QED
      BY <1>11, <2>1 DEF editLinesWrite, road
  <1>12. ASSUME NEW l \in Liabilities, ingestLiability(l) PROVE Goal
    BY <1>12 DEF ingestLiability, terms, recon, jobs, cash, reads
  <1>13. ASSUME NEW l \in Liabilities, chargeLineRead(l) PROVE Goal
    BY <1>13 DEF chargeLineRead, Editable, Chargeable, terms, recon, road, cash, reads
  <1>14. ASSUME NEW l \in Liabilities, chargeLineWrite(l) PROVE Goal
    BY <1>14 DEF chargeLineWrite, terms, cash, reads
  <1>15. ASSUME NEW l \in Liabilities, chargeReceivable(l) PROVE Goal
    BY <1>15 DEF chargeReceivable, Chargeable, terms, recon, jobs, cash, reads
  <1>16. CASE ensureReconciliationFinalized
    BY <1>16 DEF ensureReconciliationFinalized, terms, road, jobs, cash, reads
  <1>17. CASE settleReconciliationWithoutPayment
    BY <1>17 DEF settleReconciliationWithoutPayment, CloseContract, road, jobs, cash, reads
  <1>18. CASE close
    BY <1>18 DEF close, CloseContract, recon, road, jobs, cash, reads
  <1>19. CASE prepareReconciliationCashCollection
    BY <1>19 DEF prepareReconciliationCashCollection, InFlight, Active, Purposed, terms,
       recon, road, reads
  <1>20. CASE settleReconciliationCashRead
    BY <1>20 DEF settleReconciliationCashRead, terms, recon, road, cash
  <1>20w. CASE settleReconciliationCashWrite
    <2>1. PICK p \in Payments :
            pay' = [Cancelled(InFlight) EXCEPT ![p] = Pay("CONFIRMED", "RECONCILIATION", lines \union counted)]
      BY <1>20w DEF settleReconciliationCashWrite, TakeCash
    <2>2. pay'[p] = Pay("CONFIRMED", "RECONCILIATION", lines \union counted)
      BY <2>1 DEF Cancelled
    <2>3. \A q \in Payments \ {p} : pay'[q].purpose = pay[q].purpose /\ pay'[q].items = pay[q].items
      BY <2>1 DEF Cancelled
    <2>4. \A l \in Liabilities \intersect (lines \union counted) : charge[l] = "line"
      BY SettlementConstants
    <2>5. UNCHANGED <<lines, charge, charging>>
      BY <1>20w DEF settleReconciliationCashWrite, TakeCash
    <2> QED
      BY <2>2, <2>3, <2>4, <2>5 DEF Pay
  <1>21. CASE cashRefused
    BY <1>21 DEF cashRefused, terms, recon, road
  <1>22. ASSUME NEW r \in Renewals, startRenewalPaymentPublic(r) PROVE Goal
    BY <1>22 DEF startRenewalPaymentPublic, Claim, New, Pay, terms, recon, road, jobs,
       cash, reads, NoPay
  <1>23. CASE startReconciliationPayment
    <2>1. PICK p \in Payments : pay' = [pay EXCEPT ![p] = Pay("PROCESSING", "RECONCILIATION", Due)]
      BY <1>23 DEF startReconciliationPayment, Claim
    <2>2. \A l \in Liabilities \intersect Due : charge[l] = "line"
      BY SettlementConstants DEF Due, Outstanding
    <2> QED
      BY <1>23, <2>1, <2>2 DEF startReconciliationPayment, Claim, Pay, recon, road, jobs
  <1>24. ASSUME NEW l \in Liabilities, startPostClosePayment(l) PROVE Goal
    BY <1>24 DEF startPostClosePayment, Claim, New, Pay, terms, recon, road, jobs, cash, reads,
       NoPay
  <1>25. ASSUME NEW p \in Payments, createCheckoutSession(p) PROVE Goal
    BY <1>25 DEF createCheckoutSession, terms, recon, road, jobs, cash, reads
  <1>26. ASSUME NEW p \in Payments, storeCheckoutSession(p) PROVE Goal
    BY <1>26 DEF storeCheckoutSession, terms, recon, road, jobs, cash, reads, Pay, NoPay
  <1>27. ASSUME NEW p \in Payments, customerPays(p) PROVE Goal
    BY <1>27 DEF customerPays, terms, recon, road, jobs, cash, reads
  <1>28. ASSUME NEW p \in Payments, sessionExpires(p) PROVE Goal
    BY <1>28 DEF sessionExpires, terms, recon, road, jobs, cash, reads
  <1>29. ASSUME NEW p \in Payments, confirmReconciliationRead(p) PROVE Goal
    BY <1>29 DEF confirmReconciliationRead, terms, recon, road, cash
  <1>29w. ASSUME NEW p \in Payments, confirmReconciliationWrite(p) PROVE Goal
    <2>1. /\ pay' = [pay EXCEPT ![p] = Pay("CONFIRMED", "RECONCILIATION", pay[p].items)]
          /\ UNCHANGED <<lines, charge, charging>>
      BY <1>29w DEF confirmReconciliationWrite, SettleReconciliation, Confirm
    <2>2. pay[p].purpose = "RECONCILIATION"
      BY <1>29w DEF confirmReconciliationWrite, Reading
    <2> QED
      BY <2>1, <2>2 DEF Pay
  <1>30. ASSUME NEW p \in Payments, confirmRenewal(p) PROVE Goal
    BY <1>30 DEF confirmRenewal, Confirm, LinkRenewals, Pay, recon, road, jobs, cash, reads,
       NoPay
  <1>31. ASSUME NEW p \in Payments, confirmReceivable(p) PROVE Goal
    BY <1>31 DEF confirmReceivable, Confirm, Pay, terms, recon, jobs, cash, reads, NoPay
  <1>32. ASSUME NEW p \in Payments, cancelExpired(p) PROVE Goal
    BY <1>32 DEF cancelExpired, Cancelled, terms, recon, road, jobs, cash, reads, Pay, NoPay
  <1>33. CASE UNCHANGED vars
    BY <1>33 DEF vars
  <1> QED
    BY <1>1, <1>2, <1>3, <1>4, <1>5, <1>6, <1>7, <1>8, <1>9, <1>10, <1>11, <1>12, <1>13,
       <1>14, <1>15, <1>16, <1>17, <1>18, <1>19, <1>20, <1>20w, <1>21, <1>22, <1>23, <1>24,
       <1>25, <1>26, <1>27, <1>28, <1>29, <1>29w, <1>30, <1>31, <1>32, <1>33 DEF Next, Renewing,
       Reconciling, Starting, Card

LEMMA PaidStep == TypeOK /\ Shaped /\ Collecting /\ Paid /\ Reading /\ [Next]_vars => Paid'
  <1> SUFFICES ASSUME TypeOK, Shaped, Collecting, Paid, Reading, [Next]_vars PROVE Paid'
    OBVIOUS
  <1> DEFINE Goal == Paid'
  <1> USE DEF TypeOK, Shaped, Collecting, Paid, ShapedRow
  <1>1. CASE offerRenewal
    BY <1>1 DEF offerRenewal, recon, road, jobs, cash, reads
  <1>2. CASE confirmRenewalPublic
    BY <1>2 DEF confirmRenewalPublic, recon, road, jobs, cash, reads
  <1>3. CASE prepareOfficeRenewalRegistration
    BY <1>3 DEF prepareOfficeRenewalRegistration, Cancelled, Active, Purposed, terms,
       recon, road, cash, reads, Unapplied, Pay, NoPay
  <1>4. CASE renew
    BY <1>4 DEF renew, RegisterRenewal, Unapplied, recon, road, cash, reads
  <1>5. CASE renewRefused
    BY <1>5 DEF renewRefused, terms, recon, road, cash, reads
  <1>6. ASSUME NEW r \in Renewals, settleRenewalCashRead(r) PROVE Goal
    BY <1>6 DEF settleRenewalCashRead, Outstanding, terms, recon, road, cash, reads
  <1>7. ASSUME NEW r \in Renewals, settleRenewalCashWrite(r) PROVE Goal
    <2>1. CASE UNCHANGED <<pay, paidBy>>
      BY <1>7, <2>1 DEF settleRenewalCashWrite, reads
    <2>2. CASE \E p \in Payments : New(p) /\ Confirm(p, "RENEWAL", {r}) /\ LinkRenewals(p, {r})
      <3>1. PICK p \in Payments : New(p) /\ Confirm(p, "RENEWAL", {r}) /\ LinkRenewals(p, {r})
        BY <2>2
      <3>2. /\ pay'[p] = Pay("CONFIRMED", "RENEWAL", {r}) /\ pay[p] = NoPay
            /\ \A q \in Payments \ {p} : pay'[q] = pay[q]
        BY <3>1 DEF Confirm, New
      <3>3. UNCHANGED <<contract, renewal, contested>> /\ desk' \subseteq desk /\ r \in desk
        BY <1>7 DEF settleRenewalCashWrite, reads
      <3>4. Settles(p, {r})
        BY <1>7, <3>1, <3>2, <3>3, NoPayFields DEF Settles, Reading, LinkRenewals, Pay
      <3> QED
        BY <3>2, <3>3, <3>4, SettlesPaid DEF Pay
    <2> QED
      BY <1>7, <2>1, <2>2 DEF settleRenewalCashWrite
  <1>8. CASE confirmReturn
    BY <1>8 DEF confirmReturn, recon, road, jobs, cash, reads
  <1>9. CASE carIn
    BY <1>9 DEF carIn, recon, road, jobs, cash, reads
  <1>10. CASE editLinesRead
    BY <1>10 DEF editLinesRead, Editable, terms, recon, road, cash, reads
  <1>11. CASE editLinesWrite
    BY <1>11 DEF editLinesWrite, terms, road, cash, reads
  <1>12. ASSUME NEW l \in Liabilities, ingestLiability(l) PROVE Goal
    BY <1>12 DEF ingestLiability, terms, recon, jobs, cash, reads
  <1>13. ASSUME NEW l \in Liabilities, chargeLineRead(l) PROVE Goal
    BY <1>13 DEF chargeLineRead, Editable, Chargeable, terms, recon, road, cash, reads
  <1>14. ASSUME NEW l \in Liabilities, chargeLineWrite(l) PROVE Goal
    BY <1>14 DEF chargeLineWrite, terms, cash, reads
  <1>15. ASSUME NEW l \in Liabilities, chargeReceivable(l) PROVE Goal
    BY <1>15 DEF chargeReceivable, Chargeable, terms, recon, jobs, cash, reads
  <1>16. CASE ensureReconciliationFinalized
    BY <1>16 DEF ensureReconciliationFinalized, terms, road, jobs, cash, reads
  <1>17. CASE settleReconciliationWithoutPayment
    BY <1>17 DEF settleReconciliationWithoutPayment, CloseContract, road, jobs, cash, reads
  <1>18. CASE close
    BY <1>18 DEF close, CloseContract, recon, road, jobs, cash, reads
  <1>19. CASE prepareReconciliationCashCollection
    BY <1>19 DEF prepareReconciliationCashCollection, InFlight, Active, Purposed, terms,
       recon, road, reads
  <1>20. CASE settleReconciliationCashRead
    BY <1>20 DEF settleReconciliationCashRead, Contest, terms, recon, road, cash
  <1>20w. CASE settleReconciliationCashWrite
    <2>1. PICK p \in Payments :
            /\ New(p) /\ LinkRenewals(p, counted)
            /\ pay' = [Cancelled(InFlight) EXCEPT
                         ![p] = Pay("CONFIRMED", "RECONCILIATION", lines \union counted)]
      BY <1>20w DEF settleReconciliationCashWrite, TakeCash
    <2>2. pay'[p] = Pay("CONFIRMED", "RECONCILIATION", lines \union counted) /\ pay[p] = NoPay
      BY <2>1 DEF Cancelled, New
    <2>3. \A q \in Payments \ {p} :
            /\ pay'[q].purpose = pay[q].purpose /\ pay'[q].items = pay[q].items
            /\ pay'[q].status = "CONFIRMED" <=> pay[q].status = "CONFIRMED"
      BY <2>1 DEF Cancelled, InFlight, Active, Purposed
    <2>4. Renewals \intersect (lines \union counted) = counted
      BY SettlementConstants
    <2>5. renewal' = renewal /\ desk' = desk /\ contract' = "CLOSED" /\ contested' = contested
      BY <1>20w DEF settleReconciliationCashWrite, TakeCash, CloseContract
    <2>6. \A r \in counted : renewal[r] = "applied" /\ (r \in contested \/ paidBy[r] = 0)
      BY <1>20w DEF settleReconciliationCashWrite, Collectable, Reading
    <2>7. Settles(p, lines \union counted)
      BY <2>1, <2>2, <2>3, <2>4, <2>5, <2>6, NoPayFields DEF Settles, LinkRenewals, Pay
    <2> QED
      <3>1. /\ \A q \in Payments : pay'[q].purpose = "RECONCILIATION" =>
                 \A r \in Renewals \intersect pay'[q].items : renewal'[r] = "applied"
            /\ \A r \in desk' : renewal'[r] = "applied"
        BY <2>2, <2>3, <2>4, <2>5, <2>6 DEF Pay
      <3> QED
        BY <2>7, <3>1, SettlesPaid
  <1>21. CASE cashRefused
    BY <1>21 DEF cashRefused, terms, recon, road
  <1>22. ASSUME NEW r \in Renewals, startRenewalPaymentPublic(r) PROVE Goal
    BY <1>22 DEF startRenewalPaymentPublic, Claim, New, Pay, terms, recon, road, jobs,
       cash, reads, NoPay
  <1>23. CASE startReconciliationPayment
    <2>1. PICK p \in Payments : pay[p] = NoPay
                               /\ pay' = [pay EXCEPT ![p] = Pay("PROCESSING", "RECONCILIATION", Due)]
      BY <1>23 DEF startReconciliationPayment, Claim, New
    <2>2. \A r \in Renewals \intersect Due : renewal[r] = "applied"
      BY SettlementConstants DEF Due, Outstanding
    <2>3. UNCHANGED <<contract, renewal, paidBy, desk, contested>>
      BY <1>23 DEF startReconciliationPayment, Claim, terms, jobs, reads
    <2>4. /\ pay'[p] = Pay("PROCESSING", "RECONCILIATION", Due)
          /\ \A q \in Payments \ {p} : pay'[q] = pay[q]
      BY <2>1
    <2>5. pay'[p].status # "CONFIRMED" /\ pay[p].status # "CONFIRMED" /\ pay'[p].items = Due
      BY <2>1, <2>4, NoPayFields DEF Pay
    <2>6. \A q \in Payments : pay'[q].status = "CONFIRMED" \/ pay[q].status = "CONFIRMED"
                                => pay'[q] = pay[q]
      BY <2>4, <2>5
    <2>7. \A q \in Payments : pay'[q].purpose = "RECONCILIATION" =>
            \A r \in Renewals \intersect pay'[q].items : renewal[r] = "applied"
      BY <2>2, <2>4, <2>5
    <2> QED
      BY <2>3, <2>6, <2>7
  <1>24. ASSUME NEW l \in Liabilities, startPostClosePayment(l) PROVE Goal
    BY <1>24 DEF startPostClosePayment, Claim, New, Pay, terms, recon, road, jobs, cash, reads,
       NoPay
  <1>25. ASSUME NEW p \in Payments, createCheckoutSession(p) PROVE Goal
    BY <1>25 DEF createCheckoutSession, terms, recon, road, jobs, cash, reads
  <1>26. ASSUME NEW p \in Payments, storeCheckoutSession(p) PROVE Goal
    BY <1>26 DEF storeCheckoutSession, terms, recon, road, jobs, cash, reads, Pay, NoPay
  <1>27. ASSUME NEW p \in Payments, customerPays(p) PROVE Goal
    BY <1>27 DEF customerPays, terms, recon, road, jobs, cash, reads
  <1>28. ASSUME NEW p \in Payments, sessionExpires(p) PROVE Goal
    BY <1>28 DEF sessionExpires, terms, recon, road, jobs, cash, reads
  <1>29. ASSUME NEW p \in Payments, confirmReconciliationRead(p) PROVE Goal
    BY <1>29 DEF confirmReconciliationRead, Contest, terms, recon, road, cash
  <1>29w. ASSUME NEW p \in Payments, confirmReconciliationWrite(p) PROVE Goal
    <2> DEFINE S == pay[p].items
    <2>1. /\ Confirm(p, "RECONCILIATION", S) /\ LinkRenewals(p, S \intersect Renewals)
          /\ renewal' = renewal /\ desk' = desk /\ contract' \in {"CLOSED", contract}
          /\ contested' = contested
      BY <1>29w DEF confirmReconciliationWrite, SettleReconciliation, CloseContract
    <2>2. /\ pay[p].status # "CONFIRMED" /\ pay[p].purpose = "RECONCILIATION"
          /\ \A r \in Renewals : r \in S => r \in contested \/ paidBy[r] = 0
      BY <1>29w DEF confirmReconciliationWrite, Reading
    <2>3. /\ pay'[p] = Pay("CONFIRMED", "RECONCILIATION", S)
          /\ \A q \in Payments \ {p} : pay'[q] = pay[q]
      BY <2>1 DEF Confirm
    <2>4. Settles(p, S)
      BY <2>1, <2>2, <2>3 DEF Settles, LinkRenewals, Pay
    <2> QED
      BY <2>1, <2>2, <2>3, <2>4, SettlesPaid DEF Pay
  <1>30. ASSUME NEW p \in Payments, confirmRenewal(p) PROVE Goal
    <2>1. PICK r \in Renewals :
            /\ pay[p].status # "CONFIRMED" /\ Confirm(p, "RENEWAL", {r})
            /\ renewal[r] = "approved"
            /\ \/ /\ contract = "ACTIVE" /\ renewal' = [renewal EXCEPT ![r] = "applied"]
                  /\ LinkRenewals(p, {r})
               \/ contract # "ACTIVE" /\ UNCHANGED <<renewal, paidBy>>
      BY <1>30 DEF confirmRenewal
    <2>2. /\ pay'[p] = Pay("CONFIRMED", "RENEWAL", {r})
          /\ \A q \in Payments \ {p} : pay'[q] = pay[q]
          /\ UNCHANGED <<contract, desk, contested>>
      BY <1>30, <2>1 DEF Confirm, confirmRenewal, jobs, reads
    <2>3. CASE contract = "ACTIVE"
      <3>1. /\ paidBy[r] = 0 /\ paidBy'[r] = p /\ renewal'[r] = "applied"
            /\ \A s \in Renewals \ {r} : paidBy'[s] = paidBy[s] /\ renewal'[s] = renewal[s]
        <4>1. LinkRenewals(p, {r}) /\ renewal' = [renewal EXCEPT ![r] = "applied"]
          BY <2>1, <2>3
        <4>2. \A s \in Renewals : paidBy'[s] = IF s = r THEN p ELSE paidBy[s]
          BY <4>1 DEF LinkRenewals
        <4>3. \A s \in Renewals : renewal'[s] = IF s = r THEN "applied" ELSE renewal[s]
          BY <4>1
        <4> QED
          BY <2>1, <4>2, <4>3
      <3>2. Settles(p, {r})
        BY <2>1, <2>2, <2>3, <3>1 DEF Settles, Pay
      <3> QED
        BY <2>1, <2>2, <2>3, <3>1, <3>2, SettlesPaid DEF Pay
    <2>4. CASE contract # "ACTIVE"
      <3>1. UNCHANGED <<renewal, paidBy>>
        BY <2>1, <2>4
      <3>2. \A q \in Payments, s \in Renewals :
              pay'[q].status = "CONFIRMED" /\ s \in pay'[q].items =>
                \/ paidBy[s] = q
                \/ paidBy[s] # 0 /\ s \in contested
                \/ pay'[q].purpose = "RENEWAL" /\ renewal[s] = "approved" /\ contract # "ACTIVE"
        BY <2>1, <2>2, <2>4 DEF Pay
      <3> QED
        BY <2>1, <2>2, <3>1, <3>2 DEF Pay
    <2> QED
      BY <2>3, <2>4
  <1>31. ASSUME NEW p \in Payments, confirmReceivable(p) PROVE Goal
    <2>1. PICK l \in Liabilities : pay[p].status # "CONFIRMED" /\ Confirm(p, "POST_CLOSE_RECEIVABLE", {l})
      BY <1>31 DEF confirmReceivable
    <2>2. /\ pay'[p] = Pay("CONFIRMED", "POST_CLOSE_RECEIVABLE", {l})
          /\ \A q \in Payments \ {p} : pay'[q] = pay[q]
          /\ UNCHANGED <<contract, renewal, paidBy, desk, contested>>
      BY <1>31, <2>1 DEF Confirm, confirmReceivable, terms, jobs, reads
    <2>3. l \notin Renewals
      BY SettlementConstants
    <2>4. \A q \in Payments, s \in Renewals :
            pay'[q].status = "CONFIRMED" /\ s \in pay'[q].items =>
              pay[q].status = "CONFIRMED" /\ pay'[q] = pay[q]
      BY <2>2, <2>3 DEF Pay
    <2> QED
      BY <2>1, <2>2, <2>4 DEF Pay
  <1>32. ASSUME NEW p \in Payments, cancelExpired(p) PROVE Goal
    BY <1>32 DEF cancelExpired, Cancelled, terms, recon, road, jobs, cash, reads, Pay, NoPay
  <1>33. CASE UNCHANGED vars
    BY <1>33 DEF vars
  <1> QED
    BY <1>1, <1>2, <1>3, <1>4, <1>5, <1>6, <1>7, <1>8, <1>9, <1>10, <1>11, <1>12, <1>13,
       <1>14, <1>15, <1>16, <1>17, <1>18, <1>19, <1>20, <1>20w, <1>21, <1>22, <1>23, <1>24,
       <1>25, <1>26, <1>27, <1>28, <1>29, <1>29w, <1>30, <1>31, <1>32, <1>33 DEF Next, Renewing,
       Reconciling, Starting, Card

LEMMA ConfirmedStays ==
  ASSUME \A q \in Payments : pay[q].status = "CONFIRMED" => pay'[q] = pay[q]
  PROVE  Confirmed("RECONCILIATION", {}) # {} => Confirmed("RECONCILIATION", {})' # {}
  BY DEF Confirmed, Purposed

LEMMA ReadingStep == TypeOK /\ Shaped /\ Collecting /\ Paid /\ Reading /\ [Next]_vars => Reading'
  <1> SUFFICES ASSUME TypeOK, Shaped, Collecting, Paid, Reading, [Next]_vars PROVE Reading'
    OBVIOUS
  <1> DEFINE Goal == Reading'
  <1> USE DEF TypeOK, Shaped, Collecting, Paid, Reading, Returned, Live, ShapedRow, Confirmed,
         Purposed
  <1>1. CASE offerRenewal
    BY <1>1 DEF offerRenewal, recon, road, jobs, cash, reads
  <1>2. CASE confirmRenewalPublic
    BY <1>2 DEF confirmRenewalPublic, recon, road, jobs, cash, reads
  <1>3. CASE prepareOfficeRenewalRegistration
    BY <1>3 DEF prepareOfficeRenewalRegistration, Cancelled, Active, Purposed, terms,
       recon, road, cash, reads, Unapplied, Pay, NoPay
  <1>4. CASE renew
    BY <1>4 DEF renew, RegisterRenewal, Unapplied, recon, road, cash, reads
  <1>5. CASE renewRefused
    BY <1>5 DEF renewRefused, terms, recon, road, cash, reads
  <1>6. ASSUME NEW r \in Renewals, settleRenewalCashRead(r) PROVE Goal
    BY <1>6 DEF settleRenewalCashRead, Outstanding, terms, recon, road, cash, reads
  <1>7. ASSUME NEW r \in Renewals, settleRenewalCashWrite(r) PROVE Goal
    <2>1. CASE UNCHANGED <<pay, session, paidBy>>
      BY <1>7, <2>1 DEF settleRenewalCashWrite, recon, road, cash, reads
    <2>2. CASE \E p \in Payments : New(p) /\ Confirm(p, "RENEWAL", {r}) /\ LinkRenewals(p, {r})
                                  /\ session' = [session EXCEPT ![p] = "CASH"]
      <3>1. PICK p \in Payments : /\ New(p) /\ Confirm(p, "RENEWAL", {r}) /\ LinkRenewals(p, {r})
                                  /\ session' = [session EXCEPT ![p] = "CASH"]
        BY <2>2
      <3>2. /\ pay'[p] = Pay("CONFIRMED", "RENEWAL", {r}) /\ pay[p] = NoPay
            /\ \A q \in Payments \ {p} : pay'[q] = pay[q] /\ session'[q] = session[q]
        BY <3>1 DEF Confirm, New
      <3>3. /\ UNCHANGED <<contract, renewal, cashier, reads>>
            /\ desk' = desk \ {r} /\ r \in desk
        BY <1>7 DEF settleRenewalCashWrite, cash
      <3>4. p \notin linking /\ \A s \in Renewals \ {r} : paidBy'[s] = paidBy[s]
        BY <3>1, <3>2, NoPayFields DEF LinkRenewals
      <3> QED
        BY <3>2, <3>3, <3>4, NoPayFields DEF Pay, reads
    <2> QED
      BY <1>7, <2>1, <2>2 DEF settleRenewalCashWrite
  <1>8. CASE confirmReturn
    BY <1>8 DEF confirmReturn, recon, road, jobs, cash, reads
  <1>9. CASE carIn
    BY <1>9 DEF carIn, recon, road, jobs, cash, reads
  <1>10. CASE editLinesRead
    BY <1>10 DEF editLinesRead, Editable, terms, recon, road, cash, reads
  <1>11. CASE editLinesWrite
    BY <1>11 DEF editLinesWrite, terms, road, cash, reads
  <1>12. ASSUME NEW l \in Liabilities, ingestLiability(l) PROVE Goal
    BY <1>12 DEF ingestLiability, terms, recon, jobs, cash, reads
  <1>13. ASSUME NEW l \in Liabilities, chargeLineRead(l) PROVE Goal
    BY <1>13 DEF chargeLineRead, Editable, Chargeable, terms, recon, road, cash, reads
  <1>14. ASSUME NEW l \in Liabilities, chargeLineWrite(l) PROVE Goal
    BY <1>14 DEF chargeLineWrite, terms, cash, reads
  <1>15. ASSUME NEW l \in Liabilities, chargeReceivable(l) PROVE Goal
    BY <1>15 DEF chargeReceivable, Chargeable, terms, recon, jobs, cash, reads
  <1>16. CASE ensureReconciliationFinalized
    BY <1>16 DEF ensureReconciliationFinalized, terms, road, jobs, cash, reads
  <1>17. CASE settleReconciliationWithoutPayment
    BY <1>17 DEF settleReconciliationWithoutPayment, CloseContract, road, jobs, cash, reads
  <1>18. CASE close
    BY <1>18 DEF close, CloseContract, recon, road, jobs, cash, reads
  <1>19. CASE prepareReconciliationCashCollection
    BY <1>19 DEF prepareReconciliationCashCollection, InFlight, Active, Purposed, terms,
       recon, road, reads
  <1>20. CASE settleReconciliationCashRead
    BY <1>20 DEF settleReconciliationCashRead, Contest, Outstanding, terms, recon, road, cash
  <1>20w. CASE settleReconciliationCashWrite
    <2>1. PICK p \in Payments : TakeCash(p)
      BY <1>20w DEF settleReconciliationCashWrite
    <2>2. linking = {}
      BY <1>20w DEF settleReconciliationCashWrite, InFlight, Active
    <2>3. /\ contract' = "CLOSED" /\ cashier' = FALSE /\ counting' = FALSE /\ linking' = linking
          /\ UNCHANGED <<desk, contested>>
          /\ \A r \in Renewals \ counted : paidBy'[r] = paidBy[r]
      BY <2>1 DEF TakeCash, CloseContract, LinkRenewals
    <2>4. \A r \in desk : r \in counted => r \in contested
      BY <1>20w DEF settleReconciliationCashWrite
    <2> QED
      BY <2>2, <2>3, <2>4
  <1>21. CASE cashRefused
    BY <1>21 DEF cashRefused, terms, recon, road
  <1>22. ASSUME NEW r \in Renewals, startRenewalPaymentPublic(r) PROVE Goal
    BY <1>22 DEF startRenewalPaymentPublic, Claim, New, Pay, terms, recon, road, jobs,
       cash, reads, NoPay
  <1>23. CASE startReconciliationPayment
    <2>1. PICK p \in Payments : pay[p] = NoPay
                               /\ pay' = [pay EXCEPT ![p] = Pay("PROCESSING", "RECONCILIATION", Due)]
      BY <1>23 DEF startReconciliationPayment, Claim, New
    <2>2. /\ UNCHANGED <<contract, renewal, paidBy, session, desk, cashier, linking, counting, counted, contested>>
          /\ contract = "REVIEW"
      BY <1>23 DEF startReconciliationPayment, Claim, terms, jobs, cash, reads
    <2>3. /\ pay'[p] = Pay("PROCESSING", "RECONCILIATION", Due)
          /\ \A q \in Payments \ {p} : pay'[q] = pay[q]
          /\ p \notin linking
      BY <2>1, NoPayFields
    <2> QED
      BY <2>1, <2>2, <2>3, NoPayFields DEF Pay
  <1>24. ASSUME NEW l \in Liabilities, startPostClosePayment(l) PROVE Goal
    BY <1>24 DEF startPostClosePayment, Claim, New, Pay, terms, recon, road, jobs, cash, reads,
       NoPay
  <1>25. ASSUME NEW p \in Payments, createCheckoutSession(p) PROVE Goal
    BY <1>25 DEF createCheckoutSession, terms, recon, road, jobs, cash, reads
  <1>26. ASSUME NEW p \in Payments, storeCheckoutSession(p) PROVE Goal
    BY <1>26 DEF storeCheckoutSession, terms, recon, road, jobs, cash, reads, Pay, NoPay
  <1>27. ASSUME NEW p \in Payments, customerPays(p) PROVE Goal
    BY <1>27 DEF customerPays, terms, recon, road, jobs, cash, reads
  <1>28. ASSUME NEW p \in Payments, sessionExpires(p) PROVE Goal
    BY <1>28 DEF sessionExpires, terms, recon, road, jobs, cash, reads
  <1>29. ASSUME NEW p \in Payments, confirmReconciliationRead(p) PROVE Goal
    BY <1>29 DEF confirmReconciliationRead, Contest, Linkable, terms, recon, road, cash
  <1>29w. ASSUME NEW p \in Payments, confirmReconciliationWrite(p) PROVE Goal
    <2> DEFINE S == pay[p].items
    <2>1. /\ Confirm(p, "RECONCILIATION", S) /\ LinkRenewals(p, S \intersect Renewals)
          /\ contract' \in {"CLOSED", contract}
          /\ p \in linking /\ linking' = linking \ {p}
          /\ UNCHANGED <<session, renewal, desk, cashier, counting, counted, contested>>
      BY <1>29w DEF confirmReconciliationWrite, SettleReconciliation, CloseContract, cash
    <2>2. /\ pay'[p] = Pay("CONFIRMED", "RECONCILIATION", S)
          /\ \A q \in Payments \ {p} : pay'[q] = pay[q]
      BY <2>1 DEF Confirm
    <2>3. linking' = {}
      BY <2>1
    <2>4. p \in Confirmed("RECONCILIATION", {})'
      BY <2>2 DEF Pay
    <2>5. \A r \in Renewals \ S : paidBy'[r] = paidBy[r]
      BY <2>1 DEF LinkRenewals
    <2> QED
      BY <2>1, <2>2, <2>3, <2>4, <2>5 DEF Pay
  <1>30. ASSUME NEW p \in Payments, confirmRenewal(p) PROVE Goal
    <2>1. PICK r \in Renewals :
            /\ pay[p].status # "CONFIRMED" /\ Confirm(p, "RENEWAL", {r})
            /\ pay[p].purpose = "RENEWAL" /\ pay[p].items = {r} /\ renewal[r] = "approved"
            /\ \/ /\ contract = "ACTIVE" /\ renewal' = [renewal EXCEPT ![r] = "applied"]
                  /\ LinkRenewals(p, {r})
               \/ contract # "ACTIVE" /\ UNCHANGED <<renewal, paidBy>>
      BY <1>30 DEF confirmRenewal
    <2>2. /\ pay'[p] = Pay("CONFIRMED", "RENEWAL", {r})
          /\ \A q \in Payments \ {p} : pay'[q] = pay[q]
          /\ UNCHANGED <<contract, session, desk, cashier, linking, counting, counted, contested>>
      BY <1>30, <2>1 DEF Confirm, confirmRenewal, jobs, cash, reads
    <2>3. CASE contract = "ACTIVE"
      <3>1. linking = {} /\ ~cashier /\ ~counting
        BY <2>3
      <3>2. \A s \in Renewals \ {r} : paidBy'[s] = paidBy[s] /\ renewal'[s] = renewal[s]
        <4>1. LinkRenewals(p, {r}) /\ renewal' = [renewal EXCEPT ![r] = "applied"]
          BY <2>1, <2>3
        <4> QED
          BY <4>1 DEF LinkRenewals
      <3>3. r \notin desk
        BY <2>1
      <3> QED
        BY <2>2, <2>3, <3>1, <3>2, <3>3 DEF Pay
    <2>4. CASE contract # "ACTIVE"
      <3>1. UNCHANGED <<renewal, paidBy>>
        BY <2>1, <2>4
      <3>2. p \notin linking
        BY <2>1
      <3>3. \A q \in Payments : /\ pay'[q].purpose = pay[q].purpose /\ pay'[q].items = pay[q].items
                                /\ q # p => pay'[q] = pay[q]
        <4>1. pay'[p].purpose = pay[p].purpose /\ pay'[p].items = pay[p].items
          BY <2>1, <2>2 DEF Pay
        <4> QED
          BY <4>1, <2>2
      <3>4. Confirmed("RECONCILIATION", {}) # {} => Confirmed("RECONCILIATION", {})' # {}
        BY <2>1, <2>2, ConfirmedStays
      <3> HIDE DEF Shaped, Collecting, Paid, ShapedRow, Confirmed, Purposed
      <3>5. \A q \in Payments : pay'[q].purpose = "RECONCILIATION" => Returned'
        BY <2>2, <3>3
      <3>6. \A q \in linking', s \in Renewals :
              s \in pay'[q].items => s \in contested' \/ (s \notin desk' /\ paidBy'[s] = 0)
        BY <2>2, <3>1, <3>2, <3>3
      <3>7. \A q \in linking' : /\ pay'[q].purpose = "RECONCILIATION" /\ session'[q] = "paid"
                                /\ pay'[q].status # "CONFIRMED"
        BY <2>2, <3>2, <3>3
      <3>8. counting' => \A s \in counted' :
              /\ renewal'[s] = "applied"
              /\ \/ s \in contested'
                 \/ s \notin desk' /\ (paidBy'[s] = 0 \/ Confirmed("RECONCILIATION", {})' # {})
        BY <2>2, <3>1, <3>4
      <3> QED
        BY <2>2, <3>1, <3>2, <3>5, <3>6, <3>7, <3>8
    <2> QED
      BY <2>3, <2>4
  <1>31. ASSUME NEW p \in Payments, confirmReceivable(p) PROVE Goal
    <2>1. PICK l \in Liabilities : /\ pay[p].status # "CONFIRMED" /\ Confirm(p, "POST_CLOSE_RECEIVABLE", {l})
                                   /\ pay[p].purpose = "POST_CLOSE_RECEIVABLE"
      BY <1>31 DEF confirmReceivable
    <2>2. /\ pay'[p] = Pay("CONFIRMED", "POST_CLOSE_RECEIVABLE", {l})
          /\ \A q \in Payments \ {p} : pay'[q] = pay[q]
          /\ UNCHANGED <<contract, renewal, paidBy, session, desk, cashier, linking, counting, counted, contested>>
      BY <1>31, <2>1 DEF Confirm, confirmReceivable, terms, jobs, cash, reads
    <2>3. p \notin linking
      BY <2>1
    <2> QED
      BY <2>1, <2>2, <2>3 DEF Pay
  <1>32. ASSUME NEW p \in Payments, cancelExpired(p) PROVE Goal
    BY <1>32 DEF cancelExpired, Cancelled, terms, recon, road, jobs, cash, reads, Pay, NoPay
  <1>33. CASE UNCHANGED vars
    BY <1>33 DEF vars
  <1> QED
    BY <1>1, <1>2, <1>3, <1>4, <1>5, <1>6, <1>7, <1>8, <1>9, <1>10, <1>11, <1>12, <1>13,
       <1>14, <1>15, <1>16, <1>17, <1>18, <1>19, <1>20, <1>20w, <1>21, <1>22, <1>23, <1>24,
       <1>25, <1>26, <1>27, <1>28, <1>29, <1>29w, <1>30, <1>31, <1>32, <1>33 DEF Next, Renewing,
       Reconciling, Starting, Card

LEMMA ClosedOwesNoRenewalStep == TypeOK /\ ClosedOwesNoRenewal /\ [Next]_vars => ClosedOwesNoRenewal'
  <1> SUFFICES ASSUME TypeOK, ClosedOwesNoRenewal, [Next]_vars PROVE ClosedOwesNoRenewal'
    OBVIOUS
  <1> DEFINE Goal == ClosedOwesNoRenewal'
  <1> USE DEF TypeOK, ClosedOwesNoRenewal, Outstanding
  <1>1. CASE offerRenewal
    BY <1>1 DEF offerRenewal, recon, road, jobs, cash, reads
  <1>2. CASE confirmRenewalPublic
    BY <1>2 DEF confirmRenewalPublic, recon, road, jobs, cash, reads
  <1>3. CASE prepareOfficeRenewalRegistration
    BY <1>3 DEF prepareOfficeRenewalRegistration, Cancelled, Active, Purposed, terms,
       recon, road, cash, reads, Unapplied, Pay, NoPay
  <1>4. CASE renew
    BY <1>4 DEF renew, RegisterRenewal, Unapplied, recon, road, cash, reads
  <1>5. CASE renewRefused
    BY <1>5 DEF renewRefused, terms, recon, road, cash, reads
  <1>6. ASSUME NEW r \in Renewals, settleRenewalCashRead(r) PROVE Goal
    BY <1>6 DEF settleRenewalCashRead, Outstanding, terms, recon, road, cash, reads
  <1>7. ASSUME NEW r \in Renewals, settleRenewalCashWrite(r) PROVE Goal
    BY <1>7, PaymentIds DEF settleRenewalCashWrite, New, Confirm, LinkRenewals, Pay,
       recon, road, cash, reads, NoPay
  <1>8. CASE confirmReturn
    BY <1>8 DEF confirmReturn, recon, road, jobs, cash, reads
  <1>9. CASE carIn
    BY <1>9 DEF carIn, recon, road, jobs, cash, reads
  <1>10. CASE editLinesRead
    BY <1>10 DEF editLinesRead, Editable, terms, recon, road, cash, reads
  <1>11. CASE editLinesWrite
    BY <1>11 DEF editLinesWrite, terms, road, cash, reads
  <1>12. ASSUME NEW l \in Liabilities, ingestLiability(l) PROVE Goal
    BY <1>12 DEF ingestLiability, terms, recon, jobs, cash, reads
  <1>13. ASSUME NEW l \in Liabilities, chargeLineRead(l) PROVE Goal
    BY <1>13 DEF chargeLineRead, Editable, Chargeable, terms, recon, road, cash, reads
  <1>14. ASSUME NEW l \in Liabilities, chargeLineWrite(l) PROVE Goal
    BY <1>14 DEF chargeLineWrite, terms, cash, reads
  <1>15. ASSUME NEW l \in Liabilities, chargeReceivable(l) PROVE Goal
    BY <1>15 DEF chargeReceivable, Chargeable, terms, recon, jobs, cash, reads
  <1>16. CASE ensureReconciliationFinalized
    BY <1>16 DEF ensureReconciliationFinalized, terms, road, jobs, cash, reads
  <1>17. CASE settleReconciliationWithoutPayment
    BY <1>17 DEF settleReconciliationWithoutPayment, CloseContract, road, jobs, cash, reads
  <1>18. CASE close
    BY <1>18 DEF close, CloseContract, recon, road, jobs, cash, reads
  <1>19. CASE prepareReconciliationCashCollection
    BY <1>19 DEF prepareReconciliationCashCollection, InFlight, Active, Purposed, terms,
       recon, road, reads
  <1>20. CASE settleReconciliationCashRead
    BY <1>20 DEF settleReconciliationCashRead, terms, recon, road, cash
  <1>20w. CASE settleReconciliationCashWrite
    BY <1>20w, PaymentIds DEF settleReconciliationCashWrite, TakeCash, CloseContract,
       LinkRenewals, Cancelled, InFlight, Active, Purposed, New, Pay, Due, Outstanding,
       Collectable, Confirmed, NoPay
  <1>21. CASE cashRefused
    BY <1>21 DEF cashRefused, terms, recon, road
  <1>22. ASSUME NEW r \in Renewals, startRenewalPaymentPublic(r) PROVE Goal
    BY <1>22 DEF startRenewalPaymentPublic, Claim, New, Pay, terms, recon, road, jobs,
       cash, reads, NoPay
  <1>23. CASE startReconciliationPayment
    BY <1>23 DEF startReconciliationPayment, Claim, New, Pay, Due, Outstanding, terms,
       recon, road, jobs, cash, reads, NoPay
  <1>24. ASSUME NEW l \in Liabilities, startPostClosePayment(l) PROVE Goal
    BY <1>24 DEF startPostClosePayment, Claim, New, Pay, terms, recon, road, jobs, cash, reads,
       NoPay
  <1>25. ASSUME NEW p \in Payments, createCheckoutSession(p) PROVE Goal
    BY <1>25 DEF createCheckoutSession, terms, recon, road, jobs, cash, reads
  <1>26. ASSUME NEW p \in Payments, storeCheckoutSession(p) PROVE Goal
    BY <1>26 DEF storeCheckoutSession, terms, recon, road, jobs, cash, reads, Pay, NoPay
  <1>27. ASSUME NEW p \in Payments, customerPays(p) PROVE Goal
    BY <1>27 DEF customerPays, terms, recon, road, jobs, cash, reads
  <1>28. ASSUME NEW p \in Payments, sessionExpires(p) PROVE Goal
    BY <1>28 DEF sessionExpires, terms, recon, road, jobs, cash, reads
  <1>29. ASSUME NEW p \in Payments, confirmReconciliationRead(p) PROVE Goal
    BY <1>29 DEF confirmReconciliationRead, terms, recon, road, cash
  <1>29w. ASSUME NEW p \in Payments, confirmReconciliationWrite(p) PROVE Goal
    BY <1>29w, PaymentIds DEF confirmReconciliationWrite, SettleReconciliation, Confirm,
       LinkRenewals, CloseContract, Pay, jobs, cash, reads, NoPay
  <1>30. ASSUME NEW p \in Payments, confirmRenewal(p) PROVE Goal
    BY <1>30, PaymentIds DEF confirmRenewal, Confirm, LinkRenewals, Pay, recon, road,
       jobs, cash, reads, NoPay
  <1>31. ASSUME NEW p \in Payments, confirmReceivable(p) PROVE Goal
    BY <1>31 DEF confirmReceivable, Confirm, Pay, terms, recon, jobs, cash, reads, NoPay
  <1>32. ASSUME NEW p \in Payments, cancelExpired(p) PROVE Goal
    BY <1>32 DEF cancelExpired, Cancelled, terms, recon, road, jobs, cash, reads, Pay, NoPay
  <1>33. CASE UNCHANGED vars
    BY <1>33 DEF vars
  <1> QED
    BY <1>1, <1>2, <1>3, <1>4, <1>5, <1>6, <1>7, <1>8, <1>9, <1>10, <1>11, <1>12, <1>13,
       <1>14, <1>15, <1>16, <1>17, <1>18, <1>19, <1>20, <1>20w, <1>21, <1>22, <1>23, <1>24,
       <1>25, <1>26, <1>27, <1>28, <1>29, <1>29w, <1>30, <1>31, <1>32, <1>33 DEF Next, Renewing,
       Reconciling, Starting, Card

-----------------------------------------------------------------------------
(* The invariant and what it says.                                         *)

SettlementInvariant ==
  /\ TypeOK /\ Shaped /\ Collecting /\ OneConfirmed /\ Charged
  /\ Paid /\ Reading /\ ClosedOwesNoRenewal

LEMMA InitInvariant == Init => SettlementInvariant
  <1> SUFFICES ASSUME Init PROVE SettlementInvariant
    OBVIOUS
  <1>1. \A p \in Payments : pay[p] = NoPay /\ session[p] = "none"
    BY DEF Init
  <1>2. TypeOK
    BY TypeInit
  <1>3. Shaped /\ Collecting /\ OneConfirmed
    BY <1>1, NoPayFields DEF Init, Shaped, ShapedRow, Collecting, OneConfirmed, Live
  <1>4. Charged /\ Paid /\ Reading /\ ClosedOwesNoRenewal
    BY <1>1, NoPayFields DEF Init, Charged, Paid, Reading, ClosedOwesNoRenewal
  <1> QED
    BY <1>2, <1>3, <1>4 DEF SettlementInvariant

LEMMA NextInvariant == SettlementInvariant /\ [Next]_vars => SettlementInvariant'
  BY TypeStep, ShapedStep, CollectingStep, OneConfirmedStep, ChargedStep, PaidStep,
     ReadingStep, ClosedOwesNoRenewalStep DEF SettlementInvariant

\* The parts of the invariant hold together from the first state on.
THEOREM SettlementIsInvariant == Spec => []SettlementInvariant
  BY InitInvariant, NextInvariant, PTL DEF Spec

\* Two confirmed payments of one item have different purposes, and those are
\* the reconciliation's and one other.
LEMMA PayersDiffer ==
  ASSUME SettlementInvariant, NEW i \in Items,
         NEW p \in ConfirmedFor(i), NEW q \in ConfirmedFor(i), p # q
  PROVE  /\ pay[p].purpose \in {"RENEWAL", "RECONCILIATION", "POST_CLOSE_RECEIVABLE"}
         /\ pay[p].purpose # pay[q].purpose
         /\ pay[p].purpose = "RENEWAL" => i \in Renewals
         /\ pay[p].purpose = "POST_CLOSE_RECEIVABLE" => i \in Liabilities
  <1> USE DEF SettlementInvariant, ConfirmedFor
  <1>1. ASSUME NEW t \in {p, q}
        PROVE  /\ pay[t].purpose \in {"RENEWAL", "RECONCILIATION", "POST_CLOSE_RECEIVABLE"}
               /\ pay[t].purpose # "RECONCILIATION" => pay[t].items = {i}
               /\ pay[t].purpose = "RENEWAL" => i \in Renewals
               /\ pay[t].purpose = "POST_CLOSE_RECEIVABLE" => i \in Liabilities
    BY NoPayFields DEF Shaped, ShapedRow, TypeOK, Purpose
  <1>2. pay[p].purpose # "RECONCILIATION" \/ pay[q].purpose # "RECONCILIATION"
    BY DEF Collecting, Live
  <1>3. pay[p].purpose # pay[q].purpose
    BY <1>1, <1>2 DEF OneConfirmed
  <1> QED
    BY <1>1, <1>3

\* No item is paid a third time.
PaidTwice == \A i \in Items : \A p, q, t \in ConfirmedFor(i) : p = q \/ p = t \/ q = t

LEMMA AtMostTwoPay == SettlementInvariant => PaidTwice
  <1> SUFFICES ASSUME SettlementInvariant, NEW i \in Items, NEW p \in ConfirmedFor(i),
                      NEW q \in ConfirmedFor(i), NEW t \in ConfirmedFor(i),
                      p # q, p # t, q # t
               PROVE  FALSE
    BY DEF PaidTwice
  <1>1. /\ pay[p].purpose # pay[q].purpose /\ pay[p].purpose # pay[t].purpose
        /\ pay[q].purpose # pay[t].purpose
    BY PayersDiffer
  <1>2. /\ pay[p].purpose \in {"RENEWAL", "RECONCILIATION", "POST_CLOSE_RECEIVABLE"}
        /\ pay[q].purpose \in {"RENEWAL", "RECONCILIATION", "POST_CLOSE_RECEIVABLE"}
        /\ pay[t].purpose \in {"RENEWAL", "RECONCILIATION", "POST_CLOSE_RECEIVABLE"}
    BY PayersDiffer
  <1>3. i \in Renewals /\ i \in Liabilities
    BY <1>1, <1>2, PayersDiffer
  <1> QED
    BY <1>3, SettlementConstants

\* An item of two confirmed payments is a renewal that two transactions were
\* collecting at once: a liability is charged at one place, and otherwise the
\* renewal would be settled by both.
LEMMA InvariantConfirmsOnce == SettlementInvariant => ConfirmedOnce
  <1> SUFFICES ASSUME SettlementInvariant, NEW p \in Payments, NEW q \in Payments, p # q,
                      pay[p].status = "CONFIRMED", pay[q].status = "CONFIRMED",
                      NEW i \in pay[p].items, i \in pay[q].items
               PROVE  i \in contested
    BY DEF ConfirmedOnce
  <1>1. i \in Items /\ p \in ConfirmedFor(i) /\ q \in ConfirmedFor(i)
    BY DEF SettlementInvariant, TypeOK, ConfirmedFor
  <1>2. /\ pay[p].purpose # pay[q].purpose
        /\ \A t \in {p, q} :
             /\ pay[t].purpose \in {"RENEWAL", "RECONCILIATION", "POST_CLOSE_RECEIVABLE"}
             /\ pay[t].purpose = "RENEWAL" => i \in Renewals
             /\ pay[t].purpose = "POST_CLOSE_RECEIVABLE" => i \in Liabilities
    BY <1>1, PayersDiffer
  <1>3. pay[p].purpose = "RECONCILIATION" \/ pay[q].purpose = "RECONCILIATION"
    BY <1>2, SettlementConstants
  <1>4. CASE i \in Renewals
    <2>1. renewal[i] = "applied"
      BY <1>3, <1>4 DEF SettlementInvariant, Paid
    <2>2. \A t \in {p, q} : paidBy[i] = t \/ i \in contested
      BY <2>1, <1>4 DEF SettlementInvariant, Paid
    <2> QED
      BY <2>2
  <1>5. CASE i \notin Renewals
    <2>1. i \in Liabilities /\ {pay[p].purpose, pay[q].purpose} = {"RECONCILIATION", "POST_CLOSE_RECEIVABLE"}
      BY <1>2, <1>5
    <2> QED
      BY <2>1 DEF SettlementInvariant, Charged
  <1> QED
    BY <1>4, <1>5

\* No item is paid by two confirmed payments, whatever their number, but for a
\* renewal the desk was taking cash for when a settlement read it unpaid.
THEOREM SettlementConfirmsOnce == Spec => []ConfirmedOnce
  BY SettlementIsInvariant, InvariantConfirmsOnce, PTL

\* The hirer's money is taken once for the reconciliation.
THEOREM ReconciliationIsCollectedOnce == Spec => []ReconciliationCollectedOnce
  <1>1. SettlementInvariant => ReconciliationCollectedOnce
    BY DEF SettlementInvariant, Collecting, Live, ReconciliationCollectedOnce
  <1> QED
    BY <1>1, SettlementIsInvariant, PTL

\* A closed contract owes no priced renewal.
THEOREM NoClosedContractOwesARenewal == Spec => []ClosedOwesNoRenewal
  <1>1. SettlementInvariant => ClosedOwesNoRenewal
    BY DEF SettlementInvariant
  <1> QED
    BY <1>1, SettlementIsInvariant, PTL

\* The rows of the settlement are well typed.
THEOREM SettlementIsTyped == Spec => []TypeOK
  <1>1. SettlementInvariant => TypeOK
    BY DEF SettlementInvariant
  <1> QED
    BY <1>1, SettlementIsInvariant, PTL

-----------------------------------------------------------------------------
(* The refinement.  Each step either leaves the confirmed payments alone   *)
(* or confirms one more.                                                   *)

Extended == {r \in Renewals : renewal[r] = "applied"}

Quiet == \A q \in Payments : pay[q].status = "CONFIRMED" \/ pay'[q].status = "CONFIRMED"
                               => pay'[q] = pay[q]

Collects(p, S) ==
  /\ pay[p].status # "CONFIRMED" /\ pay'[p].status = "CONFIRMED" /\ pay'[p].items = S
  /\ \A q \in Payments \ {p} : pay[q].status = "CONFIRMED" \/ pay'[q].status = "CONFIRMED"
                                 => pay'[q] = pay[q]

Money == Quiet \/ \E p \in Payments, S \in SUBSET Items : Collects(p, S)

\* A settlement contests renewals that nobody has paid.
Contests ==
  \E R \in SUBSET Renewals : /\ \A r \in R : ConfirmedFor(r) = {}
                             /\ contested' = contested \union R

Outline ==
  \/ /\ contested' = contested
     /\ \/ Money /\ Extended' = Extended /\ contract' = contract
        \/ /\ contract = "ACTIVE" /\ contract' = "ACTIVE"
           /\ \E r \in Renewals : /\ Extended' = Extended \union {r}
                                  /\ Quiet \/ \E p \in Payments : Collects(p, {r})
        \/ Quiet /\ Extended' = Extended /\ contract = "ACTIVE" /\ contract' = "RETOUT"
        \/ Quiet /\ Extended' = Extended /\ contract = "RETOUT" /\ contract' = "REVIEW"
        \/ Money /\ Extended' = Extended /\ contract = "REVIEW" /\ contract' = "CLOSED"
  \/ Contests /\ Quiet /\ Extended' = Extended /\ contract = "REVIEW" /\ contract' = "REVIEW"

\* What a settlement reads unpaid while the desk takes cash for it has no payer
\* yet, and the contract is not closed.
LEMMA ContestMaps ==
  ASSUME SettlementInvariant, Returned, NEW R, Contest(R),
         \A r \in R \intersect Renewals : paidBy[r] = 0,
         Quiet, Extended' = Extended, contract' = contract
  PROVE  Outline
  <1>1. ASSUME NEW r \in R \intersect desk
        PROVE  ConfirmedFor(r) = {} /\ contract # "CLOSED" /\ r \in Renewals
    <2>1. r \in Renewals /\ paidBy[r] = 0 /\ renewal[r] = "applied" /\ r \notin Free
      BY DEF SettlementInvariant, TypeOK, Paid, Reading
    <2>2. ConfirmedFor(r) = {}
      BY <2>1, PaymentIds DEF SettlementInvariant, Paid, ConfirmedFor
    <2>3. contract # "CLOSED"
      BY <2>1 DEF SettlementInvariant, ClosedOwesNoRenewal, Outstanding
    <2> QED
      BY <2>1, <2>2, <2>3
  <1>2. CASE R \intersect desk = {}
    BY <1>2 DEF Contest, Outline, Money
  <1>3. CASE R \intersect desk # {}
    <2>1. R \intersect desk \in SUBSET Renewals /\ contract = "REVIEW"
      BY <1>1, <1>3 DEF Returned
    <2>2. Contests
      BY <1>1, <2>1 DEF Contests, Contest
    <2> QED
      BY <2>1, <2>2 DEF Outline
  <1> QED
    BY <1>2, <1>3

LEMMA OutlineStep == SettlementInvariant /\ [Next]_vars => Outline
  <1> SUFFICES ASSUME SettlementInvariant, [Next]_vars PROVE Outline
    OBVIOUS
  <1> DEFINE Goal == Outline
  <1>0. TypeOK
    BY DEF SettlementInvariant
  <1> USE DEF Outline, Extended, Money, jobs, reads
  <1>1. CASE offerRenewal
    <2>1. Extended' = Extended
      BY <1>0, <1>1 DEF offerRenewal, TypeOK
    <2> QED
      BY <1>1, <2>1 DEF offerRenewal, Quiet
  <1>2. CASE confirmRenewalPublic
    <2>1. PICK r \in Renewals : Extended' = Extended \union {r} \/ Extended' = Extended
      BY <1>0, <1>2 DEF confirmRenewalPublic, TypeOK
    <2> QED
      BY <1>2, <2>1 DEF confirmRenewalPublic, Quiet
  <1>3. CASE prepareOfficeRenewalRegistration
    <2>1. Quiet
      BY <1>0, <1>3 DEF prepareOfficeRenewalRegistration, Quiet, Cancelled, Active, Purposed, TypeOK
    <2> QED
      BY <1>3, <2>1 DEF prepareOfficeRenewalRegistration, terms
  <1>4. CASE renew
    <2>1. PICK r \in Renewals : Extended' = Extended \union {r} \/ Extended' = Extended
      BY <1>0, <1>4 DEF renew, TypeOK, RegisterRenewal, Unapplied
    <2> QED
      BY <1>4, <2>1 DEF renew, Quiet, RegisterRenewal
  <1>5. CASE renewRefused
    BY <1>5 DEF renewRefused, Quiet, terms
  <1>6. ASSUME NEW r \in Renewals, settleRenewalCashRead(r) PROVE Goal
    BY <1>6 DEF settleRenewalCashRead, Quiet, terms
  <1>7. ASSUME NEW r \in Renewals, settleRenewalCashWrite(r) PROVE Goal
    <2>1. CASE UNCHANGED pay
      BY <1>7, <2>1 DEF settleRenewalCashWrite, Quiet
    <2>2. CASE \E p \in Payments : New(p) /\ Confirm(p, "RENEWAL", {r})
      <3>1. PICK p \in Payments : New(p) /\ Confirm(p, "RENEWAL", {r})
        BY <2>2
      <3>2. Collects(p, {r})
        BY <1>0, <3>1, NoPayFields DEF New, Confirm, Collects, Pay, TypeOK
      <3> QED
        BY <1>7, <3>2 DEF settleRenewalCashWrite, Items
    <2> QED
      BY <1>7, <2>1, <2>2 DEF settleRenewalCashWrite
  <1>8. CASE confirmReturn
    BY <1>8 DEF confirmReturn, Quiet
  <1>9. CASE carIn
    BY <1>9 DEF carIn, Quiet
  <1>10. CASE editLinesRead
    BY <1>10 DEF editLinesRead, Quiet, terms
  <1>11. CASE editLinesWrite
    BY <1>11 DEF editLinesWrite, Quiet, terms
  <1>12. ASSUME NEW l \in Liabilities, ingestLiability(l) PROVE Goal
    BY <1>12 DEF ingestLiability, Quiet, terms
  <1>13. ASSUME NEW l \in Liabilities, chargeLineRead(l) PROVE Goal
    BY <1>13 DEF chargeLineRead, Quiet, terms
  <1>14. ASSUME NEW l \in Liabilities, chargeLineWrite(l) PROVE Goal
    BY <1>14 DEF chargeLineWrite, Quiet, terms
  <1>15. ASSUME NEW l \in Liabilities, chargeReceivable(l) PROVE Goal
    BY <1>15 DEF chargeReceivable, Quiet, terms
  <1>16. CASE ensureReconciliationFinalized
    BY <1>16 DEF ensureReconciliationFinalized, Quiet, terms
  <1>17. CASE settleReconciliationWithoutPayment
    BY <1>17 DEF settleReconciliationWithoutPayment, Quiet, CloseContract
  <1>18. CASE close
    BY <1>18 DEF close, Quiet, CloseContract
  <1>19. CASE prepareReconciliationCashCollection
    BY <1>19 DEF prepareReconciliationCashCollection, Quiet, terms
  <1>20. CASE settleReconciliationCashRead
    <2>1. /\ Quiet /\ Extended' = Extended /\ contract' = contract
          /\ Contest(Outstanding) /\ cashier
      BY <1>20 DEF settleReconciliationCashRead, Quiet, terms
    <2>2. Returned
      BY <2>1 DEF SettlementInvariant, Reading
    <2> QED
      BY <2>1, <2>2, ContestMaps DEF Outstanding
  <1>20w. CASE settleReconciliationCashWrite
    <2> DEFINE S == lines \union counted
    <2>1. PICK p \in Payments :
            /\ pay[p] = NoPay
            /\ pay' = [Cancelled(InFlight) EXCEPT ![p] = Pay("CONFIRMED", "RECONCILIATION", S)]
      BY <1>20w DEF settleReconciliationCashWrite, TakeCash, New
    <2>2. S \in SUBSET Items
      BY <1>0 DEF TypeOK, Items
    <2> HIDE DEF S
    <2>3. Collects(p, S)
      BY <1>0, <2>1, NoPayFields DEF Collects, Cancelled, InFlight, Active, Purposed, Pay, TypeOK
    <2>4. UNCHANGED <<renewal, contested>> /\ contract = "REVIEW" /\ contract' = "CLOSED"
      BY <1>20w DEF settleReconciliationCashWrite, TakeCash, Collectable, CloseContract
    <2> QED
      BY <2>2, <2>3, <2>4
  <1>21. CASE cashRefused
    BY <1>21 DEF cashRefused, Quiet, terms
  <1>22. ASSUME NEW r \in Renewals, startRenewalPaymentPublic(r) PROVE Goal
    <2>1. \E p \in Payments : pay[p] = NoPay /\ pay' = [pay EXCEPT ![p] = Pay("PROCESSING", "RENEWAL", {r})]
      BY <1>22 DEF startRenewalPaymentPublic, Claim, New
    <2>2. Quiet
      BY <1>0, <2>1, NoPayFields DEF Quiet, TypeOK, Pay
    <2> QED
      BY <1>22, <2>2 DEF startRenewalPaymentPublic, Claim, terms
  <1>23. CASE startReconciliationPayment
    <2>1. \E p \in Payments : pay[p] = NoPay /\ pay' = [pay EXCEPT ![p] = Pay("PROCESSING", "RECONCILIATION", Due)]
      BY <1>23 DEF startReconciliationPayment, Claim, New
    <2>2. Quiet
      BY <1>0, <2>1, NoPayFields DEF Quiet, TypeOK, Pay
    <2> QED
      BY <1>23, <2>2 DEF startReconciliationPayment, Claim, terms
  <1>24. ASSUME NEW l \in Liabilities, startPostClosePayment(l) PROVE Goal
    <2>1. \E p \in Payments : pay[p] = NoPay /\ pay' = [pay EXCEPT ![p] = Pay("PROCESSING", "POST_CLOSE_RECEIVABLE", {l})]
      BY <1>24 DEF startPostClosePayment, Claim, New
    <2>2. Quiet
      BY <1>0, <2>1, NoPayFields DEF Quiet, TypeOK, Pay
    <2> QED
      BY <1>24, <2>2 DEF startPostClosePayment, Claim, terms
  <1>25. ASSUME NEW p \in Payments, createCheckoutSession(p) PROVE Goal
    BY <1>25 DEF createCheckoutSession, Quiet, terms
  <1>26. ASSUME NEW p \in Payments, storeCheckoutSession(p) PROVE Goal
    <2>1. pay[p].status # "CONFIRMED"
      BY <1>26 DEF storeCheckoutSession, SettlementInvariant, Collecting
    <2>2. Quiet
      BY <1>0, <1>26, <2>1 DEF storeCheckoutSession, Quiet, TypeOK
    <2> QED
      BY <1>26, <2>2 DEF storeCheckoutSession, terms
  <1>27. ASSUME NEW p \in Payments, customerPays(p) PROVE Goal
    BY <1>27 DEF customerPays, Quiet, terms
  <1>28. ASSUME NEW p \in Payments, sessionExpires(p) PROVE Goal
    BY <1>28 DEF sessionExpires, Quiet, terms
  <1>29. ASSUME NEW p \in Payments, confirmReconciliationRead(p) PROVE Goal
    <2>1. /\ Quiet /\ Extended' = Extended /\ contract' = contract
          /\ Contest(pay[p].items) /\ pay[p].purpose = "RECONCILIATION"
          /\ pay[p].status # "CONFIRMED" /\ Linkable(p, pay[p].items \intersect Renewals)
      BY <1>29 DEF confirmReconciliationRead, Quiet, terms
    <2>2. Returned
      BY <2>1 DEF SettlementInvariant, Reading
    <2>3. \A r \in pay[p].items \intersect Renewals : paidBy[r] = 0
      BY <2>1, PaymentIds DEF Linkable, SettlementInvariant, Paid
    <2> QED
      BY <2>1, <2>2, <2>3, ContestMaps
  <1>29w. ASSUME NEW p \in Payments, confirmReconciliationWrite(p) PROVE Goal
    <2>1. Confirm(p, "RECONCILIATION", pay[p].items) /\ pay[p].status # "CONFIRMED"
      BY <1>29w DEF confirmReconciliationWrite, SettleReconciliation, SettlementInvariant, Reading
    <2>2. Collects(p, pay[p].items) /\ pay[p].items \in SUBSET Items
      BY <1>0, <2>1 DEF Collects, Confirm, Pay, TypeOK
    <2> QED
      BY <1>29w, <2>2 DEF confirmReconciliationWrite, SettleReconciliation, CloseContract
  <1>30. ASSUME NEW p \in Payments, confirmRenewal(p) PROVE Goal
    <2>1. PICK r \in Renewals :
            /\ pay[p].status # "CONFIRMED" /\ Confirm(p, "RENEWAL", {r})
            /\ \/ contract = "ACTIVE" /\ renewal' = [renewal EXCEPT ![r] = "applied"]
               \/ UNCHANGED renewal
      BY <1>30 DEF confirmRenewal
    <2>2. Collects(p, {r}) /\ {r} \in SUBSET Items
      BY <1>0, <2>1 DEF Collects, Confirm, Pay, TypeOK, Items
    <2>3. CASE UNCHANGED renewal
      BY <1>30, <2>2, <2>3 DEF confirmRenewal
    <2>4. CASE contract = "ACTIVE" /\ renewal' = [renewal EXCEPT ![r] = "applied"]
      <3>1. Extended' = Extended \union {r}
        BY <1>0, <2>4 DEF TypeOK
      <3> QED
        BY <1>30, <2>2, <2>4, <3>1 DEF confirmRenewal
    <2> QED
      BY <2>1, <2>3, <2>4
  <1>31. ASSUME NEW p \in Payments, confirmReceivable(p) PROVE Goal
    <2>1. PICK l \in Liabilities : pay[p].status # "CONFIRMED" /\ Confirm(p, "POST_CLOSE_RECEIVABLE", {l})
      BY <1>31 DEF confirmReceivable
    <2>2. Collects(p, {l}) /\ {l} \in SUBSET Items
      BY <1>0, <2>1 DEF Collects, Confirm, Pay, TypeOK, Items
    <2> QED
      BY <1>31, <2>2 DEF confirmReceivable, terms
  <1>32. ASSUME NEW p \in Payments, cancelExpired(p) PROVE Goal
    <2>1. Quiet
      BY <1>0, <1>32 DEF cancelExpired, Quiet, Cancelled, Active, Purposed, TypeOK
    <2> QED
      BY <1>32, <2>1 DEF cancelExpired, terms
  <1>33. CASE UNCHANGED vars
    BY <1>33 DEF vars, Quiet
  <1> QED
    BY <1>1, <1>2, <1>3, <1>4, <1>5, <1>6, <1>7, <1>8, <1>9, <1>10, <1>11, <1>12, <1>13,
       <1>14, <1>15, <1>16, <1>17, <1>18, <1>19, <1>20, <1>20w, <1>21, <1>22, <1>23, <1>24,
       <1>25, <1>26, <1>27, <1>28, <1>29, <1>29w, <1>30, <1>31, <1>32, <1>33 DEF Next, Renewing,
       Reconciling, Starting, Card

LEMMA QuietMaps == Quiet => \A i \in Items : ConfirmedFor(i)' = ConfirmedFor(i)
  BY DEF Quiet, ConfirmedFor

\* The items of a payment that becomes confirmed were unpaid but for contested
\* renewals, since they are in no other confirmed payment after it; and even
\* those were in one at most.
LEMMA CollectsMaps ==
  ASSUME SettlementInvariant', ConfirmedOnce', contested' = contested,
         NEW p \in Payments, NEW S \in SUBSET Items, Collects(p, S)
  PROVE  /\ \A i \in S \ contested : ConfirmedFor(i) = {}
         /\ \A i \in S : /\ \A q, t \in ConfirmedFor(i) : q = t
                         /\ ConfirmedFor(i)' = ConfirmedFor(i) \union {p}
         /\ \A i \in Items \ S : ConfirmedFor(i)' = ConfirmedFor(i)
  <1>1. \A i \in S : p \in ConfirmedFor(i)' /\ p \notin ConfirmedFor(i)
    BY DEF Collects, ConfirmedFor
  <1>2. \A i \in Items, q \in Payments \ {p} : q \in ConfirmedFor(i)' <=> q \in ConfirmedFor(i)
    BY DEF Collects, ConfirmedFor
  <1>3. \A i \in Items \ S : p \notin ConfirmedFor(i)' /\ p \notin ConfirmedFor(i)
    BY DEF Collects, ConfirmedFor
  <1>4. \A i \in Items : ConfirmedFor(i) \subseteq Payments /\ ConfirmedFor(i)' \subseteq Payments
    BY DEF ConfirmedFor
  <1>5. ASSUME NEW i \in S \ contested PROVE ConfirmedFor(i) = {}
    <2>1. \A q \in ConfirmedFor(i)' : q = p
      BY <1>1 DEF ConfirmedOnce, ConfirmedFor
    <2> QED
      BY <2>1, <1>1, <1>2, <1>4
  <1>6. ASSUME NEW i \in S, NEW q \in ConfirmedFor(i), NEW t \in ConfirmedFor(i) PROVE q = t
    <2>1. p \in ConfirmedFor(i)' /\ q \in ConfirmedFor(i)' /\ t \in ConfirmedFor(i)' /\ p # q /\ p # t
      BY <1>1, <1>2, <1>4
    <2>2. PaidTwice'
      BY AtMostTwoPay, PTL
    <2> QED
      BY <2>1, <2>2 DEF PaidTwice
  <1>7. ASSUME NEW i \in S PROVE ConfirmedFor(i)' = ConfirmedFor(i) \union {p}
    BY <1>1, <1>2, <1>4
  <1>8. ASSUME NEW i \in Items \ S PROVE ConfirmedFor(i)' = ConfirmedFor(i)
    BY <1>2, <1>3, <1>4
  <1> QED
    BY <1>5, <1>6, <1>7, <1>8

\* A contract that is closed has each priced renewal in a confirmed payment.
ClosedPaid == contract = "CLOSED" => \A r \in Extended \ Free : ConfirmedFor(r) # {}

LEMMA ClosedIsPaid == SettlementInvariant => ClosedPaid
  <1> SUFFICES ASSUME SettlementInvariant, contract = "CLOSED", NEW r \in Extended \ Free
               PROVE  ConfirmedFor(r) # {}
    BY DEF ClosedPaid
  <1>1. paidBy[r] # 0
    BY DEF SettlementInvariant, ClosedOwesNoRenewal, Outstanding, Extended
  <1>2. paidBy[r] \in ConfirmedFor(r)
    BY <1>1 DEF SettlementInvariant, Paid, TypeOK, Extended, ConfirmedFor
  <1> QED
    BY <1>2

LEMMA InitMaps == Init => Account!Init
  BY NoPayFields DEF Init, Account!Init, Phase, ConfirmedFor

LEMMA NextMaps == SettlementInvariant /\ SettlementInvariant' /\ [Next]_vars
                    => [Account!Next]_(Account!vars)
  <1> SUFFICES ASSUME SettlementInvariant, SettlementInvariant', [Next]_vars
               PROVE  [Account!Next]_(Account!vars)
    OBVIOUS
  <1> DEFINE payers == [i \in Items |-> ConfirmedFor(i)]
  <1>1. ConfirmedOnce'
    BY InvariantConfirmsOnce, PTL
  <1>2. Outline
    BY OutlineStep
  <1>3. Quiet => payers' = payers
    BY QuietMaps
  <1>4. \A p \in Payments, S \in SUBSET Items :
          Collects(p, S) /\ contested' = contested => Account!Collect(p, S)
    BY <1>1, CollectsMaps DEF Account!Collect, Account!Unpaid, Account!PaidOnce, Account!Paid
  <1>5. contract = "REVIEW" /\ contract' = "CLOSED" /\ Extended' = Extended => Account!Close
    <2>1. ClosedPaid'
      BY ClosedIsPaid, PTL
    <2>2. Renewals \subseteq Items
      BY DEF Items
    <2> QED
      BY <2>1, <2>2 DEF ClosedPaid, Account!Close, Phase, Extended
  <1>6. CASE Quiet /\ contested' = contested
    BY <1>2, <1>3, <1>5, <1>6
       DEF Outline, Contests, Extended, Account!Next, Account!vars, Account!Extend, Phase
  <1>7. ASSUME Contests, Quiet, Extended' = Extended, contract = "REVIEW", contract' = "REVIEW"
        PROVE  Account!Next
    <2>1. PICK R \in SUBSET Renewals : /\ \A r \in R : ConfirmedFor(r) = {}
                                       /\ contested' = contested \union R
      BY <1>7 DEF Contests
    <2>2. Account!Contest(R)
      BY <2>1, <1>7 DEF Account!Contest, Account!Unpaid, Phase, Items
    <2> QED
      BY <2>2, <1>3, <1>7 DEF Extended, Account!Next, Phase
  <1>8. ASSUME NEW p \in Payments, NEW S \in SUBSET Items, Collects(p, S), contested' = contested,
               contract' = contract \/ (contract = "REVIEW" /\ contract' = "CLOSED"),
               Extended' = Extended
        PROVE  Account!Next
    <2>1. Account!Collect(p, S)
      BY <1>4, <1>8
    <2>2. CASE contract' = contract
      BY <2>1, <2>2, <1>8 DEF Extended, Account!Next, Account!Collecting, Phase
    <2>3. CASE contract = "REVIEW" /\ contract' = "CLOSED"
      BY <2>1, <2>3, <1>5, <1>8 DEF Extended, Account!Next, Account!Collecting
    <2> QED
      BY <1>8, <2>2, <2>3
  <1>9. ASSUME NEW p \in Payments, NEW r \in Renewals, Collects(p, {r}), contested' = contested,
               contract = "ACTIVE", contract' = "ACTIVE", Extended' = Extended \union {r}
        PROVE  Account!Next
    <2>1. Account!Collect(p, {r})
      BY <1>4, <1>9 DEF Items
    <2> QED
      BY <2>1, <1>9 DEF Extended, Account!Next, Account!Collecting, Account!Extend, Phase
  <1> QED
    BY <1>2, <1>6, <1>7, <1>8, <1>9 DEF Outline, Money

\* The settlement of a contract implements SettledOnce.
THEOREM SettlementImplementsSettledOnce == Spec => SettlesOnce
  BY SettlementIsInvariant, InitMaps, NextMaps, PTL DEF Spec, SettlesOnce, Account!Spec

=============================================================================
