---------------------------- MODULE RentalContracts ----------------------------
(***************************************************************************)
(* The contract handlers from the offer to the car-in: what the hirer does *)
(* on the public links, what staff do at the desk, and what the payment    *)
(* confirmation does to the contract.  Renewal, reconciliation and close   *)
(* are not here; a contract rests in REVIEW, which no longer blocks its    *)
(* vehicle.                                                                *)
(***************************************************************************)
EXTENDS FleetState

\* A hirer with one page open sends one request at a time; a link opened in
\* several pages (SharedLinks) sends them concurrently.
OneRequestAtATime(c) == c \in SharedLinks \/ ~ InFlight(HirerOps, c)

\* PAYMENT and LIFECYCLE locks of the contract, which deletion keeps.
DeletionLocked(c) == InFlight({"delete"}, c)

createOffer(c) ==
  /\ status[c] = "ABSENT"
  /\ VehicleBookableForRental(c)
  /\ status' = [status EXCEPT ![c] = "AWAITING"]
  /\ UNCHANGED <<accepted, carOut, carIn, emitted, pay, rentalLink, returnLink,
                 vehicleVars, orderVars, tx>>

generateRentalLink(c) ==
  /\ ~ DeletionLocked(c)
  /\ status[c] \in PrePayment
  /\ VehicleBookableForRental(c)
  /\ rentalLink' = rentalLink \union {c}
  /\ UNCHANGED <<status, accepted, carOut, carIn, emitted, pay, returnLink, vehicleVars,
                 orderVars, tx>>

generateReturnLink(c) ==
  /\ status[c] \in {"ACTIVE", "RETOUT"}
  /\ returnLink' = returnLink \union {c}
  /\ UNCHANGED <<status, accepted, carOut, carIn, emitted, pay, rentalLink, vehicleVars,
                 orderVars, tx>>

\* expiresAt passes; the link no longer resolves.
linksExpire(c) ==
  /\ c \in rentalLink \union returnLink
  /\ rentalLink' = rentalLink \ {c}
  /\ returnLink' = returnLink \ {c}
  /\ UNCHANGED <<status, accepted, carOut, carIn, emitted, pay, vehicleVars, orderVars, tx>>

-----------------------------------------------------------------------------
(* Paperwork on the rental link.                                           *)

\* Fault: the form may still be corrected after the signature.
faultySubmitFormRead(t, c) ==
  /\ OneRequestAtATime(c)
  /\ c \in rentalLink
  /\ status[c] \in PrePayment
  /\ Begin(t, [op |-> "form", on |-> c, saw |-> status[c]])
  /\ UNCHANGED <<contractVars, vehicleVars, orderVars>>

\* submitPublicForm reads the contract without taking any lock on it.
submitFormRead(t, c) ==
  /\ OneRequestAtATime(c)
  /\ c \in rentalLink
  /\ status[c] \in {"AWAITING", "FORM"}
  /\ Begin(t, [op |-> "form", on |-> c, saw |-> status[c]])
  /\ UNCHANGED <<contractVars, vehicleVars, orderVars>>

\* Its update writes FORM whatever the status has become; only the step from
\* AWAITING emits the (once only) event.
submitFormWrite(t) ==
  LET c == tx[t].on IN
  /\ Running(t, {"form"})
  /\ status[c] # "DELETED"
  /\ tx[t].saw = "AWAITING" => "form_completed" \notin emitted[c]
  /\ status' = [status EXCEPT ![c] = "FORM"]
  /\ emitted' = IF tx[t].saw = "AWAITING"
                THEN [emitted EXCEPT ![c] = @ \union {"form_completed"}]
                ELSE emitted
  /\ End(t)
  /\ UNCHANGED <<accepted, carOut, carIn, pay, rentalLink, returnLink, vehicleVars, orderVars>>

submitOfficialReview(c) ==
  /\ OneRequestAtATime(c)
  /\ c \in rentalLink
  /\ status[c] = "AWAITING"
  /\ status' = [status EXCEPT ![c] = "FORM"]
  /\ emitted' = [emitted EXCEPT ![c] = @ \union {"form_completed"}]
  /\ UNCHANGED <<accepted, carOut, carIn, pay, rentalLink, returnLink, vehicleVars,
                 orderVars, tx>>

\* Fault: acceptance does not wait for the form.
faultyAcceptRead(t, c) ==
  /\ OneRequestAtATime(c)
  /\ c \in rentalLink
  /\ status[c] \in {"AWAITING", "FORM"}
  /\ Begin(t, [op |-> "accept", on |-> c, saw |-> status[c]])
  /\ UNCHANGED <<contractVars, vehicleVars, orderVars>>

acceptRead(t, c) ==
  /\ OneRequestAtATime(c)
  /\ c \in rentalLink
  /\ status[c] = "FORM"
  /\ Begin(t, [op |-> "accept", on |-> c, saw |-> "FORM"])
  /\ UNCHANGED <<contractVars, vehicleVars, orderVars>>

acceptWrite(t) ==
  LET c == tx[t].on IN
  /\ Running(t, {"accept"})
  /\ status[c] # "DELETED"
  /\ c \notin accepted
  /\ accepted' = accepted \union {c}
  /\ status' = [status EXCEPT ![c] = "SIGNED"]
  /\ End(t)
  /\ UNCHANGED <<carOut, carIn, emitted, pay, rentalLink, returnLink, vehicleVars, orderVars>>

\* Signing holds the official-review lock, which acceptPublic and
\* submitPublicForm do not take.
signRead(t, c) ==
  /\ OneRequestAtATime(c)
  /\ ~ InFlight({"sign"}, c)
  /\ c \in rentalLink
  /\ status[c] = "FORM"
  /\ Begin(t, [op |-> "sign", on |-> c, saw |-> "FORM"])
  /\ UNCHANGED <<contractVars, vehicleVars, orderVars>>

signElectronicWrite(t) ==
  LET c == tx[t].on IN
  /\ Running(t, {"sign"})
  /\ c \notin CashContracts
  /\ status[c] # "DELETED"
  /\ c \notin accepted
  /\ accepted' = accepted \union {c}
  /\ status' = [status EXCEPT ![c] = "SIGNED"]
  /\ End(t)
  /\ UNCHANGED <<carOut, carIn, emitted, pay, rentalLink, returnLink, vehicleVars, orderVars>>

\* Fault: settlement does not check the vehicle.
faultyBecomePaid(c) ==
  /\ "paid" \notin emitted[c]
  /\ status' = [status EXCEPT ![c] = "PAID"]
  /\ emitted' = [emitted EXCEPT ![c] = @ \union {"paid"}]
  /\ pay' = [pay EXCEPT ![c] = "CONFIRMED"]
  /\ rentalLink' = rentalLink \ {c}

\* What applyDomainSettlement does to a SIGNED contract: contract.paid is
\* emitted once only, the rental links are completed.
becomePaid(c) ==
  /\ VehicleFreeForRental(c)
  /\ "paid" \notin emitted[c]
  /\ status' = [status EXCEPT ![c] = "PAID"]
  /\ emitted' = [emitted EXCEPT ![c] = @ \union {"paid"}]
  /\ pay' = [pay EXCEPT ![c] = "CONFIRMED"]
  /\ rentalLink' = rentalLink \ {c}

\* CASH settles in the signing transaction; if the vehicle is taken, the
\* signature rolls back with it.
signCashWrite(t) ==
  LET c == tx[t].on IN
  /\ Running(t, {"sign"})
  /\ c \in CashContracts
  /\ ~ DeletionLocked(c)
  /\ status[c] # "DELETED"
  /\ c \notin accepted
  /\ accepted' = accepted \union {c}
  /\ becomePaid(c)
  /\ End(t)
  /\ UNCHANGED <<carOut, carIn, returnLink, vehicleVars, orderVars>>

-----------------------------------------------------------------------------
(* Card payment, as the contract sees it; RentalCheckout has its rows.     *)

\* Fault: a payment may be started before the signature.
faultyStartCardPaymentRead(t, c) ==
  /\ c \in rentalLink
  /\ c \notin CashContracts
  /\ status[c] \in {"FORM", "SIGNED"}
  /\ Begin(t, [op |-> "startPayment", on |-> c, saw |-> status[c]])
  /\ UNCHANGED <<contractVars, vehicleVars, orderVars>>

\* The contract is checked before the transaction that creates the payment.
startCardPaymentRead(t, c) ==
  /\ c \in rentalLink
  /\ c \notin CashContracts
  /\ status[c] = "SIGNED"
  /\ Begin(t, [op |-> "startPayment", on |-> c, saw |-> "SIGNED"])
  /\ UNCHANGED <<contractVars, vehicleVars, orderVars>>

\* Fault: the payment is given the status of its attempt.
faultyStartCardPaymentWrite(t) ==
  LET c == tx[t].on IN
  /\ Running(t, {"startPayment"})
  /\ pay[c] \in {"NONE", "CANCELLED"}
  /\ pay' = [pay EXCEPT ![c] = "PREPARING"]
  /\ End(t)
  /\ UNCHANGED <<status, accepted, carOut, carIn, emitted, rentalLink, returnLink,
                 vehicleVars, orderVars>>

startCardPaymentWrite(t) ==
  LET c == tx[t].on IN
  /\ Running(t, {"startPayment"})
  /\ status[c] # "DELETED"
  /\ ~ DeletionLocked(c)
  /\ pay[c] \in {"NONE", "CANCELLED"}
  /\ pay' = [pay EXCEPT ![c] = "OPEN"]
  /\ End(t)
  /\ UNCHANGED <<status, accepted, carOut, carIn, emitted, rentalLink, returnLink,
                 vehicleVars, orderVars>>

\* The checkout is abandoned, expires or fails: the payment is read without a
\* lock (a second transaction of this kind meets the key of payment.failed),
endCheckoutRead(t, c) ==
  /\ pay[c] = "OPEN"
  /\ ~ InFlight({"endCheckout"}, c)
  /\ Begin(t, [op |-> "endCheckout", on |-> c, saw |-> status[c]])
  /\ UNCHANGED <<contractVars, vehicleVars, orderVars>>

\* and cancelled whatever has become of it, once no confirmation has its row
\* locked.
endCheckoutWrite(t) ==
  LET c == tx[t].on IN
  /\ Running(t, {"endCheckout"})
  /\ ~ InFlight({"confirm"}, c)
  /\ pay[c] # "NONE"
  /\ pay' = [pay EXCEPT ![c] = "CANCELLED"]
  /\ End(t)
  /\ UNCHANGED <<status, accepted, carOut, carIn, emitted, rentalLink, returnLink,
                 vehicleVars, orderVars>>

\* A trusted confirmation (webhook or poll) marks the payment row, which keeps
\* it locked, and reads the contract before the vehicle lock.
confirmRead(t, c) ==
  /\ pay[c] \in {"OPEN", "CANCELLED"}
  /\ ~ InFlight({"confirm"}, c)
  /\ Begin(t, [op |-> "confirm", on |-> c, saw |-> status[c]])
  /\ UNCHANGED <<contractVars, vehicleVars, orderVars>>

confirmWrite(t) ==
  LET c == tx[t].on IN
  /\ Running(t, {"confirm"})
  /\ \/ /\ tx[t].saw = "SIGNED"
        /\ becomePaid(c)
     \/ /\ tx[t].saw # "SIGNED"
        /\ pay' = [pay EXCEPT ![c] = "CONFIRMED"]
        /\ UNCHANGED <<status, emitted, rentalLink>>
  /\ End(t)
  /\ UNCHANGED <<accepted, carOut, carIn, returnLink, vehicleVars, orderVars>>

-----------------------------------------------------------------------------
(* Custody.                                                                *)

carOutRead(t, c) ==
  /\ VehicleFreeForRental(c)
  /\ status[c] = "PAID"
  /\ pay[c] = "CONFIRMED"
  /\ c \notin carOut
  /\ vehStatus[VehicleOf[c]] = "AVAILABLE"
  /\ Begin(t, [op |-> "carOut", on |-> c, saw |-> "PAID"])
  /\ UNCHANGED <<contractVars, vehicleVars, orderVars>>

carOutWrite(t) ==
  LET c == tx[t].on IN
  /\ Running(t, {"carOut"})
  /\ c \notin carOut
  /\ carOut' = carOut \union {c}
  /\ status' = [status EXCEPT ![c] = "ACTIVE"]
  /\ vehStatus' = [vehStatus EXCEPT ![VehicleOf[c]] = "RENTED"]
  /\ End(t)
  /\ UNCHANGED <<accepted, carIn, emitted, pay, rentalLink, returnLink, active, orderVars>>

\* Fault: announcing the return already ends the rental.
faultyBeginContractReturn(c) ==
  /\ status[c] = "ACTIVE"
  /\ status' = [status EXCEPT ![c] = "REVIEW"]
  /\ UNCHANGED <<accepted, carOut, carIn, emitted, pay, rentalLink, returnLink,
                 vehicleVars, orderVars, tx>>

beginContractReturn(c) ==
  /\ status[c] = "ACTIVE"
  /\ status' = [status EXCEPT ![c] = "RETOUT"]
  /\ UNCHANGED <<accepted, carOut, carIn, emitted, pay, rentalLink, returnLink,
                 vehicleVars, orderVars, tx>>

confirmReturnPublic(c) ==
  /\ c \in returnLink
  /\ beginContractReturn(c)

confirmReturnStaff(c) ==
  /\ c \in carOut
  /\ vehStatus[VehicleOf[c]] = "RENTED"
  /\ ~ VehicleRentalLocked(VehicleOf[c])
  /\ beginContractReturn(c)

\* The hirer's car-in checks the contract before it takes the vehicle lock.
carInRead(t, c) ==
  /\ c \in returnLink
  /\ status[c] = "RETOUT"
  /\ c \in carOut
  /\ Begin(t, [op |-> "carIn", on |-> c, saw |-> "RETOUT"])
  /\ UNCHANGED <<contractVars, vehicleVars, orderVars>>

\* Fault: the car-in is recorded and the contract left as it was.
faultyCarInWrite(t) ==
  LET c == tx[t].on IN
  /\ Running(t, {"carIn"})
  /\ c \notin carIn
  /\ carIn' = carIn \union {c}
  /\ End(t)
  /\ UNCHANGED <<status, accepted, carOut, emitted, pay, rentalLink, returnLink,
                 vehicleVars, orderVars>>

\* The row is unique, the link may be used once, and a vehicle that is not
\* RENTED any more keeps its status.
carInWrite(t) ==
  LET c == tx[t].on
      v == VehicleOf[c] IN
  /\ Running(t, {"carIn"})
  /\ ~ VehicleRentalLocked(v)
  /\ c \notin carIn
  /\ c \in returnLink
  /\ carIn' = carIn \union {c}
  /\ status' = [status EXCEPT ![c] = "REVIEW"]
  /\ vehStatus' = [vehStatus EXCEPT ![v] = IF @ = "RENTED" THEN "AVAILABLE" ELSE @]
  /\ returnLink' = returnLink \ {c}
  /\ End(t)
  /\ UNCHANGED <<accepted, carOut, emitted, pay, rentalLink, active, orderVars>>

completeCarInRead(t, c) ==
  /\ ~ VehicleRentalLocked(VehicleOf[c])
  /\ status[c] = "RETOUT"
  /\ c \in carOut
  /\ vehStatus[VehicleOf[c]] = "RENTED"
  /\ Begin(t, [op |-> "completeCarIn", on |-> c, saw |-> "RETOUT"])
  /\ UNCHANGED <<contractVars, vehicleVars, orderVars>>

completeCarInWrite(t) ==
  LET c == tx[t].on IN
  /\ Running(t, {"completeCarIn"})
  /\ c \notin carIn
  /\ carIn' = carIn \union {c}
  /\ status' = [status EXCEPT ![c] = "REVIEW"]
  /\ vehStatus' = [vehStatus EXCEPT ![VehicleOf[c]] = "AVAILABLE"]
  /\ returnLink' = returnLink \ {c}
  /\ End(t)
  /\ UNCHANGED <<accepted, carOut, emitted, pay, rentalLink, active, orderVars>>

-----------------------------------------------------------------------------
(* Staff remove a request that was never paid.                             *)

\* The checks are made under the contract's own locks, before the vehicle's:
\* a late confirmation, which takes neither, may still commit after them.
deleteRead(t, c) ==
  /\ ~ DeletionLocked(c)
  /\ status[c] \in PrePayment
  /\ c \notin carOut \union carIn
  /\ pay[c] \notin {"OPEN", "CONFIRMED"}
  /\ Begin(t, [op |-> "delete", on |-> c, saw |-> status[c]])
  /\ UNCHANGED <<contractVars, vehicleVars, orderVars>>

\* Fault: deletion does not wait for a confirmation in flight.
faultyDeleteWrite(t) ==
  LET c == tx[t].on IN
  /\ Running(t, {"delete"})
  /\ ~ VehicleRentalLocked(VehicleOf[c])
  /\ status' = [status EXCEPT ![c] = "DELETED"]
  /\ accepted' = accepted \ {c}
  /\ pay' = [pay EXCEPT ![c] = "NONE"]
  /\ rentalLink' = rentalLink \ {c}
  /\ returnLink' = returnLink \ {c}
  /\ End(t)
  /\ UNCHANGED <<carOut, carIn, emitted, vehicleVars, orderVars>>

\* The vehicle lock, then the rows: that of the payment waits for a confirmation
\* that has it locked, and the ledger entry of a confirmed payment restricts its
\* deletion.
deleteWrite(t) ==
  LET c == tx[t].on IN
  /\ Running(t, {"delete"})
  /\ ~ VehicleRentalLocked(VehicleOf[c])
  /\ ~ InFlight({"confirm"}, c)
  /\ pay[c] # "CONFIRMED"
  /\ status' = [status EXCEPT ![c] = "DELETED"]
  /\ accepted' = accepted \ {c}
  /\ pay' = [pay EXCEPT ![c] = "NONE"]
  /\ rentalLink' = rentalLink \ {c}
  /\ returnLink' = returnLink \ {c}
  /\ End(t)
  /\ UNCHANGED <<carOut, carIn, emitted, vehicleVars, orderVars>>

-----------------------------------------------------------------------------
ContractNext ==
  \/ \E c \in Contracts :
       \/ createOffer(c) \/ generateRentalLink(c) \/ generateReturnLink(c)
       \/ linksExpire(c) \/ submitOfficialReview(c)
       \/ confirmReturnPublic(c) \/ confirmReturnStaff(c)
  \/ \E t \in Tx, c \in Contracts :
       \/ submitFormRead(t, c) \/ acceptRead(t, c) \/ signRead(t, c)
       \/ startCardPaymentRead(t, c) \/ endCheckoutRead(t, c) \/ confirmRead(t, c)
       \/ carOutRead(t, c) \/ carInRead(t, c) \/ completeCarInRead(t, c)
       \/ deleteRead(t, c)
  \/ \E t \in Tx :
       \/ submitFormWrite(t) \/ acceptWrite(t)
       \/ signElectronicWrite(t) \/ signCashWrite(t)
       \/ startCardPaymentWrite(t) \/ endCheckoutWrite(t) \/ confirmWrite(t)
       \/ carOutWrite(t) \/ carInWrite(t) \/ completeCarInWrite(t)
       \/ deleteWrite(t)
=============================================================================
