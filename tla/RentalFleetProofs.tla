--------------------------- MODULE RentalFleetProofs ---------------------------
(***************************************************************************)
(* The safety of RentalFleet for every number of contracts, vehicles,      *)
(* workshop orders and transactions in flight, as long as every rental     *)
(* link is open in one page (SharedLinks = {}); and one active order per   *)
(* vehicle, as long as one employee marks it ready (SharedOrders = {}).    *)
(***************************************************************************)
EXTENDS RentalFleetTypes

\* Which transactions cannot be in flight together: no two hold the rental lock
\* of one vehicle, serve one hirer or confirm one payment.
TransactionsExclude ==
  \A t, u \in Tx :
    t # u =>
      /\ Running(t, RentalLockOps) /\ Running(u, RentalLockOps) =>
           VehicleOf[tx[t].on] # VehicleOf[tx[u].on]
      /\ Running(t, HirerOps) /\ Running(u, HirerOps) => tx[t].on # tx[u].on
      /\ Running(t, {"confirm"}) /\ Running(u, {"confirm"}) => tx[t].on # tx[u].on

\* The conjunct of ReadsStillHold that is about every handler but deletion.
HandlersHold == \A t \in Tx : ReadHolds(t, status[tx[t].on])

\* Why a deletion cannot remove what was paid: while it is in flight no checkout
\* of the contract is open or about to be cancelled, so a payment confirmed
\* meanwhile stays confirmed.
Unpaying == {"delete", "endCheckout"}
Deletions ==
  /\ \A t \in Tx : Running(t, {"delete"}) =>
       DeletionHolds(tx[t].on) /\ pay[tx[t].on] # "OPEN"
  /\ \A t \in Tx : Running(t, {"endCheckout"}) => pay[tx[t].on] \in {"OPEN", "CONFIRMED"}
  /\ \A t, u \in Tx :
       t # u /\ Running(t, Unpaying) /\ Running(u, Unpaying) => tx[t].on # tx[u].on

\* The inductive invariant.  No two contracts hold a vehicle because the guard
\* that lets one in is evaluated under the vehicle lock (TransactionsExclude)
\* and because no unlocked write takes a contract out of a blocking status
\* behind its back (HandlersHold, Deletions), a payment included
\* (PaymentsFollowContract).
Core ==
  /\ TypeOK
  /\ TransactionsExclude
  /\ HandlersHold
  /\ OneReservationPerVehicle
  /\ CustodyMatchesLifecycle
  /\ PaymentsFollowContract
  /\ ConfirmedPaymentIsHonoured

IInv == Core /\ Deletions

\* What the rental flow has checked when a transaction of its begins.
Entered(op, c) ==
  /\ op \in HirerOps => ~ InFlight(HirerOps, c)
  /\ op \in RentalLockOps => ~ VehicleRentalLocked(VehicleOf[c])
  /\ op = "confirm" => ~ InFlight({"confirm"}, c) /\ pay[c] # "NONE"
  /\ op = "form" => status[c] \in {"AWAITING", "FORM"}
  /\ op \in {"accept", "sign"} => status[c] = "FORM"
  /\ op = "startPayment" => status[c] = "SIGNED"
  /\ op = "carOut" => status[c] = "PAID"
  /\ op \in {"carIn", "completeCarIn"} => status[c] = "RETOUT"
  /\ op = "delete" => /\ status[c] \in PrePayment
                      /\ pay[c] \notin {"OPEN", "CONFIRMED"}
                      /\ ~ InFlight({"delete"}, c)
  /\ op = "endCheckout" => pay[c] = "OPEN" /\ ~ InFlight({"endCheckout"}, c)

\* No step but a Begin puts a contract transaction in flight.
NoContractTxBegins == \A t \in Tx : tx'[t] = tx[t] \/ tx'[t].op \notin ContractOps

-----------------------------------------------------------------------------
\* The invariant holds at first.
LEMMA Init_IInv == Init => IInv
  <1> SUFFICES ASSUME Init PROVE IInv
    OBVIOUS
  <1>1. TypeOK
    BY TypeInit
  <1>2. TransactionsExclude /\ HandlersHold
    BY DEF Init, TransactionsExclude, HandlersHold, ReadHolds, Running, Idle, HirerOps,
           RentalLockOps
  <1>3. OneReservationPerVehicle /\ CustodyMatchesLifecycle
    BY DEF Init, OneReservationPerVehicle, CustodyMatchesLifecycle, Blocking, InCustody,
           BLOCKING_CONTRACT_STATUSES
  <1>4. PaymentsFollowContract /\ ConfirmedPaymentIsHonoured
    BY DEF Init, PaymentsFollowContract, ConfirmedPaymentIsHonoured, Running, Idle
  <1>5. Deletions
    BY DEF Init, Deletions, Unpaying, Running, Idle
  <1> QED
    BY <1>1, <1>2, <1>3, <1>4, <1>5 DEF IInv, Core

\* A transaction that ends begins nothing ...
LEMMA EndBeginsNothing ==
  ASSUME TypeOK, NEW t \in Tx, End(t)
  PROVE  NoContractTxBegins
  BY DEF End, NoContractTxBegins, Idle, ContractOps, HirerOps

\* ... and neither does a step that leaves the transactions alone.
LEMMA SameTxBeginsNothing == UNCHANGED tx => NoContractTxBegins
  BY DEF NoContractTxBegins

\* Exclusion is about what is in flight: it cannot be lost by ending.
LEMMA ExclusionKept ==
  ASSUME TransactionsExclude, NoContractTxBegins
  PROVE  TransactionsExclude'
  BY DEF TransactionsExclude, NoContractTxBegins, Running, RentalLockOps, ContractOps

\* Steps that touch no contract, custody or payment row keep the invariant.
LEMMA QuietStep ==
  ASSUME IInv, TypeOK', NoContractTxBegins, UNCHANGED <<status, carOut, carIn, pay>>
  PROVE  IInv'
  <1> USE DEF IInv, Core
  <1>1. TransactionsExclude'
    BY ExclusionKept
  <1>2. HandlersHold'
    BY DEF HandlersHold, ReadHolds, NoContractTxBegins, Running, ContractOps, HirerOps
  <1>3. PaymentsFollowContract'
    BY DEF PaymentsFollowContract, NoContractTxBegins, Running, ContractOps
  <1>4. /\ OneReservationPerVehicle' /\ CustodyMatchesLifecycle'
        /\ ConfirmedPaymentIsHonoured'
    BY DEF OneReservationPerVehicle, CustodyMatchesLifecycle, ConfirmedPaymentIsHonoured,
           Blocking, InCustody
  <1>5. Deletions'
    BY DEF Deletions, Unpaying, DeletionHolds, NoContractTxBegins, Running, ContractOps
  <1> QED
    BY <1>1, <1>2, <1>3, <1>4, <1>5

\* A transaction may begin once its handler has made its checks.
LEMMA BeginStep ==
  ASSUME IInv, TypeOK', UNCHANGED <<status, carOut, carIn, pay>>,
         NEW t \in Tx, NEW op \in ContractOps, NEW c \in Contracts,
         Begin(t, [op |-> op, on |-> c, saw |-> status[c]]), Entered(op, c)
  PROVE  IInv'
  <1> USE DEF IInv, Core
  <1>1. /\ tx'[t].op = op /\ tx'[t].on = c /\ tx'[t].saw = status[c]
        /\ \A u \in Tx \ {t} : tx'[u] = tx[u]
    BY DEF Begin, TypeOK
  <1>2. TransactionsExclude'
    BY <1>1 DEF TransactionsExclude, Running, Entered, InFlight, VehicleRentalLocked
  <1>3. HandlersHold'
    BY <1>1 DEF HandlersHold, ReadHolds, Running, Entered
  <1>4. PaymentsFollowContract'
    BY <1>1 DEF PaymentsFollowContract, Running, Entered, Settleable
  <1>5. /\ OneReservationPerVehicle' /\ CustodyMatchesLifecycle'
        /\ ConfirmedPaymentIsHonoured'
    BY DEF OneReservationPerVehicle, CustodyMatchesLifecycle, ConfirmedPaymentIsHonoured,
           Blocking, InCustody
  <1>6. Deletions'
    BY <1>1 DEF Deletions, Unpaying, DeletionHolds, Running, Entered, InFlight
  <1> QED
    BY <1>2, <1>3, <1>4, <1>5, <1>6

\* A write to one contract spoils no reading if it respects those of the
\* other transactions in flight on that contract.
LEMMA WriteReads ==
  ASSUME IInv, NoContractTxBegins,
         NEW c \in Contracts, NEW s, status' = [status EXCEPT ![c] = s],
         \A u \in Tx : /\ tx'[u] = tx[u]
                       /\ Running(u, ContractOps)
                       /\ tx[u].on = c
                       => ReadHolds(u, s)
  PROVE  HandlersHold'
  <1> SUFFICES ASSUME NEW u \in Tx PROVE ReadHolds(u, status[tx[u].on])'
    BY DEF HandlersHold
  <1> USE DEF IInv, Core
  <1>1. CASE tx'[u].op \notin ContractOps
    BY <1>1 DEF ReadHolds, Running, ContractOps, HirerOps
  <1>2. CASE tx'[u] = tx[u] /\ Running(u, ContractOps)
    <2>1. tx[u].on \in Contracts
      BY <1>2, RunningType
    <2>2. CASE tx[u].on = c
      BY <1>2, <2>2 DEF ReadHolds, Running, TypeOK
    <2>3. CASE tx[u].on # c
      BY <1>2, <2>1, <2>3 DEF HandlersHold, ReadHolds, Running
    <2> QED
      BY <2>2, <2>3
  <1> QED
    BY <1>1, <1>2 DEF NoContractTxBegins, Running

-----------------------------------------------------------------------------
\* Every handler that begins a transaction has made the checks of Entered.
LEMMA ReadSteps ==
  ASSUME SharedLinks = {}, IInv, TypeOK', NEW t \in Tx, NEW c \in Contracts
  PROVE  /\ submitFormRead(t, c) => IInv'
         /\ acceptRead(t, c) => IInv'
         /\ signRead(t, c) => IInv'
         /\ startCardPaymentRead(t, c) => IInv'
         /\ endCheckoutRead(t, c) => IInv'
         /\ confirmRead(t, c) => IInv'
         /\ carOutRead(t, c) => IInv'
         /\ carInRead(t, c) => IInv'
         /\ completeCarInRead(t, c) => IInv'
         /\ deleteRead(t, c) => IInv'
  <1>1. ASSUME submitFormRead(t, c) PROVE IInv'
    <2>1. /\ UNCHANGED <<status, carOut, carIn, pay>>
          /\ Begin(t, [op |-> "form", on |-> c, saw |-> status[c]])
      BY <1>1 DEF submitFormRead, contractVars
    <2>2. Entered("form", c)
      BY <1>1 DEF submitFormRead, OneRequestAtATime, Entered, RentalLockOps
    <2> QED
      BY <2>1, <2>2, BeginStep DEF ContractOps, HirerOps
  <1>2. ASSUME acceptRead(t, c) PROVE IInv'
    <2>1. /\ UNCHANGED <<status, carOut, carIn, pay>>
          /\ Begin(t, [op |-> "accept", on |-> c, saw |-> status[c]])
      BY <1>2 DEF acceptRead, contractVars
    <2>2. Entered("accept", c)
      BY <1>2 DEF acceptRead, OneRequestAtATime, Entered, RentalLockOps
    <2> QED
      BY <2>1, <2>2, BeginStep DEF ContractOps, HirerOps
  <1>3. ASSUME signRead(t, c) PROVE IInv'
    <2>1. /\ UNCHANGED <<status, carOut, carIn, pay>>
          /\ Begin(t, [op |-> "sign", on |-> c, saw |-> status[c]])
      BY <1>3 DEF signRead, contractVars
    <2>2. Entered("sign", c)
      BY <1>3 DEF signRead, OneRequestAtATime, Entered, RentalLockOps
    <2> QED
      BY <2>1, <2>2, BeginStep DEF ContractOps, HirerOps
  <1>4. ASSUME startCardPaymentRead(t, c) PROVE IInv'
    <2>1. /\ UNCHANGED <<status, carOut, carIn, pay>>
          /\ Begin(t, [op |-> "startPayment", on |-> c, saw |-> status[c]])
      BY <1>4 DEF startCardPaymentRead, contractVars
    <2>2. Entered("startPayment", c)
      BY <1>4 DEF startCardPaymentRead, Entered, HirerOps, RentalLockOps
    <2> QED
      BY <2>1, <2>2, BeginStep DEF ContractOps, HirerOps
  <1>5. ASSUME endCheckoutRead(t, c) PROVE IInv'
    <2>1. /\ UNCHANGED <<status, carOut, carIn, pay>>
          /\ Begin(t, [op |-> "endCheckout", on |-> c, saw |-> status[c]])
      BY <1>5 DEF endCheckoutRead, contractVars
    <2>2. Entered("endCheckout", c)
      BY <1>5 DEF endCheckoutRead, Entered, HirerOps, RentalLockOps
    <2> QED
      BY <2>1, <2>2, BeginStep DEF ContractOps, HirerOps
  <1>6. ASSUME confirmRead(t, c) PROVE IInv'
    <2>1. /\ UNCHANGED <<status, carOut, carIn, pay>>
          /\ Begin(t, [op |-> "confirm", on |-> c, saw |-> status[c]])
      BY <1>6 DEF confirmRead, contractVars
    <2>2. Entered("confirm", c)
      BY <1>6 DEF confirmRead, Entered, HirerOps, RentalLockOps
    <2> QED
      BY <2>1, <2>2, BeginStep DEF ContractOps, HirerOps
  <1>7. ASSUME carOutRead(t, c) PROVE IInv'
    <2>1. /\ UNCHANGED <<status, carOut, carIn, pay>>
          /\ Begin(t, [op |-> "carOut", on |-> c, saw |-> status[c]])
      BY <1>7 DEF carOutRead, contractVars
    <2>2. Entered("carOut", c)
      BY <1>7 DEF carOutRead, VehicleFreeForRental, Entered, HirerOps
    <2> QED
      BY <2>1, <2>2, BeginStep DEF ContractOps, HirerOps
  <1>8. ASSUME carInRead(t, c) PROVE IInv'
    <2>1. /\ UNCHANGED <<status, carOut, carIn, pay>>
          /\ Begin(t, [op |-> "carIn", on |-> c, saw |-> status[c]])
      BY <1>8 DEF carInRead, contractVars
    <2>2. Entered("carIn", c)
      BY <1>8 DEF carInRead, Entered, HirerOps, RentalLockOps
    <2> QED
      BY <2>1, <2>2, BeginStep DEF ContractOps, HirerOps
  <1>9. ASSUME completeCarInRead(t, c) PROVE IInv'
    <2>1. /\ UNCHANGED <<status, carOut, carIn, pay>>
          /\ Begin(t, [op |-> "completeCarIn", on |-> c, saw |-> status[c]])
      BY <1>9 DEF completeCarInRead, contractVars
    <2>2. Entered("completeCarIn", c)
      BY <1>9 DEF completeCarInRead, Entered, HirerOps
    <2> QED
      BY <2>1, <2>2, BeginStep DEF ContractOps, HirerOps
  <1>10. ASSUME deleteRead(t, c) PROVE IInv'
    <2>1. /\ UNCHANGED <<status, carOut, carIn, pay>>
          /\ Begin(t, [op |-> "delete", on |-> c, saw |-> status[c]])
      BY <1>10 DEF deleteRead, contractVars
    <2>2. Entered("delete", c)
      BY <1>10 DEF deleteRead, DeletionLocked, Entered, HirerOps, RentalLockOps
    <2> QED
      BY <2>1, <2>2, BeginStep DEF ContractOps, HirerOps
  <1> QED
    BY <1>1, <1>2, <1>3, <1>4, <1>5, <1>6, <1>7, <1>8, <1>9, <1>10

\* The single statement handlers.
LEMMA SingleSteps ==
  ASSUME IInv, TypeOK', NEW c \in Contracts
  PROVE  /\ createOffer(c) => Core'
         /\ generateRentalLink(c) => IInv'
         /\ generateReturnLink(c) => IInv'
         /\ linksExpire(c) => IInv'
         /\ submitOfficialReview(c) => Core'
         /\ beginContractReturn(c) => Core'
  <1>1. ASSUME generateRentalLink(c) PROVE IInv'
    BY <1>1, SameTxBeginsNothing, QuietStep DEF generateRentalLink, vehicleVars
  <1>2. ASSUME generateReturnLink(c) PROVE IInv'
    BY <1>2, SameTxBeginsNothing, QuietStep DEF generateReturnLink, vehicleVars
  <1>3. ASSUME linksExpire(c) PROVE IInv'
    BY <1>3, SameTxBeginsNothing, QuietStep DEF linksExpire, vehicleVars
  <1>4. ASSUME createOffer(c) PROVE Core'
    <2> USE <1>4 DEF IInv, Core, createOffer
    <2>1. TransactionsExclude'
      BY SameTxBeginsNothing, ExclusionKept
    <2>2. HandlersHold'
      BY DEF HandlersHold, ReadHolds, Running, PrePayment
    <2>3. OneReservationPerVehicle'
      BY DEF OneReservationPerVehicle, Blocking, BLOCKING_CONTRACT_STATUSES
    <2>4. CustodyMatchesLifecycle'
      BY DEF CustodyMatchesLifecycle, InCustody, TypeOK
    <2>5. PaymentsFollowContract'
      BY DEF PaymentsFollowContract, Settleable, BLOCKING_CONTRACT_STATUSES, Running
    <2>6. ConfirmedPaymentIsHonoured'
      BY DEF ConfirmedPaymentIsHonoured, BLOCKING_CONTRACT_STATUSES, TypeOK
    <2> QED
      BY <2>1, <2>2, <2>3, <2>4, <2>5, <2>6
  <1>5. ASSUME submitOfficialReview(c) PROVE Core'
    <2> USE <1>5 DEF IInv, Core, submitOfficialReview
    <2>1. TransactionsExclude'
      BY SameTxBeginsNothing, ExclusionKept
    <2>2. HandlersHold'
      BY DEF HandlersHold, ReadHolds, Running, PrePayment
    <2>3. OneReservationPerVehicle'
      BY DEF OneReservationPerVehicle, Blocking, BLOCKING_CONTRACT_STATUSES
    <2>4. CustodyMatchesLifecycle'
      BY DEF CustodyMatchesLifecycle, InCustody, TypeOK
    <2>5. PaymentsFollowContract'
      BY DEF PaymentsFollowContract, Settleable, BLOCKING_CONTRACT_STATUSES, Running
    <2>6. ConfirmedPaymentIsHonoured'
      BY DEF ConfirmedPaymentIsHonoured, BLOCKING_CONTRACT_STATUSES, TypeOK
    <2> QED
      BY <2>1, <2>2, <2>3, <2>4, <2>5, <2>6
  <1>6. ASSUME beginContractReturn(c) PROVE Core'
    <2> USE <1>6 DEF IInv, Core, beginContractReturn
    <2>1. TransactionsExclude'
      BY SameTxBeginsNothing, ExclusionKept
    <2>2. HandlersHold'
      BY DEF HandlersHold, ReadHolds, Running, PrePayment
    <2>3. OneReservationPerVehicle'
      BY DEF OneReservationPerVehicle, Blocking, BLOCKING_CONTRACT_STATUSES
    <2>4. CustodyMatchesLifecycle'
      BY DEF CustodyMatchesLifecycle, InCustody, TypeOK
    <2>5. PaymentsFollowContract'
      BY DEF PaymentsFollowContract, Settleable, BLOCKING_CONTRACT_STATUSES, Running
    <2>6. ConfirmedPaymentIsHonoured'
      BY DEF ConfirmedPaymentIsHonoured, BLOCKING_CONTRACT_STATUSES, TypeOK
    <2> QED
      BY <2>1, <2>2, <2>3, <2>4, <2>5, <2>6
  <1> QED
    BY <1>1, <1>2, <1>3, <1>4, <1>5, <1>6

\* Paperwork writes what its transaction read, or takes a cash payment.
LEMMA PaperworkSteps ==
  ASSUME IInv, TypeOK', NEW t \in Tx
  PROVE  /\ submitFormWrite(t) => Core'
         /\ acceptWrite(t) => Core'
         /\ signElectronicWrite(t) => Core'
         /\ signCashWrite(t) => Core'
  <1>1. ASSUME submitFormWrite(t) PROVE Core'
    <2> USE <1>1 DEF IInv, Core
    <2>1. tx[t].op = "form" /\ tx[t].on \in Contracts /\ NoContractTxBegins
      BY RunningType, EndBeginsNothing DEF submitFormWrite, Running, ContractOps, HirerOps
    <2>2. TransactionsExclude'
      BY <2>1, ExclusionKept
    <2>3. HandlersHold'
      <3>1. \A u \in Tx : /\ tx'[u] = tx[u] /\ Running(u, ContractOps) /\ tx[u].on = tx[t].on
                       => ReadHolds(u, "FORM")
        BY <2>1 DEF HandlersHold, ReadHolds, Running, PrePayment
      <3> QED
        BY <2>1, <3>1, WriteReads DEF submitFormWrite
    <2>4. OneReservationPerVehicle'
      BY <2>1
         DEF submitFormWrite, OneReservationPerVehicle, Blocking, BLOCKING_CONTRACT_STATUSES
    <2>5. CustodyMatchesLifecycle'
      BY <2>1
         DEF submitFormWrite, HandlersHold, ReadHolds, CustodyMatchesLifecycle, InCustody
    <2>6. PaymentsFollowContract'
      BY <2>1
         DEF submitFormWrite, HandlersHold, ReadHolds, NoContractTxBegins, Running,
             ContractOps, PaymentsFollowContract, Settleable, BLOCKING_CONTRACT_STATUSES
    <2>7. ConfirmedPaymentIsHonoured'
      BY <2>1
         DEF submitFormWrite, HandlersHold, ReadHolds, ConfirmedPaymentIsHonoured,
             BLOCKING_CONTRACT_STATUSES
    <2> QED
      BY <2>2, <2>3, <2>4, <2>5, <2>6, <2>7
  <1>2. ASSUME acceptWrite(t) PROVE Core'
    <2> USE <1>2 DEF IInv, Core
    <2>1. tx[t].op = "accept" /\ tx[t].on \in Contracts /\ NoContractTxBegins
      BY RunningType, EndBeginsNothing DEF acceptWrite, Running, ContractOps, HirerOps
    <2>2. TransactionsExclude'
      BY <2>1, ExclusionKept
    <2>3. HandlersHold'
      <3>1. \A u \in Tx : /\ tx'[u] = tx[u] /\ Running(u, ContractOps) /\ tx[u].on = tx[t].on
                       => ReadHolds(u, "SIGNED")
        BY <2>1
           DEF acceptWrite, End, Idle, TransactionsExclude, HandlersHold, ReadHolds,
               Running, HirerOps, PrePayment, TypeOK
      <3> QED
        BY <2>1, <3>1, WriteReads DEF acceptWrite
    <2>4. OneReservationPerVehicle'
      BY <2>1 DEF acceptWrite, OneReservationPerVehicle, Blocking, BLOCKING_CONTRACT_STATUSES
    <2>5. CustodyMatchesLifecycle'
      BY <2>1
         DEF acceptWrite, HandlersHold, ReadHolds, Running, CustodyMatchesLifecycle,
             InCustody
    <2>6. PaymentsFollowContract'
      BY <2>1
         DEF acceptWrite, HandlersHold, ReadHolds, NoContractTxBegins, Running,
             ContractOps, PaymentsFollowContract, Settleable, BLOCKING_CONTRACT_STATUSES
    <2>7. ConfirmedPaymentIsHonoured'
      BY <2>1
         DEF acceptWrite, HandlersHold, ReadHolds, Running, ConfirmedPaymentIsHonoured,
             BLOCKING_CONTRACT_STATUSES
    <2> QED
      BY <2>2, <2>3, <2>4, <2>5, <2>6, <2>7
  <1>3. ASSUME signElectronicWrite(t) PROVE Core'
    <2> USE <1>3 DEF IInv, Core
    <2>1. tx[t].op = "sign" /\ tx[t].on \in Contracts /\ NoContractTxBegins
      BY RunningType, EndBeginsNothing DEF signElectronicWrite, Running, ContractOps, HirerOps
    <2>2. TransactionsExclude'
      BY <2>1, ExclusionKept
    <2>3. HandlersHold'
      <3>1. \A u \in Tx : /\ tx'[u] = tx[u] /\ Running(u, ContractOps) /\ tx[u].on = tx[t].on
                       => ReadHolds(u, "SIGNED")
        BY <2>1
           DEF signElectronicWrite, End, Idle, TransactionsExclude, HandlersHold,
               ReadHolds, Running, HirerOps, PrePayment, TypeOK
      <3> QED
        BY <2>1, <3>1, WriteReads DEF signElectronicWrite
    <2>4. OneReservationPerVehicle'
      BY <2>1
         DEF signElectronicWrite, OneReservationPerVehicle, Blocking,
             BLOCKING_CONTRACT_STATUSES
    <2>5. CustodyMatchesLifecycle'
      BY <2>1
         DEF signElectronicWrite, HandlersHold, ReadHolds, Running,
             CustodyMatchesLifecycle, InCustody
    <2>6. PaymentsFollowContract'
      BY <2>1
         DEF signElectronicWrite, HandlersHold, ReadHolds, NoContractTxBegins, Running,
             ContractOps, PaymentsFollowContract, Settleable, BLOCKING_CONTRACT_STATUSES
    <2>7. ConfirmedPaymentIsHonoured'
      BY <2>1
         DEF signElectronicWrite, HandlersHold, ReadHolds, Running,
             ConfirmedPaymentIsHonoured, BLOCKING_CONTRACT_STATUSES
    <2> QED
      BY <2>2, <2>3, <2>4, <2>5, <2>6, <2>7
  <1>4. ASSUME signCashWrite(t) PROVE Core'
    <2> USE <1>4 DEF IInv, Core
    <2>1. tx[t].op = "sign" /\ tx[t].on \in Contracts /\ NoContractTxBegins
      BY RunningType, EndBeginsNothing DEF signCashWrite, Running, ContractOps, HirerOps
    <2>2. TransactionsExclude'
      BY <2>1, ExclusionKept
    <2>3. HandlersHold'
      <3>1. \A u \in Tx : /\ tx'[u] = tx[u] /\ Running(u, ContractOps) /\ tx[u].on = tx[t].on
                       => ReadHolds(u, "PAID")
        BY <2>1
           DEF signCashWrite, becomePaid, VehicleFreeForRental, End, Idle,
               VehicleRentalLocked, TransactionsExclude, HandlersHold, ReadHolds, Running,
               HirerOps, RentalLockOps, TypeOK
      <3> QED
        BY <2>1, <3>1, WriteReads DEF signCashWrite, becomePaid
    <2>4. OneReservationPerVehicle'
      BY <2>1
         DEF signCashWrite, becomePaid, VehicleFreeForRental, OneReservationPerVehicle,
             SameVehicle, Blocking
    <2>5. CustodyMatchesLifecycle'
      BY <2>1
         DEF signCashWrite, becomePaid, HandlersHold, ReadHolds, Running,
             CustodyMatchesLifecycle, InCustody
    <2>6. PaymentsFollowContract'
      BY <2>1
         DEF signCashWrite, becomePaid, NoContractTxBegins, Running, ContractOps,
             PaymentsFollowContract, Settleable, BLOCKING_CONTRACT_STATUSES, TypeOK
    <2>7. ConfirmedPaymentIsHonoured'
      BY <2>1
         DEF signCashWrite, becomePaid, ConfirmedPaymentIsHonoured,
             BLOCKING_CONTRACT_STATUSES, TypeOK
    <2> QED
      BY <2>2, <2>3, <2>4, <2>5, <2>6, <2>7
  <1> QED
    BY <1>1, <1>2, <1>3, <1>4

\* Card payments.
LEMMA PaymentSteps ==
  ASSUME IInv, TypeOK', NEW t \in Tx
  PROVE  /\ startCardPaymentWrite(t) => Core'
         /\ endCheckoutWrite(t) => Core'
         /\ confirmWrite(t) => Core'
  <1>1. ASSUME startCardPaymentWrite(t) PROVE Core'
    <2> USE <1>1 DEF IInv, Core
    <2>1. tx[t].op = "startPayment" /\ tx[t].on \in Contracts /\ NoContractTxBegins
      BY RunningType, EndBeginsNothing DEF startCardPaymentWrite, Running, ContractOps
    <2>2. TransactionsExclude'
      BY <2>1, ExclusionKept
    <2>3. HandlersHold'
      BY <2>1
         DEF startCardPaymentWrite, HandlersHold, ReadHolds, NoContractTxBegins, Running,
             ContractOps, HirerOps
    <2>4. OneReservationPerVehicle'
      BY <2>1 DEF startCardPaymentWrite, OneReservationPerVehicle, Blocking
    <2>5. CustodyMatchesLifecycle'
      BY <2>1 DEF startCardPaymentWrite, CustodyMatchesLifecycle, InCustody
    <2>6. PaymentsFollowContract'
      BY <2>1
         DEF startCardPaymentWrite, NoContractTxBegins, Running, ContractOps,
             PaymentsFollowContract
    <2>7. ConfirmedPaymentIsHonoured'
      BY <2>1 DEF startCardPaymentWrite, ConfirmedPaymentIsHonoured
    <2> QED
      BY <2>2, <2>3, <2>4, <2>5, <2>6, <2>7
  <1>2. ASSUME endCheckoutWrite(t) PROVE Core'
    <2> USE <1>2 DEF IInv, Core
    <2>1. tx[t].op = "endCheckout" /\ tx[t].on \in Contracts /\ NoContractTxBegins
      BY RunningType, EndBeginsNothing DEF endCheckoutWrite, Running, ContractOps
    <2>2. TransactionsExclude'
      BY <2>1, ExclusionKept
    <2>3. HandlersHold'
      BY <2>1
         DEF endCheckoutWrite, HandlersHold, ReadHolds, NoContractTxBegins, Running,
             ContractOps, HirerOps
    <2>4. OneReservationPerVehicle'
      BY <2>1 DEF endCheckoutWrite, OneReservationPerVehicle, Blocking
    <2>5. CustodyMatchesLifecycle'
      BY <2>1 DEF endCheckoutWrite, CustodyMatchesLifecycle, InCustody
    <2>6. PaymentsFollowContract'
      BY <2>1
         DEF endCheckoutWrite, NoContractTxBegins, Running, ContractOps,
             PaymentsFollowContract
    <2>7. ConfirmedPaymentIsHonoured'
      BY <2>1 DEF endCheckoutWrite, ConfirmedPaymentIsHonoured
    <2> QED
      BY <2>2, <2>3, <2>4, <2>5, <2>6, <2>7
  <1>3. ASSUME confirmWrite(t) PROVE Core'
    <2> USE <1>3 DEF IInv, Core
    <2>1. tx[t].op = "confirm" /\ tx[t].on \in Contracts /\ NoContractTxBegins
      BY RunningType, EndBeginsNothing DEF confirmWrite, Running, ContractOps
    <2>2. TransactionsExclude'
      BY <2>1, ExclusionKept
    <2>3. HandlersHold'
      <3>1. ASSUME tx[t].saw = "SIGNED" PROVE HandlersHold'
        <4>1. \A u \in Tx : /\ tx'[u] = tx[u] /\ Running(u, ContractOps) /\ tx[u].on = tx[t].on
                       => ReadHolds(u, "PAID")
          BY <2>1, <3>1
             DEF confirmWrite, becomePaid, VehicleFreeForRental, End, Idle,
                 VehicleRentalLocked, TransactionsExclude, HandlersHold, ReadHolds, Running,
                 RentalLockOps, TypeOK
        <4> QED
          BY <2>1, <3>1, <4>1, WriteReads DEF confirmWrite, becomePaid
      <3>2. ASSUME tx[t].saw # "SIGNED" PROVE HandlersHold'
        BY <2>1, <3>2
           DEF confirmWrite, HandlersHold, ReadHolds, NoContractTxBegins, Running,
               ContractOps, HirerOps
      <3> QED
        BY <3>1, <3>2
    <2>4. OneReservationPerVehicle'
      BY <2>1
         DEF confirmWrite, becomePaid, VehicleFreeForRental, OneReservationPerVehicle,
             SameVehicle, Blocking, TypeOK
    <2>5. CustodyMatchesLifecycle'
      BY <2>1
         DEF confirmWrite, becomePaid, HandlersHold, ReadHolds, CustodyMatchesLifecycle,
             InCustody, TypeOK
    <2>6. PaymentsFollowContract'
      <3>1. /\ status[tx[t].on] \in Settleable
            /\ tx[t].saw = "SIGNED" => status[tx[t].on] = "SIGNED"
        BY <2>1 DEF PaymentsFollowContract, HandlersHold, ReadHolds, Running
      <3>2. \A c \in Contracts :
              /\ status'[c] = status[c] \/ (c = tx[t].on /\ status'[c] = "PAID")
              /\ pay'[c] = IF c = tx[t].on THEN "CONFIRMED" ELSE pay[c]
        BY <2>1 DEF confirmWrite, becomePaid, TypeOK
      <3>3. \A c \in Contracts : pay'[c] # "NONE" => status'[c] \in Settleable
        BY <2>1, <3>1, <3>2 DEF PaymentsFollowContract, Settleable, BLOCKING_CONTRACT_STATUSES
      <3>4. ASSUME NEW u \in Tx, tx'[u] = tx[u], Running(u, ContractOps)
            PROVE  /\ tx'[u].op = "startPayment" =>
                        status'[tx'[u].on] \in Settleable \union {"DELETED"}
                   /\ tx'[u].op = "confirm" =>
                        /\ pay'[tx'[u].on] # "NONE"
                        /\ tx'[u].saw # "SIGNED" => status'[tx'[u].on] \in Settleable \ {"SIGNED"}
        <4>1. tx[u].on \in Contracts
          BY <3>4, RunningType
        <4> QED
          BY <3>2, <3>4, <4>1
             DEF PaymentsFollowContract, Running, Settleable, BLOCKING_CONTRACT_STATUSES
      <3> QED
        BY <2>1, <3>3, <3>4
           DEF PaymentsFollowContract, NoContractTxBegins, Running, ContractOps
    <2>7. ConfirmedPaymentIsHonoured'
      BY <2>1
         DEF confirmWrite, becomePaid, PaymentsFollowContract, Settleable,
             ConfirmedPaymentIsHonoured, BLOCKING_CONTRACT_STATUSES, TypeOK
    <2> QED
      BY <2>2, <2>3, <2>4, <2>5, <2>6, <2>7
  <1> QED
    BY <1>1, <1>2, <1>3

\* Car-out and car-in.
LEMMA CustodySteps ==
  ASSUME IInv, TypeOK', NEW t \in Tx
  PROVE  /\ carOutWrite(t) => Core'
         /\ carInWrite(t) => Core'
         /\ completeCarInWrite(t) => Core'
  <1>1. ASSUME carOutWrite(t) PROVE Core'
    <2> USE <1>1 DEF IInv, Core
    <2>1. tx[t].op = "carOut" /\ tx[t].on \in Contracts /\ NoContractTxBegins
      BY RunningType, EndBeginsNothing DEF carOutWrite, Running, ContractOps
    <2>2. TransactionsExclude'
      BY <2>1, ExclusionKept
    <2>3. HandlersHold'
      <3>1. \A u \in Tx : /\ tx'[u] = tx[u] /\ Running(u, ContractOps) /\ tx[u].on = tx[t].on
                       => ReadHolds(u, "ACTIVE")
        BY <2>1
           DEF carOutWrite, End, Idle, TransactionsExclude, HandlersHold, ReadHolds,
               Running, RentalLockOps, TypeOK
      <3> QED
        BY <2>1, <3>1, WriteReads DEF carOutWrite
    <2>4. OneReservationPerVehicle'
      BY <2>1
         DEF carOutWrite, HandlersHold, ReadHolds, OneReservationPerVehicle, Blocking,
             BLOCKING_CONTRACT_STATUSES
    <2>5. CustodyMatchesLifecycle'
      BY <2>1 DEF carOutWrite, CustodyMatchesLifecycle, InCustody, TypeOK
    <2>6. PaymentsFollowContract'
      BY <2>1
         DEF carOutWrite, NoContractTxBegins, Running, ContractOps, PaymentsFollowContract,
             Settleable, BLOCKING_CONTRACT_STATUSES
    <2>7. ConfirmedPaymentIsHonoured'
      BY <2>1 DEF carOutWrite, ConfirmedPaymentIsHonoured, BLOCKING_CONTRACT_STATUSES
    <2> QED
      BY <2>2, <2>3, <2>4, <2>5, <2>6, <2>7
  <1>2. ASSUME carInWrite(t) PROVE Core'
    <2> USE <1>2 DEF IInv, Core
    <2>1. tx[t].op = "carIn" /\ tx[t].on \in Contracts /\ NoContractTxBegins
      BY RunningType, EndBeginsNothing DEF carInWrite, Running, ContractOps
    <2>2. TransactionsExclude'
      BY <2>1, ExclusionKept
    <2>3. HandlersHold'
      <3>1. \A u \in Tx : /\ tx'[u] = tx[u] /\ Running(u, ContractOps) /\ tx[u].on = tx[t].on
                       => ReadHolds(u, "REVIEW")
        BY <2>1
           DEF carInWrite, VehicleRentalLocked, HandlersHold, ReadHolds, Running,
               RentalLockOps
      <3> QED
        BY <2>1, <3>1, WriteReads DEF carInWrite
    <2>4. OneReservationPerVehicle'
      BY <2>1 DEF carInWrite, OneReservationPerVehicle, Blocking, BLOCKING_CONTRACT_STATUSES
    <2>5. CustodyMatchesLifecycle'
      BY <2>1
         DEF carInWrite, HandlersHold, ReadHolds, CustodyMatchesLifecycle, InCustody,
             TypeOK
    <2>6. PaymentsFollowContract'
      BY <2>1
         DEF carInWrite, NoContractTxBegins, Running, ContractOps, PaymentsFollowContract,
             Settleable
    <2>7. ConfirmedPaymentIsHonoured'
      BY <2>1 DEF carInWrite, ConfirmedPaymentIsHonoured
    <2> QED
      BY <2>2, <2>3, <2>4, <2>5, <2>6, <2>7
  <1>3. ASSUME completeCarInWrite(t) PROVE Core'
    <2> USE <1>3 DEF IInv, Core
    <2>1. tx[t].op = "completeCarIn" /\ tx[t].on \in Contracts /\ NoContractTxBegins
      BY RunningType, EndBeginsNothing DEF completeCarInWrite, Running, ContractOps
    <2>2. TransactionsExclude'
      BY <2>1, ExclusionKept
    <2>3. HandlersHold'
      <3>1. \A u \in Tx : /\ tx'[u] = tx[u] /\ Running(u, ContractOps) /\ tx[u].on = tx[t].on
                       => ReadHolds(u, "REVIEW")
        BY <2>1
           DEF completeCarInWrite, End, Idle, TransactionsExclude, HandlersHold,
               ReadHolds, Running, RentalLockOps, TypeOK
      <3> QED
        BY <2>1, <3>1, WriteReads DEF completeCarInWrite
    <2>4. OneReservationPerVehicle'
      BY <2>1
         DEF completeCarInWrite, OneReservationPerVehicle, Blocking,
             BLOCKING_CONTRACT_STATUSES
    <2>5. CustodyMatchesLifecycle'
      BY <2>1
         DEF completeCarInWrite, HandlersHold, ReadHolds, CustodyMatchesLifecycle,
             InCustody, TypeOK
    <2>6. PaymentsFollowContract'
      BY <2>1
         DEF completeCarInWrite, NoContractTxBegins, Running, ContractOps,
             PaymentsFollowContract, Settleable
    <2>7. ConfirmedPaymentIsHonoured'
      BY <2>1 DEF completeCarInWrite, ConfirmedPaymentIsHonoured
    <2> QED
      BY <2>2, <2>3, <2>4, <2>5, <2>6, <2>7
  <1> QED
    BY <1>1, <1>2, <1>3

\* Deletion.
LEMMA DeleteStep ==
  ASSUME IInv, TypeOK', NEW t \in Tx
  PROVE  /\ deleteWrite(t) => Core'
  <1>1. ASSUME deleteWrite(t) PROVE Core'
    <2> USE <1>1 DEF IInv, Core
    <2>1. /\ tx[t].op = "delete" /\ tx[t].on \in Contracts /\ NoContractTxBegins
          /\ status[tx[t].on] \in PrePayment
      BY RunningType, EndBeginsNothing
         DEF deleteWrite, Deletions, DeletionHolds, Running, ContractOps
    <2>2. TransactionsExclude'
      BY <2>1, ExclusionKept
    <2>3. HandlersHold'
      <3>1. \A u \in Tx : /\ tx'[u] = tx[u] /\ Running(u, ContractOps) /\ tx[u].on = tx[t].on
                       => ReadHolds(u, "DELETED")
        BY <2>1
           DEF deleteWrite, InFlight, VehicleRentalLocked, HandlersHold, ReadHolds, Running,
               RentalLockOps, PrePayment
      <3> QED
        BY <2>1, <3>1, WriteReads DEF deleteWrite
    <2>4. OneReservationPerVehicle'
      BY <2>1 DEF deleteWrite, OneReservationPerVehicle, Blocking, BLOCKING_CONTRACT_STATUSES
    <2>5. CustodyMatchesLifecycle'
      BY <2>1
         DEF deleteWrite, HandlersHold, ReadHolds, CustodyMatchesLifecycle, InCustody,
             PrePayment
    <2>6. PaymentsFollowContract'
      BY <2>1
         DEF deleteWrite, InFlight, NoContractTxBegins, Running, ContractOps,
             PaymentsFollowContract, TypeOK
    <2>7. ConfirmedPaymentIsHonoured'
      BY <2>1 DEF deleteWrite, ConfirmedPaymentIsHonoured
    <2> QED
      BY <2>2, <2>3, <2>4, <2>5, <2>6, <2>7
  <1> QED
    BY <1>1

\* A write to one contract keeps Deletions if it respects the deletions and the
\* ends of checkouts that are in flight on it.
LEMMA WriteDeletions ==
  ASSUME IInv, NoContractTxBegins, NEW c \in Contracts,
         \A d \in Contracts \ {c} : status'[d] = status[d] /\ pay'[d] = pay[d],
         \A u \in Tx : /\ tx'[u] = tx[u]
                       /\ tx[u].on = c
                       => /\ Running(u, {"delete"}) => DeletionHolds(c)' /\ pay'[c] # "OPEN"
                          /\ Running(u, {"endCheckout"}) => pay'[c] \in {"OPEN", "CONFIRMED"}
  PROVE  Deletions'
  <1> USE DEF IInv, Core
  <1>1. ASSUME NEW u \in Tx, tx'[u] = tx[u], Running(u, Unpaying)
        PROVE  /\ Running(u, {"delete"}) => DeletionHolds(tx[u].on)' /\ pay'[tx[u].on] # "OPEN"
               /\ Running(u, {"endCheckout"}) => pay'[tx[u].on] \in {"OPEN", "CONFIRMED"}
    <2>1. tx[u].on \in Contracts
      BY <1>1, RunningType DEF Running, Unpaying, ContractOps
    <2>2. CASE tx[u].on = c
      BY <1>1, <2>2
    <2>3. CASE tx[u].on # c
      BY <1>1, <2>1, <2>3 DEF Deletions, DeletionHolds
    <2> QED
      BY <2>2, <2>3
  <1>2. \A u \in Tx : tx'[u].op \in Unpaying => tx'[u] = tx[u]
    BY DEF NoContractTxBegins, Unpaying, ContractOps
  <1> QED
    BY <1>1, <1>2 DEF Deletions, Unpaying, Running

\* No write spoils what a deletion in flight relies on.
LEMMA SingleDeletions ==
  ASSUME IInv, TypeOK', NEW c \in Contracts,
         createOffer(c) \/ submitOfficialReview(c) \/ beginContractReturn(c)
  PROVE  Deletions'
  <1> USE DEF IInv, Core
  <1>1. NoContractTxBegins
    BY SameTxBeginsNothing DEF createOffer, submitOfficialReview, beginContractReturn
  <1> QED
    BY <1>1, WriteDeletions
       DEF createOffer, submitOfficialReview, beginContractReturn, Deletions, DeletionHolds,
           PrePayment, TypeOK

\* ... whichever transaction makes it.
LEMMA DeletionsStep ==
  ASSUME IInv, TypeOK', NEW t \in Tx
  PROVE  /\ submitFormWrite(t) \/ acceptWrite(t) \/ signElectronicWrite(t) => Deletions'
         /\ signCashWrite(t) \/ startCardPaymentWrite(t) \/ endCheckoutWrite(t) => Deletions'
         /\ confirmWrite(t) \/ deleteWrite(t) => Deletions'
         /\ carOutWrite(t) \/ carInWrite(t) \/ completeCarInWrite(t) => Deletions'
  <1> USE DEF IInv, Core
  <1>1. ASSUME submitFormWrite(t) \/ acceptWrite(t) \/ signElectronicWrite(t)
        PROVE  Deletions'
    <2>1. tx[t].on \in Contracts /\ NoContractTxBegins
      BY <1>1, RunningType, EndBeginsNothing
         DEF submitFormWrite, acceptWrite, signElectronicWrite, Running, ContractOps, HirerOps
    <2> QED
      BY <1>1, <2>1, WriteDeletions
         DEF submitFormWrite, acceptWrite, signElectronicWrite, Deletions, DeletionHolds,
             PrePayment, TypeOK
  <1>2. ASSUME signCashWrite(t) PROVE Deletions'
    <2>1. tx[t].on \in Contracts /\ NoContractTxBegins
      BY <1>2, RunningType, EndBeginsNothing DEF signCashWrite, Running, ContractOps, HirerOps
    <2> QED
      BY <1>2, <2>1, WriteDeletions
         DEF signCashWrite, becomePaid, DeletionHolds, TypeOK
  <1>3. ASSUME startCardPaymentWrite(t) PROVE Deletions'
    <2>1. tx[t].on \in Contracts /\ NoContractTxBegins
      BY <1>3, RunningType, EndBeginsNothing DEF startCardPaymentWrite, Running, ContractOps
    <2> QED
      BY <1>3, <2>1, WriteDeletions
         DEF startCardPaymentWrite, DeletionLocked, InFlight, Running, TypeOK
  <1>4. ASSUME endCheckoutWrite(t) \/ deleteWrite(t) PROVE Deletions'
    <2>1. /\ tx[t].on \in Contracts /\ NoContractTxBegins
          /\ Running(t, Unpaying) /\ End(t)
      BY <1>4, RunningType, EndBeginsNothing
         DEF endCheckoutWrite, deleteWrite, Running, ContractOps, Unpaying
    <2>2. \A u \in Tx : tx'[u] = tx[u] /\ Running(u, Unpaying) => tx[u].on # tx[t].on
      BY <2>1 DEF Deletions, End, Idle, Unpaying, Running, TypeOK
    <2>3. \A d \in Contracts \ {tx[t].on} : status'[d] = status[d] /\ pay'[d] = pay[d]
      BY <1>4, <2>1 DEF endCheckoutWrite, deleteWrite, TypeOK
    <2> QED
      BY <2>1, <2>2, <2>3, WriteDeletions DEF Unpaying, Running
  <1>5. ASSUME confirmWrite(t) PROVE Deletions'
    <2>1. tx[t].on \in Contracts /\ NoContractTxBegins
      BY <1>5, RunningType, EndBeginsNothing DEF confirmWrite, Running, ContractOps
    <2> QED
      BY <1>5, <2>1, WriteDeletions
         DEF confirmWrite, becomePaid, DeletionHolds, TypeOK
  <1>6. ASSUME carOutWrite(t) \/ carInWrite(t) \/ completeCarInWrite(t) PROVE Deletions'
    <2>1. /\ tx[t].on \in Contracts /\ NoContractTxBegins
          /\ status[tx[t].on] \notin PrePayment
      BY <1>6, RunningType, EndBeginsNothing
         DEF carOutWrite, carInWrite, completeCarInWrite, Running, ContractOps, HandlersHold,
             ReadHolds, PrePayment
    <2> QED
      BY <1>6, <2>1, WriteDeletions
         DEF carOutWrite, carInWrite, completeCarInWrite, Deletions, DeletionHolds, TypeOK
  <1> QED
    BY <1>1, <1>2, <1>3, <1>4, <1>5, <1>6

\* Workshop and fleet administration touch no contract row.
LEMMA WorkshopSteps ==
  ASSUME IInv, TypeOK', WorkshopNext
  PROVE  NoContractTxBegins /\ UNCHANGED <<status, carOut, carIn, pay>>
  <1> USE DEF IInv, Core, contractVars
  <1>1. ASSUME NEW m \in Orders, schedule(m)
        PROVE  NoContractTxBegins /\ UNCHANGED <<status, carOut, carIn, pay>>
    BY <1>1, SameTxBeginsNothing DEF schedule
  <1>2. ASSUME NEW t \in Tx, NEW m \in Orders,
               \/ createNowRead(t, m) \/ startRead(t, m) \/ markReadyRead(t, m)
               \/ completeRead(t, m) \/ cancelRead(t, m)
        PROVE  NoContractTxBegins /\ UNCHANGED <<status, carOut, carIn, pay>>
    BY <1>2
       DEF createNowRead, startRead, markReadyRead, completeRead, cancelRead, Begin, TypeOK,
           NoContractTxBegins, ContractOps, HirerOps
  <1>3. ASSUME NEW t \in Tx, startLock(t)
        PROVE  NoContractTxBegins /\ UNCHANGED <<status, carOut, carIn, pay>>
    BY <1>3 DEF startLock, NoContractTxBegins, ContractOps, HirerOps
  <1>4. ASSUME NEW t \in Tx,
               \/ createNowWrite(t) \/ startWrite(t) \/ markReadyWrite(t)
               \/ completeWrite(t) \/ cancelWrite(t)
        PROVE  NoContractTxBegins /\ UNCHANGED <<status, carOut, carIn, pay>>
    BY <1>4, EndBeginsNothing
       DEF createNowWrite, startWrite, enterService, markReadyWrite, completeWrite, cancelWrite
  <1> QED
    BY <1>1, <1>2, <1>3, <1>4 DEF WorkshopNext

\* Vehicle administration writes no status that a contract relies on.
LEMMA FleetAdminSteps ==
  ASSUME IInv, TypeOK', FleetAdminNext
  PROVE  NoContractTxBegins /\ UNCHANGED <<status, carOut, carIn, pay>>
  <1> USE DEF IInv, Core, contractVars
  <1>1. ASSUME NEW v \in Vehicles, activate(v)
        PROVE  NoContractTxBegins /\ UNCHANGED <<status, carOut, carIn, pay>>
    BY <1>1, SameTxBeginsNothing DEF activate
  <1>2. ASSUME NEW t \in Tx, NEW v \in Vehicles,
               \/ deactivateRead(t, v)
               \/ \E requested \in OperationalStatus : updateRead(t, v, requested)
        PROVE  NoContractTxBegins /\ UNCHANGED <<status, carOut, carIn, pay>>
    BY <1>2
       DEF deactivateRead, updateRead, Begin, TypeOK, NoContractTxBegins, ContractOps,
           HirerOps
  <1>3. ASSUME NEW t \in Tx, updateWrite(t) \/ deactivateWrite(t)
        PROVE  NoContractTxBegins /\ UNCHANGED <<status, carOut, carIn, pay>>
    BY <1>3, EndBeginsNothing DEF updateWrite, deactivateWrite
  <1> QED
    BY <1>1, <1>2, <1>3 DEF FleetAdminNext

\* Every step of the fleet keeps the invariant.
LEMMA Next_IInv ==
  ASSUME SharedLinks = {}, IInv, [Next]_vars
  PROVE  IInv'
  <1>1. TypeOK'
    BY TypeStep DEF IInv, Core
  <1>2. CASE ContractNext
    <2>1. ASSUME NEW c \in Contracts,
                 \/ createOffer(c) \/ generateRentalLink(c) \/ generateReturnLink(c)
                 \/ linksExpire(c) \/ submitOfficialReview(c)
                 \/ confirmReturnPublic(c) \/ confirmReturnStaff(c)
          PROVE  IInv'
      BY <1>1, <2>1, SingleSteps, SingleDeletions
         DEF confirmReturnPublic, confirmReturnStaff, IInv
    <2>2. ASSUME NEW t \in Tx,
                 \/ submitFormWrite(t) \/ acceptWrite(t)
                 \/ signElectronicWrite(t) \/ signCashWrite(t)
                 \/ startCardPaymentWrite(t) \/ endCheckoutWrite(t) \/ confirmWrite(t)
                 \/ carOutWrite(t) \/ carInWrite(t) \/ completeCarInWrite(t)
                 \/ deleteWrite(t)
          PROVE  IInv'
      BY <1>1, <2>2, PaperworkSteps, PaymentSteps, CustodySteps, DeleteStep, DeletionsStep
         DEF IInv
    <2> QED
      BY <1>1, <1>2, <2>1, <2>2, ReadSteps DEF ContractNext
  <1>3. CASE WorkshopNext
    BY <1>1, <1>3, WorkshopSteps, QuietStep
  <1>4. CASE FleetAdminNext
    BY <1>1, <1>4, FleetAdminSteps, QuietStep
  <1>5. ASSUME NEW t \in Tx, Abort(t) PROVE IInv'
    BY <1>1, <1>5, EndBeginsNothing, QuietStep DEF Abort, contractVars, IInv, Core
  <1>6. CASE UNCHANGED vars
    BY <1>1, <1>6, SameTxBeginsNothing, QuietStep DEF vars
  <1> QED
    BY <1>2, <1>3, <1>4, <1>5, <1>6 DEF Next

-----------------------------------------------------------------------------
(* State properties.                                                       *)

\* The invariant holds in every reachable state: among its conjuncts, the
\* locks and one-page hirers exclude each other and what a rental handler has
\* read still holds when it writes.
THEOREM FleetIsSafe == ASSUME SharedLinks = {} PROVE Spec => []IInv
  BY Init_IInv, Next_IInv, PTL DEF Spec

\* What a transaction of the rental flow has read still permits what it writes.
THEOREM ReadsHold ==
  ASSUME SharedLinks = {} PROVE Spec => []ReadsStillHold
  <1>1. IInv => ReadsStillHold
    BY DEF IInv, Core, HandlersHold, Deletions, ReadsStillHold
  <1> QED
    BY <1>1, FleetIsSafe, PTL

\* A payment exists only on a signed contract, and a confirmation being applied
\* never meets one that went back.
THEOREM PaymentsFollow ==
  ASSUME SharedLinks = {} PROVE Spec => []PaymentsFollowContract
  <1>1. IInv => PaymentsFollowContract
    BY DEF IInv, Core
  <1> QED
    BY <1>1, FleetIsSafe, PTL

\* PAID, ACTIVE and RETOUT reserve a vehicle for one contract.
THEOREM ReservationIsUnique ==
  ASSUME SharedLinks = {} PROVE Spec => []OneReservationPerVehicle
  <1>1. IInv => OneReservationPerVehicle
    BY DEF IInv, Core
  <1> QED
    BY <1>1, FleetIsSafe, PTL

\* A vehicle is out exactly under ACTIVE and RETOUT.
THEOREM CustodyAgrees ==
  ASSUME SharedLinks = {} PROVE Spec => []CustodyMatchesLifecycle
  <1>1. IInv => CustodyMatchesLifecycle
    BY DEF IInv, Core
  <1> QED
    BY <1>1, FleetIsSafe, PTL

\* One hirer at a time has the vehicle: whoever has it, has it reserved.
THEOREM HolderIsUnique ==
  ASSUME SharedLinks = {} PROVE Spec => []OneHolderPerVehicle
  <1>1. IInv => OneHolderPerVehicle
    BY DEF IInv, Core, OneHolderPerVehicle, OneReservationPerVehicle, CustodyMatchesLifecycle,
           Blocking, BLOCKING_CONTRACT_STATUSES
  <1> QED
    BY <1>1, FleetIsSafe, PTL

\* A confirmed payment has the vehicle reserved or has been served ...
THEOREM PaymentIsHonoured ==
  ASSUME SharedLinks = {} PROVE Spec => []ConfirmedPaymentIsHonoured
  <1>1. IInv => ConfirmedPaymentIsHonoured
    BY DEF IInv, Core
  <1> QED
    BY <1>1, FleetIsSafe, PTL

\* ... so two customers never have a confirmed payment for one vehicle at the
\* same time: a payment not yet served reserves, and reservations are unique.
THEOREM PaidCustomerIsUnique ==
  ASSUME SharedLinks = {} PROVE Spec => []OnePaidCustomerPerVehicle
  <1>1. IInv => OnePaidCustomerPerVehicle
    BY DEF IInv, Core, OnePaidCustomerPerVehicle, OneReservationPerVehicle,
           CustodyMatchesLifecycle, ConfirmedPaymentIsHonoured, Blocking
  <1> QED
    BY <1>1, FleetIsSafe, PTL

-----------------------------------------------------------------------------
(* What a step may do to a contract and to the custody of its vehicle.     *)

NotReservedMove(c) ==
  /\ ~ Blocking(c)
  /\ \E s \in Status \ BLOCKING_CONTRACT_STATUSES :
       /\ LegalMove(c, status[c], s)
       /\ status' = [status EXCEPT ![c] = s]
  /\ UNCHANGED <<carOut, carIn>>

ReserveMove(c) ==
  /\ \/ status[c] = "SIGNED"
     \/ status[c] = "FORM" /\ c \in CashContracts
  /\ \A d \in Contracts : VehicleOf[d] = VehicleOf[c] => ~ Blocking(d)
  /\ status' = [status EXCEPT ![c] = "PAID"]
  /\ UNCHANGED <<carOut, carIn>>

HandOverMove(c) ==
  /\ status[c] = "PAID"
  /\ status' = [status EXCEPT ![c] = "ACTIVE"]
  /\ carOut' = carOut \union {c}
  /\ UNCHANGED carIn

ReturnMove(c) ==
  /\ status[c] = "ACTIVE"
  /\ status' = [status EXCEPT ![c] = "RETOUT"]
  /\ UNCHANGED <<carOut, carIn>>

TakeBackMove(c) ==
  /\ status[c] = "RETOUT"
  /\ status' = [status EXCEPT ![c] = "REVIEW"]
  /\ carIn' = carIn \union {c}
  /\ UNCHANGED carOut

Move(c) ==
  \/ NotReservedMove(c) \/ ReserveMove(c) \/ HandOverMove(c)
  \/ ReturnMove(c) \/ TakeBackMove(c)

\* Under the invariant every write is one of these moves, though the code of
\* most writes does not look at the status it replaces.
LEMMA WritesAreMoves ==
  ASSUME IInv, NEW t \in Tx
  PROVE  /\ submitFormWrite(t) \/ acceptWrite(t) \/ signElectronicWrite(t) \/ deleteWrite(t)
              => NotReservedMove(tx[t].on)
         /\ signCashWrite(t) => ReserveMove(tx[t].on)
         /\ confirmWrite(t) => ReserveMove(tx[t].on) \/ UNCHANGED <<status, carOut, carIn>>
         /\ carOutWrite(t) => HandOverMove(tx[t].on)
         /\ carInWrite(t) \/ completeCarInWrite(t) => TakeBackMove(tx[t].on)
  <1> USE DEF IInv, Core, HandlersHold, ReadHolds, Running
  <1>1. ASSUME submitFormWrite(t) PROVE NotReservedMove(tx[t].on)
    BY <1>1
       DEF submitFormWrite, NotReservedMove, Blocking, BLOCKING_CONTRACT_STATUSES, Status,
           PrePayment, LegalMove, ALLOWED_TRANSITIONS
  <1>2. ASSUME acceptWrite(t) \/ signElectronicWrite(t) PROVE NotReservedMove(tx[t].on)
    BY <1>2
       DEF acceptWrite, signElectronicWrite, NotReservedMove, Blocking,
           BLOCKING_CONTRACT_STATUSES, Status, PrePayment, LegalMove, ALLOWED_TRANSITIONS
  <1>3. ASSUME deleteWrite(t) PROVE NotReservedMove(tx[t].on)
    BY <1>3
       DEF deleteWrite, Deletions, DeletionHolds, NotReservedMove, Blocking,
           BLOCKING_CONTRACT_STATUSES, Status, PrePayment, LegalMove
  <1>4. ASSUME signCashWrite(t) PROVE ReserveMove(tx[t].on)
    BY <1>4
       DEF signCashWrite, becomePaid, VehicleFreeForRental, ReserveMove, Blocking,
           BLOCKING_CONTRACT_STATUSES
  <1>5. ASSUME confirmWrite(t) PROVE ReserveMove(tx[t].on) \/ UNCHANGED <<status, carOut, carIn>>
    <2>1. CASE tx[t].saw = "SIGNED"
      BY <1>5, <2>1
         DEF confirmWrite, becomePaid, VehicleFreeForRental, ReserveMove, Blocking,
             BLOCKING_CONTRACT_STATUSES
    <2>2. CASE tx[t].saw # "SIGNED"
      BY <1>5, <2>2 DEF confirmWrite
    <2> QED
      BY <2>1, <2>2
  <1>6. ASSUME carOutWrite(t) PROVE HandOverMove(tx[t].on)
    BY <1>6 DEF carOutWrite, HandOverMove
  <1>7. ASSUME carInWrite(t) \/ completeCarInWrite(t) PROVE TakeBackMove(tx[t].on)
    <2>1. tx[t].on \in Contracts
      BY <1>7, RunningType DEF carInWrite, completeCarInWrite, ContractOps, HirerOps
    <2> QED
      BY <1>7, <2>1 DEF carInWrite, completeCarInWrite, TakeBackMove, CustodyMatchesLifecycle
  <1> QED
    BY <1>1, <1>2, <1>3, <1>4, <1>5, <1>6, <1>7

\* Every step makes a legal move of each contract, or leaves it.
LEMMA StepsAreMoves ==
  ASSUME IInv, [Next]_vars
  PROVE  (\E c \in Contracts : Move(c)) \/ UNCHANGED <<status, carOut, carIn>>
  <1> USE DEF IInv, Core
  <1>0. TypeOK'
    BY TypeStep
  <1>1. ASSUME NEW c \in Contracts,
               \/ createOffer(c) \/ generateRentalLink(c) \/ generateReturnLink(c)
               \/ linksExpire(c) \/ submitOfficialReview(c)
               \/ confirmReturnPublic(c) \/ confirmReturnStaff(c)
        PROVE  Move(c) \/ UNCHANGED <<status, carOut, carIn>>
    <2>1. CASE createOffer(c) \/ submitOfficialReview(c)
      BY <2>1
         DEF createOffer, submitOfficialReview, Move, NotReservedMove, Blocking,
             BLOCKING_CONTRACT_STATUSES, Status, PrePayment, LegalMove, ALLOWED_TRANSITIONS
    <2>2. CASE confirmReturnPublic(c) \/ confirmReturnStaff(c)
      BY <2>2
         DEF confirmReturnPublic, confirmReturnStaff, beginContractReturn, Move, ReturnMove
    <2> QED
      BY <1>1, <2>1, <2>2 DEF generateRentalLink, generateReturnLink, linksExpire
  <1>2. ASSUME NEW t \in Tx, NEW c \in Contracts,
               \/ submitFormRead(t, c) \/ acceptRead(t, c) \/ signRead(t, c)
               \/ startCardPaymentRead(t, c) \/ endCheckoutRead(t, c) \/ confirmRead(t, c)
               \/ carOutRead(t, c) \/ carInRead(t, c) \/ completeCarInRead(t, c)
               \/ deleteRead(t, c)
        PROVE  UNCHANGED <<status, carOut, carIn>>
    BY <1>2
       DEF contractVars, submitFormRead, acceptRead, signRead, startCardPaymentRead,
           endCheckoutRead, confirmRead, carOutRead, carInRead, completeCarInRead, deleteRead
  <1>3. ASSUME NEW t \in Tx,
               \/ submitFormWrite(t) \/ acceptWrite(t)
               \/ signElectronicWrite(t) \/ signCashWrite(t) \/ confirmWrite(t)
               \/ carOutWrite(t) \/ carInWrite(t) \/ completeCarInWrite(t)
               \/ deleteWrite(t)
        PROVE  (tx[t].on \in Contracts /\ Move(tx[t].on)) \/ UNCHANGED <<status, carOut, carIn>>
    <2>1. tx[t].on \in Contracts
      BY <1>3, RunningType
         DEF submitFormWrite, acceptWrite, signElectronicWrite, signCashWrite, confirmWrite,
             carOutWrite, carInWrite, completeCarInWrite, deleteWrite, Running, ContractOps,
             HirerOps
    <2> QED
      BY <1>3, <2>1, WritesAreMoves DEF Move
  <1>4. ASSUME NEW t \in Tx, startCardPaymentWrite(t) \/ endCheckoutWrite(t) \/ Abort(t)
        PROVE  UNCHANGED <<status, carOut, carIn>>
    BY <1>4 DEF startCardPaymentWrite, endCheckoutWrite, Abort, contractVars
  <1>5. CASE ContractNext
    BY <1>1, <1>2, <1>3, <1>4, <1>5 DEF ContractNext
  <1>6. CASE WorkshopNext \/ FleetAdminNext
    BY <1>0, <1>6, WorkshopSteps, FleetAdminSteps
  <1>7. CASE UNCHANGED vars
    BY <1>7 DEF vars
  <1> QED
    BY <1>4, <1>5, <1>6, <1>7 DEF Next

\* The moves are the ones the lifecycle allows.
LEMMA MovesAreLegal ==
  ASSUME TypeOK, NEW c \in Contracts, Move(c), NEW d \in Contracts
  PROVE  LegalMove(d, status[d], status'[d])
  BY DEF TypeOK, Move, NotReservedMove, ReserveMove, HandOverMove, ReturnMove, TakeBackMove,
         LegalMove, ALLOWED_TRANSITIONS

\* No step ever takes a contract back or lets it skip a stage: the paperwork
\* handlers, which write their status blindly, never undo a payment.
THEOREM LifecycleIsForward ==
  ASSUME SharedLinks = {} PROVE Spec => LifecycleMovesForward
  <1>1. ASSUME IInv, [Next]_vars
        PROVE  \A c \in Contracts : LegalMove(c, status[c], status'[c])
    <2>1. TypeOK
      BY <1>1 DEF IInv, Core
    <2>2. CASE \E c \in Contracts : Move(c)
      BY <2>1, <2>2, MovesAreLegal
    <2>3. CASE UNCHANGED status
      BY <2>3 DEF LegalMove
    <2> QED
      BY <1>1, <2>2, <2>3, StepsAreMoves
  <1> QED
    BY <1>1, FleetIsSafe, PTL DEF Spec, LifecycleMovesForward

-----------------------------------------------------------------------------
(* The fleet implements VehicleReservation.                                *)

\* A vehicle with a contract that reserves it has no other such contract, and
\* is out for no other contract.
LEMMA ReservedAlone ==
  ASSUME IInv, NEW c \in Contracts, Blocking(c)
  PROVE  /\ reserved[VehicleOf[c]] = {c}
         /\ held[VehicleOf[c]] = IF InCustody(c) THEN {c} ELSE {}
  <1>1. \A d \in Contracts : VehicleOf[d] = VehicleOf[c] /\ Blocking(d) => d = c
    BY DEF IInv, Core, OneReservationPerVehicle, SameVehicle
  <1>2. \A d \in Contracts : InCustody(d) => Blocking(d)
    BY DEF IInv, Core, CustodyMatchesLifecycle, Blocking, BLOCKING_CONTRACT_STATUSES
  <1> QED
    BY <1>1, <1>2, FleetConstants DEF FleetConstants, reserved, held

\* A move is a step of the reservation, or a stutter.
LEMMA MovesImplement ==
  ASSUME IInv, NEW c \in Contracts, Move(c)
  PROVE  [Reservation!Next]_<<reserved, held>>
  <1> DEFINE v == VehicleOf[c]
  <1> USE DEF IInv, Core
  <1>0. v \in Vehicles
    BY FleetConstants DEF FleetConstants
  <1>1. CASE NotReservedMove(c) \/ ReturnMove(c)
    <2>1. \A d \in Contracts : Blocking(d)' <=> Blocking(d)
      BY <1>1 DEF NotReservedMove, ReturnMove, Blocking, BLOCKING_CONTRACT_STATUSES, TypeOK
    <2>2. \A d \in Contracts : InCustody(d)' <=> InCustody(d)
      BY <1>1 DEF NotReservedMove, ReturnMove, InCustody
    <2> QED
      BY <2>1, <2>2 DEF reserved, held
  <1>2. CASE ReserveMove(c)
    <2>1. \A d \in Contracts : Blocking(d)' <=> Blocking(d) \/ d = c
      BY <1>2 DEF ReserveMove, Blocking, BLOCKING_CONTRACT_STATUSES, TypeOK
    <2>2. \A d \in Contracts : VehicleOf[d] = v => ~ Blocking(d)
      BY <1>2 DEF ReserveMove
    <2>3. reserved[v] = {}
      BY <1>0, <2>2 DEF reserved
    <2>4. reserved' = [reserved EXCEPT ![v] = {c}]
      BY <1>0, <2>1, <2>2 DEF reserved
    <2>5. held' = held
      BY <1>2 DEF ReserveMove, held, InCustody
    <2> QED
      BY <1>0, <2>3, <2>4, <2>5 DEF Reservation!Next, Reservation!Reserve
  <1>3. CASE HandOverMove(c)
    <2>1. \A d \in Contracts : Blocking(d)' <=> Blocking(d)
      BY <1>3 DEF HandOverMove, Blocking, BLOCKING_CONTRACT_STATUSES
    <2>2. Blocking(c) /\ ~ InCustody(c) /\ c \notin carIn
      BY <1>3 DEF HandOverMove, Blocking, BLOCKING_CONTRACT_STATUSES, CustodyMatchesLifecycle
    <2>3. reserved' = reserved /\ reserved[v] = {c} /\ held[v] = {}
      BY <2>1, <2>2, ReservedAlone DEF reserved
    <2>4. \A d \in Contracts : InCustody(d)' <=> InCustody(d) \/ d = c
      BY <1>3, <2>2 DEF HandOverMove, InCustody
    <2>5. \A d \in Contracts : VehicleOf[d] = v => ~ InCustody(d)
      BY <1>0, <2>3 DEF held
    <2>6. held' = [held EXCEPT ![v] = {c}]
      BY <1>0, <2>4, <2>5 DEF held
    <2> QED
      BY <1>0, <2>3, <2>6 DEF Reservation!Next, Reservation!HandOver
  <1>4. CASE TakeBackMove(c)
    <2>1. Blocking(c) /\ InCustody(c)
      BY <1>4 DEF TakeBackMove, Blocking, BLOCKING_CONTRACT_STATUSES, CustodyMatchesLifecycle
    <2>2. reserved[v] = {c} /\ held[v] = {c}
      BY <2>1, ReservedAlone
    <2>3. \A d \in Contracts : Blocking(d)' <=> Blocking(d) /\ d # c
      BY <1>4 DEF TakeBackMove, Blocking, BLOCKING_CONTRACT_STATUSES, TypeOK
    <2>4. \A d \in Contracts : InCustody(d)' <=> InCustody(d) /\ d # c
      BY <1>4 DEF TakeBackMove, InCustody
    <2>5. reserved' = [reserved EXCEPT ![v] = {}]
      <3>1. \A w \in Vehicles : reserved'[w] = reserved[w] \ {c}
        BY <2>3 DEF reserved
      <3>2. \A w \in Vehicles \ {v} : c \notin reserved[w]
        BY DEF reserved
      <3>3. reserved'[v] = {}
        BY <1>0, <2>2, <3>1
      <3>4. \A w \in Vehicles \ {v} : reserved'[w] = reserved[w]
        BY <3>1, <3>2
      <3> QED
        BY <1>0, <3>3, <3>4 DEF reserved
    <2>6. held' = [held EXCEPT ![v] = {}]
      <3>1. \A w \in Vehicles : held'[w] = held[w] \ {c}
        BY <2>4 DEF held
      <3>2. \A w \in Vehicles \ {v} : c \notin held[w]
        BY DEF held
      <3>3. held'[v] = {}
        BY <1>0, <2>2, <3>1
      <3>4. \A w \in Vehicles \ {v} : held'[w] = held[w]
        BY <3>1, <3>2
      <3> QED
        BY <1>0, <3>3, <3>4 DEF held
    <2> QED
      BY <1>0, <2>2, <2>5, <2>6 DEF Reservation!Next, Reservation!TakeBack
  <1> QED
    BY <1>1, <1>2, <1>3, <1>4 DEF Move

\* Seen by a vehicle, all the paperwork, payments, workshop and fleet
\* administration amount to reserving it when it is free, handing it to that
\* hirer and taking it back.
THEOREM FleetImplementsReservation ==
  ASSUME SharedLinks = {} PROVE Spec => ImplementsReservation
  <1>1. Init => Reservation!Init
    BY DEF Init, Reservation!Init, reserved, held, Blocking, InCustody,
           BLOCKING_CONTRACT_STATUSES
  <1>2. ASSUME IInv, [Next]_vars PROVE [Reservation!Next]_(Reservation!vars)
    <2>1. CASE \E c \in Contracts : Move(c)
      BY <1>2, <2>1, MovesImplement DEF Reservation!vars
    <2>2. CASE UNCHANGED <<status, carOut, carIn>>
      BY <2>2 DEF Reservation!vars, reserved, held, Blocking, InCustody
    <2> QED
      BY <1>2, <2>1, <2>2, StepsAreMoves
  <1> QED
    BY <1>1, <1>2, FleetIsSafe, PTL DEF Spec, ImplementsReservation, Reservation!Spec

-----------------------------------------------------------------------------
\* One active order per vehicle, for every fleet and without any assumption about
\* hirers or links: the vehicle_maintenance lock is enough, though start never
\* re-reads its order and cancel takes no lock, as long as no order is marked ready
\* while another request on it is in flight.
LockedOps == {"createNow", "start"}

\* An order being marked ready is still in service, and nothing else is under
\* way on it.
MarkingIsAlone ==
  \A t \in Tx : Running(t, {"markReady"}) =>
    /\ order[tx[t].on] = "IN_SERVICE"
    /\ \A u \in Tx \ {t} : Running(u, OrderOps) => tx[u].on # tx[t].on

\* Whoever is about to put an order in service holds the vehicle's lock, and
\* the vehicle has no other active order.
WorkshopInv ==
  /\ TypeOK
  /\ OneActiveOrderPerVehicle
  /\ \A t, u \in Tx : t # u /\ Running(t, LockedOps) /\ Running(u, LockedOps) =>
       OrderVehicle[tx[t].on] # OrderVehicle[tx[u].on]
  /\ \A t \in Tx : Running(t, LockedOps) =>
       ~ ActiveMaintenance(OrderVehicle[tx[t].on], {tx[t].on})

\* No step but createNowRead and startLock takes the lock.
NoLockTaken == \A t \in Tx : tx'[t] = tx[t] \/ tx'[t].op \notin LockedOps

\* No step outside the workshop begins a workshop transaction.
NoOrderTxBegins == \A t \in Tx : tx'[t] = tx[t] \/ tx'[t].op \notin OrderOps

-----------------------------------------------------------------------------
\* No order is active at first.
LEMMA WorkshopInit == Init => WorkshopInv
  <1> SUFFICES ASSUME Init PROVE WorkshopInv
    OBVIOUS
  <1>1. TypeOK
    BY TypeInit
  <1>2. OneActiveOrderPerVehicle
    BY DEF Init, OneActiveOrderPerVehicle, ACTIVE_MAINTENANCE_STATUSES
  <1> QED
    BY <1>1, <1>2 DEF WorkshopInv, Init, Running, Idle, LockedOps

\* Steps that make no order active.
LEMMA NothingActivated ==
  ASSUME WorkshopInv, TypeOK', NoLockTaken,
         \A m \in Orders : order'[m] \in ACTIVE_MAINTENANCE_STATUSES
                             => order[m] \in ACTIVE_MAINTENANCE_STATUSES
  PROVE  WorkshopInv'
  <1> USE DEF WorkshopInv
  <1>1. OneActiveOrderPerVehicle'
    BY DEF OneActiveOrderPerVehicle
  <1>2. (\A t, u \in Tx : t # u /\ Running(t, LockedOps) /\ Running(u, LockedOps) =>
           OrderVehicle[tx[t].on] # OrderVehicle[tx[u].on])'
    BY DEF NoLockTaken, Running
  <1>3. (\A t \in Tx : Running(t, LockedOps) =>
           ~ ActiveMaintenance(OrderVehicle[tx[t].on], {tx[t].on}))'
    BY DEF NoLockTaken, Running, ActiveMaintenance
  <1> QED
    BY <1>1, <1>2, <1>3

\* An order that is scheduled is not in service.
LEMMA ScheduleKeeps ==
  ASSUME WorkshopInv, TypeOK', NEW m \in Orders, schedule(m)
  PROVE  WorkshopInv'
  <1> USE DEF WorkshopInv, schedule
  <1>1. \A n \in Orders \ {m} : order'[n] = order[n]
    BY DEF TypeOK
  <1>2. OneActiveOrderPerVehicle'
    BY <1>1 DEF OneActiveOrderPerVehicle, ActiveMaintenance
  <1>3. ASSUME NEW t \in Tx, Running(t, LockedOps)
        PROVE  OrderVehicle[tx[t].on] # OrderVehicle[m]
    BY <1>3 DEF VehicleMaintenanceLocked, Running, LockedOps
  <1>4. (\A t \in Tx : Running(t, LockedOps) =>
           ~ ActiveMaintenance(OrderVehicle[tx[t].on], {tx[t].on}))'
    BY <1>1, <1>3 DEF ActiveMaintenance, Running
  <1> QED
    BY <1>2, <1>4 DEF Running

\* Taking the lock: createNowRead for a new order, startLock for a scheduled one.
LEMMA LockKeeps ==
  ASSUME WorkshopInv, TypeOK', UNCHANGED order,
         NEW t \in Tx, NEW m \in Orders, NEW op \in LockedOps,
         tx' = [tx EXCEPT ![t] = [op |-> op, on |-> m]],
         ~ VehicleMaintenanceLocked(OrderVehicle[m]),
         ~ ActiveMaintenance(OrderVehicle[m], {m})
  PROVE  WorkshopInv'
  <1> USE DEF WorkshopInv
  <1>1. /\ tx'[t].on = m
        /\ \A u \in Tx \ {t} : tx'[u] = tx[u]
    BY DEF TypeOK
  <1>2. OneActiveOrderPerVehicle'
    BY DEF OneActiveOrderPerVehicle
  <1>3. (\A u, w \in Tx : u # w /\ Running(u, LockedOps) /\ Running(w, LockedOps) =>
           OrderVehicle[tx[u].on] # OrderVehicle[tx[w].on])'
    BY <1>1 DEF VehicleMaintenanceLocked, Running, LockedOps
  <1>4. (\A u \in Tx : Running(u, LockedOps) =>
           ~ ActiveMaintenance(OrderVehicle[tx[u].on], {tx[u].on}))'
    BY <1>1 DEF ActiveMaintenance, Running
  <1> QED
    BY <1>2, <1>3, <1>4

\* An order enters service with the lock held and no other active order.
LEMMA EnterKeeps ==
  ASSUME WorkshopInv, TypeOK', NEW t \in Tx, NEW op \in LockedOps, enterService(t, op)
  PROVE  WorkshopInv'
  <1> DEFINE m == tx[t].on
  <1> USE DEF WorkshopInv, enterService
  <1>1. Running(t, LockedOps) /\ m \in Orders
    BY RunningType DEF Running, LockedOps, OrderOps
  <1>2. /\ \A n \in Orders \ {m} : order'[n] = order[n]
        /\ \A u \in Tx : u # t => tx'[u] = tx[u]
        /\ tx'[t].op \notin LockedOps
    BY DEF TypeOK, End, Idle, LockedOps
  <1>3. OneActiveOrderPerVehicle'
    BY <1>1, <1>2 DEF OneActiveOrderPerVehicle, ActiveMaintenance
  <1>4. ASSUME NEW u \in Tx \ {t}, Running(u, LockedOps)
        PROVE  ~ ActiveMaintenance(OrderVehicle[tx[u].on], {tx[u].on})'
    <2>1. OrderVehicle[tx[u].on] # OrderVehicle[m]
      BY <1>1, <1>4
    <2> QED
      BY <1>2, <1>4, <2>1 DEF ActiveMaintenance
  <1>5. (\A u, w \in Tx : u # w /\ Running(u, LockedOps) /\ Running(w, LockedOps) =>
           OrderVehicle[tx[u].on] # OrderVehicle[tx[w].on])'
    BY <1>2 DEF Running
  <1>6. (\A u \in Tx : Running(u, LockedOps) =>
           ~ ActiveMaintenance(OrderVehicle[tx[u].on], {tx[u].on}))'
    BY <1>2, <1>4 DEF Running, ActiveMaintenance
  <1> QED
    BY <1>3, <1>5, <1>6

\* The lock is only taken for an order.
LEMMA NoLockWithoutOrderTx == NoOrderTxBegins => NoLockTaken
  BY DEF NoOrderTxBegins, NoLockTaken, OrderOps, LockedOps

\* Contracts and fleet administration have no part in it.
LEMMA EndLocksNothing ==
  ASSUME TypeOK, NEW t \in Tx, End(t)
  PROVE  NoOrderTxBegins
  BY DEF TypeOK, End, Idle, NoOrderTxBegins, OrderOps

\* Contracts leave the orders alone.
LEMMA ContractFrame ==
  ASSUME TypeOK, ContractNext
  PROVE  UNCHANGED order /\ NoOrderTxBegins
  <1> USE DEF NoOrderTxBegins, OrderOps
  <1>1. ASSUME NEW c \in Contracts,
               \/ createOffer(c) \/ generateRentalLink(c) \/ generateReturnLink(c)
               \/ linksExpire(c) \/ submitOfficialReview(c)
               \/ confirmReturnPublic(c) \/ confirmReturnStaff(c)
        PROVE  UNCHANGED order /\ NoOrderTxBegins
    BY <1>1 DEF createOffer, generateRentalLink, generateReturnLink, linksExpire,
                submitOfficialReview, confirmReturnPublic, confirmReturnStaff,
                beginContractReturn, orderVars
  <1>2. ASSUME NEW t \in Tx, NEW c \in Contracts,
               \/ submitFormRead(t, c) \/ acceptRead(t, c) \/ signRead(t, c)
               \/ startCardPaymentRead(t, c) \/ endCheckoutRead(t, c) \/ confirmRead(t, c)
               \/ carOutRead(t, c) \/ carInRead(t, c) \/ completeCarInRead(t, c)
               \/ deleteRead(t, c)
        PROVE  UNCHANGED order /\ NoOrderTxBegins
    BY <1>2 DEF submitFormRead, acceptRead, signRead, startCardPaymentRead, endCheckoutRead,
                confirmRead, carOutRead, carInRead, completeCarInRead, deleteRead, Begin, TypeOK,
                orderVars
  <1>3. ASSUME NEW t \in Tx,
               \/ submitFormWrite(t) \/ acceptWrite(t)
               \/ signElectronicWrite(t) \/ signCashWrite(t)
               \/ startCardPaymentWrite(t) \/ endCheckoutWrite(t) \/ confirmWrite(t)
               \/ carOutWrite(t) \/ carInWrite(t) \/ completeCarInWrite(t)
               \/ deleteWrite(t)
        PROVE  UNCHANGED order /\ NoOrderTxBegins
    <2>1. End(t) /\ UNCHANGED order
      BY <1>3 DEF submitFormWrite, acceptWrite, signElectronicWrite, signCashWrite,
                  startCardPaymentWrite, endCheckoutWrite, confirmWrite, carOutWrite, carInWrite,
                  completeCarInWrite, deleteWrite, orderVars
    <2> QED
      BY <2>1, EndLocksNothing
  <1> QED
    BY <1>1, <1>2, <1>3 DEF ContractNext

\* Vehicle administration leaves the orders alone.
LEMMA FleetAdminFrame ==
  ASSUME TypeOK, FleetAdminNext
  PROVE  UNCHANGED order /\ NoOrderTxBegins
  <1>1. ASSUME NEW v \in Vehicles, activate(v) PROVE UNCHANGED order /\ NoOrderTxBegins
    BY <1>1 DEF activate, orderVars, NoOrderTxBegins
  <1>2. ASSUME NEW t \in Tx, NEW v \in Vehicles,
               \/ deactivateRead(t, v)
               \/ \E requested \in OperationalStatus : updateRead(t, v, requested)
        PROVE  UNCHANGED order /\ NoOrderTxBegins
    BY <1>2 DEF deactivateRead, updateRead, Begin, orderVars, TypeOK, NoOrderTxBegins, OrderOps
  <1>3. ASSUME NEW t \in Tx, updateWrite(t) \/ deactivateWrite(t)
        PROVE  UNCHANGED order /\ NoOrderTxBegins
    BY <1>3, EndLocksNothing DEF updateWrite, deactivateWrite, orderVars
  <1> QED
    BY <1>1, <1>2, <1>3 DEF FleetAdminNext

-----------------------------------------------------------------------------
\* No order is marked ready at first.
LEMMA MarkingInit == Init => MarkingIsAlone
  BY DEF Init, MarkingIsAlone, Running, Idle

\* A workshop transaction that begins on an order nobody is marking.
LEMMA MarkingBegin ==
  ASSUME TypeOK, MarkingIsAlone, UNCHANGED order,
         NEW t \in Tx, NEW m \in Orders, NEW op \in OrderOps \ {"markReady"},
         tx' = [tx EXCEPT ![t] = [op |-> op, on |-> m]],
         \A u \in Tx \ {t} : Running(u, {"markReady"}) => tx[u].on # m
  PROVE  MarkingIsAlone'
  <1>1. /\ tx'[t].op = op /\ tx'[t].on = m
        /\ \A u \in Tx \ {t} : tx'[u] = tx[u]
    BY DEF TypeOK
  <1> QED
    BY <1>1 DEF MarkingIsAlone, Running

\* The end of a workshop transaction writes its own order only.
LEMMA MarkingEnd ==
  ASSUME TypeOK, MarkingIsAlone, NEW t \in Tx, Running(t, OrderOps), End(t),
         \A n \in Orders \ {tx[t].on} : order'[n] = order[n]
  PROVE  MarkingIsAlone'
  <1>1. /\ tx'[t] = Idle
        /\ \A u \in Tx \ {t} : tx'[u] = tx[u]
    BY DEF End, TypeOK
  <1> SUFFICES ASSUME NEW u \in Tx, Running(u, {"markReady"})'
               PROVE  /\ order'[tx'[u].on] = "IN_SERVICE"
                      /\ \A w \in Tx \ {u} : Running(w, OrderOps)' => tx'[w].on # tx'[u].on
    BY DEF MarkingIsAlone
  <1>2. u # t /\ tx'[u] = tx[u] /\ Running(u, {"markReady"})
    BY <1>1 DEF Running, Idle
  <1>3. tx[u].on \in Orders
    BY <1>2, RunningType DEF Running, OrderOps
  <1>4. tx[u].on # tx[t].on /\ order[tx[u].on] = "IN_SERVICE"
    BY <1>2 DEF MarkingIsAlone
  <1> QED
    BY <1>1, <1>2, <1>3, <1>4 DEF MarkingIsAlone, Running, Idle, OrderOps

\* Marking stays alone.
LEMMA MarkingStep ==
  ASSUME SharedOrders = {}, TypeOK, MarkingIsAlone, [Next]_vars
  PROVE  MarkingIsAlone'
  <1>1. ASSUME NEW m \in Orders, schedule(m) PROVE MarkingIsAlone'
    BY <1>1 DEF schedule, MarkingIsAlone, Running, TypeOK
  <1>2. ASSUME NEW t \in Tx, NEW m \in Orders, createNowRead(t, m) PROVE MarkingIsAlone'
    <2>1. \A u \in Tx : Running(u, {"markReady"}) => tx[u].on # m
      BY <1>2 DEF createNowRead, MarkingIsAlone
    <2> QED
      BY <1>2, <2>1, MarkingBegin DEF createNowRead, Begin, orderVars, OrderOps
  <1>3. ASSUME NEW t \in Tx, NEW m \in Orders,
               startRead(t, m) \/ completeRead(t, m) \/ cancelRead(t, m)
        PROVE  MarkingIsAlone'
    <2>1. \A u \in Tx : Running(u, {"markReady"}) => tx[u].on # m
      BY <1>3 DEF startRead, completeRead, cancelRead, NotBeingMarked, InFlight
    <2> QED
      BY <1>3, <2>1, MarkingBegin
         DEF startRead, completeRead, cancelRead, Begin, orderVars, OrderOps
  <1>4. ASSUME NEW t \in Tx, startLock(t) PROVE MarkingIsAlone'
    <2>1. tx[t].on \in Orders /\ Running(t, OrderOps)
      BY <1>4, RunningType DEF startLock, Running, OrderOps
    <2>2. \A u \in Tx \ {t} : Running(u, {"markReady"}) => tx[u].on # tx[t].on
      BY <2>1 DEF MarkingIsAlone
    <2> QED
      BY <1>4, <2>1, <2>2, MarkingBegin DEF startLock, orderVars, OrderOps
  <1>5. ASSUME NEW t \in Tx, NEW m \in Orders, markReadyRead(t, m) PROVE MarkingIsAlone'
    <2>1. /\ tx'[t].on = m
          /\ \A u \in Tx \ {t} : tx'[u] = tx[u]
          /\ UNCHANGED order
      BY <1>5 DEF markReadyRead, Begin, orderVars, TypeOK
    <2>2. \A u \in Tx : Running(u, OrderOps) => tx[u].on # m
      BY <1>5 DEF markReadyRead, MarkedAlone, InFlight
    <2>3. \A u \in Tx : Running(u, {"markReady"}) => Running(u, OrderOps)
      BY DEF Running, OrderOps
    <2> QED
      BY <1>5, <2>1, <2>2, <2>3 DEF markReadyRead, MarkingIsAlone, Running
  <1>6. ASSUME NEW t \in Tx,
               \/ createNowWrite(t) \/ startWrite(t)
               \/ markReadyWrite(t) \/ completeWrite(t) \/ cancelWrite(t)
        PROVE  MarkingIsAlone'
    <2>1. Running(t, OrderOps) /\ End(t)
      BY <1>6 DEF createNowWrite, startWrite, enterService, markReadyWrite, completeWrite,
                  cancelWrite, Running, OrderOps
    <2>2. \A n \in Orders \ {tx[t].on} : order'[n] = order[n]
      BY <1>6 DEF createNowWrite, startWrite, enterService, markReadyWrite, completeWrite,
                  cancelWrite, TypeOK
    <2> QED
      BY <2>1, <2>2, MarkingEnd
  <1>7. ASSUME UNCHANGED order, NoOrderTxBegins PROVE MarkingIsAlone'
    BY <1>7 DEF MarkingIsAlone, NoOrderTxBegins, Running, OrderOps
  <1>8. CASE ContractNext
    BY <1>7, <1>8, ContractFrame
  <1>9. CASE FleetAdminNext
    BY <1>7, <1>9, FleetAdminFrame
  <1>10. ASSUME NEW t \in Tx, Abort(t) PROVE MarkingIsAlone'
    BY <1>7, <1>10, EndLocksNothing DEF Abort, orderVars
  <1>11. CASE UNCHANGED vars
    BY <1>7, <1>11 DEF vars, NoOrderTxBegins
  <1> QED
    BY <1>1, <1>2, <1>3, <1>4, <1>5, <1>6, <1>8, <1>9, <1>10, <1>11 DEF Next, WorkshopNext

-----------------------------------------------------------------------------
\* Every step of the fleet keeps the invariant of the workshop.
LEMMA WorkshopStep ==
  ASSUME WorkshopInv, MarkingIsAlone, [Next]_vars
  PROVE  WorkshopInv'
  <1> USE DEF WorkshopInv
  <1>0. TypeOK'
    BY TypeStep
  <1>1. ASSUME NEW m \in Orders, schedule(m) PROVE WorkshopInv'
    BY <1>0, <1>1, ScheduleKeeps
  <1>2. ASSUME NEW t \in Tx, markReadyWrite(t) PROVE WorkshopInv'
    <2>1. tx[t].on \in Orders /\ order[tx[t].on] = "IN_SERVICE"
      BY <1>2, RunningType DEF markReadyWrite, MarkingIsAlone, Running, OrderOps
    <2>2. NoLockTaken
      BY <1>2, EndLocksNothing, NoLockWithoutOrderTx DEF markReadyWrite
    <2>3. \A m \in Orders : order'[m] \in ACTIVE_MAINTENANCE_STATUSES
                              => order[m] \in ACTIVE_MAINTENANCE_STATUSES
      BY <1>2, <2>1 DEF markReadyWrite, ACTIVE_MAINTENANCE_STATUSES, TypeOK
    <2> QED
      BY <1>0, <2>2, <2>3, NothingActivated
  <1>3. ASSUME NEW t \in Tx, NEW m \in Orders, createNowRead(t, m) PROVE WorkshopInv'
    BY <1>0, <1>3, LockKeeps
       DEF createNowRead, Begin, ActiveMaintenance, LockedOps, orderVars
  <1>4. ASSUME NEW t \in Tx, startLock(t) PROVE WorkshopInv'
    <2>1. tx[t].on \in Orders
      BY <1>4, RunningType DEF startLock, Running, OrderOps
    <2> QED
      BY <1>0, <1>4, <2>1, LockKeeps DEF startLock, LockedOps, orderVars
  <1>5. ASSUME NEW t \in Tx, createNowWrite(t) \/ startWrite(t) PROVE WorkshopInv'
    BY <1>0, <1>5, EnterKeeps DEF createNowWrite, startWrite, LockedOps
  <1>6. ASSUME NEW t \in Tx, NEW m \in Orders,
               \/ startRead(t, m) \/ markReadyRead(t, m)
               \/ completeRead(t, m) \/ cancelRead(t, m)
        PROVE  WorkshopInv'
    <2>1. UNCHANGED order
      BY <1>6 DEF startRead, markReadyRead, completeRead, cancelRead, orderVars
    <2>2. NoLockTaken
      BY <1>6 DEF startRead, markReadyRead, completeRead, cancelRead, Begin, NoLockTaken,
                  LockedOps, TypeOK
    <2> QED
      BY <1>0, <2>1, <2>2, NothingActivated
  <1>7. ASSUME NEW t \in Tx, completeWrite(t) \/ cancelWrite(t) PROVE WorkshopInv'
    <2>1. NoLockTaken
      BY <1>7, EndLocksNothing, NoLockWithoutOrderTx DEF completeWrite, cancelWrite
    <2>2. \A m \in Orders : order'[m] \in ACTIVE_MAINTENANCE_STATUSES
                              => order[m] \in ACTIVE_MAINTENANCE_STATUSES
      BY <1>7 DEF completeWrite, cancelWrite, ACTIVE_MAINTENANCE_STATUSES, TypeOK
    <2> QED
      BY <1>0, <2>1, <2>2, NothingActivated
  <1>8. ASSUME UNCHANGED order, NoOrderTxBegins PROVE WorkshopInv'
    BY <1>0, <1>8, NothingActivated, NoLockWithoutOrderTx
  <1>9. CASE ContractNext
    BY <1>8, <1>9, ContractFrame
  <1>10. CASE FleetAdminNext
    BY <1>8, <1>10, FleetAdminFrame
  <1>11. ASSUME NEW t \in Tx, Abort(t) PROVE WorkshopInv'
    BY <1>8, <1>11, EndLocksNothing DEF Abort, orderVars
  <1>12. CASE UNCHANGED vars
    BY <1>8, <1>12 DEF vars, NoOrderTxBegins
  <1> QED
    BY <1>1, <1>2, <1>3, <1>4, <1>5, <1>6, <1>7, <1>9, <1>10, <1>11, <1>12
       DEF Next, WorkshopNext

\* Invariant of the workshop, provided that no order is marked ready while
\* another request on it is in flight.
THEOREM WorkshopInvariant ==
  ASSUME SharedOrders = {}
  PROVE  Spec => [](WorkshopInv /\ MarkingIsAlone)
  <1>1. WorkshopInv /\ MarkingIsAlone /\ [Next]_vars => (WorkshopInv /\ MarkingIsAlone)'
    BY WorkshopStep, MarkingStep DEF WorkshopInv
  <1> QED
    BY <1>1, WorkshopInit, MarkingInit, PTL DEF Spec

\* A vehicle never has two active workshop orders.
THEOREM ActiveOrderIsUnique ==
  ASSUME SharedOrders = {}
  PROVE  Spec => []OneActiveOrderPerVehicle
  <1>1. WorkshopInv => OneActiveOrderPerVehicle
    BY DEF WorkshopInv
  <1> QED
    BY <1>1, WorkshopInvariant, PTL
=============================================================================
