--------------------------- MODULE RentalFleetTypes ---------------------------
(***************************************************************************)
(* Every reachable state of RentalFleet is well typed, for every number of *)
(* contracts, vehicles, workshop orders and transactions in flight.        *)
(***************************************************************************)
EXTENDS RentalFleet, TLAPS

\* A running transaction carries the row and the reading that its kind says.
LEMMA RunningType ==
  ASSUME TypeOK, NEW t \in Tx
  PROVE  /\ Running(t, ContractOps) => tx[t].on \in Contracts /\ tx[t].saw \in Status
         /\ Running(t, OrderOps) => tx[t].on \in Orders
         /\ Running(t, VehicleOps) => tx[t].on \in Vehicles /\ tx[t].to \in OperationalStatus
  <1>1. tx[t] \in Transaction
    BY DEF TypeOK
  <1>2. CASE tx[t] = Idle
    BY <1>2 DEF Idle, Running, ContractOps, HirerOps, OrderOps, VehicleOps
  <1>3. CASE tx[t] \in ContractTx
    BY <1>3 DEF ContractTx, Running, ContractOps, HirerOps, OrderOps, VehicleOps
  <1>4. CASE tx[t] \in OrderTx
    BY <1>4 DEF OrderTx, Running, ContractOps, HirerOps, OrderOps, VehicleOps
  <1>5. CASE tx[t] \in VehicleTx
    BY <1>5 DEF VehicleTx, Running, ContractOps, HirerOps, OrderOps, VehicleOps
  <1> QED
    BY <1>1, <1>2, <1>3, <1>4, <1>5 DEF Transaction

\* Beginning, and ending, a transaction keeps tx well typed.
LEMMA BeginType ==
  ASSUME TypeOK, NEW t \in Tx, NEW txn \in Transaction, Begin(t, txn)
  PROVE  tx' \in [Tx -> Transaction]
  BY DEF TypeOK, Begin

LEMMA EndType ==
  ASSUME TypeOK, NEW t \in Tx, End(t)
  PROVE  tx' \in [Tx -> Transaction]
  BY DEF TypeOK, End, Transaction

LEMMA ContractTxType ==
  ASSUME NEW op \in ContractOps, NEW c \in Contracts, NEW s \in Status
  PROVE  [op |-> op, on |-> c, saw |-> s] \in Transaction
  BY DEF ContractTx, Transaction

LEMMA OrderTxType ==
  ASSUME NEW op \in OrderOps, NEW m \in Orders
  PROVE  [op |-> op, on |-> m] \in Transaction
  BY DEF OrderTx, Transaction

\* Every contract handler keeps the rows well typed.
LEMMA ContractTypes == TypeOK /\ ContractNext => TypeOK'
  <1> SUFFICES ASSUME TypeOK, ContractNext PROVE TypeOK'
    OBVIOUS
  <1> USE DEF TypeOK, contractVars, vehicleVars, orderVars
  <1>1. ASSUME NEW c \in Contracts, createOffer(c) PROVE TypeOK'
    BY <1>1 DEF createOffer, Status, PrePayment, BLOCKING_CONTRACT_STATUSES, Event
  <1>2. ASSUME NEW c \in Contracts, generateRentalLink(c) PROVE TypeOK'
    BY <1>2 DEF generateRentalLink, Status, PrePayment, BLOCKING_CONTRACT_STATUSES, Event
  <1>3. ASSUME NEW c \in Contracts, generateReturnLink(c) PROVE TypeOK'
    BY <1>3 DEF generateReturnLink, Status, PrePayment, BLOCKING_CONTRACT_STATUSES, Event
  <1>4. ASSUME NEW c \in Contracts, linksExpire(c) PROVE TypeOK'
    BY <1>4 DEF linksExpire, Status, PrePayment, BLOCKING_CONTRACT_STATUSES, Event
  <1>5. ASSUME NEW c \in Contracts, submitOfficialReview(c) PROVE TypeOK'
    BY <1>5 DEF submitOfficialReview, Status, PrePayment, BLOCKING_CONTRACT_STATUSES, Event
  <1>6. ASSUME NEW c \in Contracts, confirmReturnPublic(c) PROVE TypeOK'
    BY <1>6
       DEF confirmReturnPublic, beginContractReturn, Status, PrePayment,
           BLOCKING_CONTRACT_STATUSES, Event
  <1>7. ASSUME NEW c \in Contracts, confirmReturnStaff(c) PROVE TypeOK'
    BY <1>7
       DEF confirmReturnStaff, beginContractReturn, Status, PrePayment,
           BLOCKING_CONTRACT_STATUSES, Event
  <1>8. ASSUME NEW t \in Tx, NEW c \in Contracts, submitFormRead(t, c) PROVE TypeOK'
    <2>1. tx' \in [Tx -> Transaction]
      BY <1>8, ContractTxType, BeginType
         DEF submitFormRead, ContractOps, HirerOps, Status, PrePayment,
             BLOCKING_CONTRACT_STATUSES
    <2> QED
      BY <1>8, <2>1 DEF submitFormRead
  <1>9. ASSUME NEW t \in Tx, NEW c \in Contracts, acceptRead(t, c) PROVE TypeOK'
    <2>1. tx' \in [Tx -> Transaction]
      BY <1>9, ContractTxType, BeginType
         DEF acceptRead, ContractOps, HirerOps, Status, PrePayment,
             BLOCKING_CONTRACT_STATUSES
    <2> QED
      BY <1>9, <2>1 DEF acceptRead
  <1>10. ASSUME NEW t \in Tx, NEW c \in Contracts, signRead(t, c) PROVE TypeOK'
    <2>1. tx' \in [Tx -> Transaction]
      BY <1>10, ContractTxType, BeginType
         DEF signRead, ContractOps, HirerOps, Status, PrePayment, BLOCKING_CONTRACT_STATUSES
    <2> QED
      BY <1>10, <2>1 DEF signRead
  <1>11. ASSUME NEW t \in Tx, NEW c \in Contracts, startCardPaymentRead(t, c) PROVE TypeOK'
    <2>1. tx' \in [Tx -> Transaction]
      BY <1>11, ContractTxType, BeginType
         DEF startCardPaymentRead, ContractOps, HirerOps, Status, PrePayment,
             BLOCKING_CONTRACT_STATUSES
    <2> QED
      BY <1>11, <2>1 DEF startCardPaymentRead
  <1>12. ASSUME NEW t \in Tx, NEW c \in Contracts, endCheckoutRead(t, c) PROVE TypeOK'
    <2>1. tx' \in [Tx -> Transaction]
      BY <1>12, ContractTxType, BeginType
         DEF endCheckoutRead, ContractOps, HirerOps, Status, PrePayment,
             BLOCKING_CONTRACT_STATUSES
    <2> QED
      BY <1>12, <2>1 DEF endCheckoutRead
  <1>13. ASSUME NEW t \in Tx, NEW c \in Contracts, confirmRead(t, c) PROVE TypeOK'
    <2>1. tx' \in [Tx -> Transaction]
      BY <1>13, ContractTxType, BeginType
         DEF confirmRead, ContractOps, HirerOps, Status, PrePayment,
             BLOCKING_CONTRACT_STATUSES
    <2> QED
      BY <1>13, <2>1 DEF confirmRead
  <1>14. ASSUME NEW t \in Tx, NEW c \in Contracts, carOutRead(t, c) PROVE TypeOK'
    <2>1. tx' \in [Tx -> Transaction]
      BY <1>14, ContractTxType, BeginType
         DEF carOutRead, ContractOps, HirerOps, Status, PrePayment,
             BLOCKING_CONTRACT_STATUSES
    <2> QED
      BY <1>14, <2>1 DEF carOutRead
  <1>15. ASSUME NEW t \in Tx, NEW c \in Contracts, carInRead(t, c) PROVE TypeOK'
    <2>1. tx' \in [Tx -> Transaction]
      BY <1>15, ContractTxType, BeginType
         DEF carInRead, ContractOps, HirerOps, Status, PrePayment,
             BLOCKING_CONTRACT_STATUSES
    <2> QED
      BY <1>15, <2>1 DEF carInRead
  <1>16. ASSUME NEW t \in Tx, NEW c \in Contracts, completeCarInRead(t, c) PROVE TypeOK'
    <2>1. tx' \in [Tx -> Transaction]
      BY <1>16, ContractTxType, BeginType
         DEF completeCarInRead, ContractOps, HirerOps, Status, PrePayment,
             BLOCKING_CONTRACT_STATUSES
    <2> QED
      BY <1>16, <2>1 DEF completeCarInRead
  <1>17. ASSUME NEW t \in Tx, NEW c \in Contracts, deleteRead(t, c) PROVE TypeOK'
    <2>1. tx' \in [Tx -> Transaction]
      BY <1>17, ContractTxType, BeginType
         DEF deleteRead, ContractOps, HirerOps, Status, PrePayment,
             BLOCKING_CONTRACT_STATUSES
    <2> QED
      BY <1>17, <2>1 DEF deleteRead
  <1>18. ASSUME NEW t \in Tx, submitFormWrite(t) PROVE TypeOK'
    <2>1. tx[t].on \in Contracts /\ tx' \in [Tx -> Transaction]
      BY <1>18, RunningType, EndType DEF submitFormWrite, Running, ContractOps, HirerOps
    <2> QED
      BY <1>18, <2>1
         DEF submitFormWrite, Status, PrePayment, BLOCKING_CONTRACT_STATUSES, Event,
             PaymentStatus, OperationalStatus
  <1>19. ASSUME NEW t \in Tx, acceptWrite(t) PROVE TypeOK'
    <2>1. tx[t].on \in Contracts /\ tx' \in [Tx -> Transaction]
      BY <1>19, RunningType, EndType DEF acceptWrite, Running, ContractOps, HirerOps
    <2> QED
      BY <1>19, <2>1
         DEF acceptWrite, Status, PrePayment, BLOCKING_CONTRACT_STATUSES, Event,
             PaymentStatus, OperationalStatus
  <1>20. ASSUME NEW t \in Tx, signElectronicWrite(t) PROVE TypeOK'
    <2>1. tx[t].on \in Contracts /\ tx' \in [Tx -> Transaction]
      BY <1>20, RunningType, EndType DEF signElectronicWrite, Running, ContractOps, HirerOps
    <2> QED
      BY <1>20, <2>1
         DEF signElectronicWrite, Status, PrePayment, BLOCKING_CONTRACT_STATUSES, Event,
             PaymentStatus, OperationalStatus
  <1>21. ASSUME NEW t \in Tx, signCashWrite(t) PROVE TypeOK'
    <2>1. tx[t].on \in Contracts /\ tx' \in [Tx -> Transaction]
      BY <1>21, RunningType, EndType DEF signCashWrite, Running, ContractOps, HirerOps
    <2> QED
      BY <1>21, <2>1
         DEF signCashWrite, becomePaid, Status, PrePayment, BLOCKING_CONTRACT_STATUSES,
             Event, PaymentStatus, OperationalStatus
  <1>22. ASSUME NEW t \in Tx, startCardPaymentWrite(t) PROVE TypeOK'
    <2>1. tx[t].on \in Contracts /\ tx' \in [Tx -> Transaction]
      BY <1>22, RunningType, EndType DEF startCardPaymentWrite, Running, ContractOps, HirerOps
    <2> QED
      BY <1>22, <2>1
         DEF startCardPaymentWrite, Status, PrePayment, BLOCKING_CONTRACT_STATUSES, Event,
             PaymentStatus, OperationalStatus
  <1>23. ASSUME NEW t \in Tx, endCheckoutWrite(t) PROVE TypeOK'
    <2>1. tx[t].on \in Contracts /\ tx' \in [Tx -> Transaction]
      BY <1>23, RunningType, EndType DEF endCheckoutWrite, Running, ContractOps, HirerOps
    <2> QED
      BY <1>23, <2>1
         DEF endCheckoutWrite, Status, PrePayment, BLOCKING_CONTRACT_STATUSES, Event,
             PaymentStatus, OperationalStatus
  <1>24. ASSUME NEW t \in Tx, confirmWrite(t) PROVE TypeOK'
    <2>1. tx[t].on \in Contracts /\ tx' \in [Tx -> Transaction]
      BY <1>24, RunningType, EndType DEF confirmWrite, Running, ContractOps, HirerOps
    <2> QED
      BY <1>24, <2>1
         DEF confirmWrite, becomePaid, Status, PrePayment, BLOCKING_CONTRACT_STATUSES,
             Event, PaymentStatus, OperationalStatus
  <1>25. ASSUME NEW t \in Tx, carOutWrite(t) PROVE TypeOK'
    <2>1. tx[t].on \in Contracts /\ tx' \in [Tx -> Transaction]
      BY <1>25, RunningType, EndType DEF carOutWrite, Running, ContractOps, HirerOps
    <2> QED
      BY <1>25, <2>1
         DEF carOutWrite, Status, PrePayment, BLOCKING_CONTRACT_STATUSES, Event,
             PaymentStatus, OperationalStatus
  <1>26. ASSUME NEW t \in Tx, carInWrite(t) PROVE TypeOK'
    <2>1. tx[t].on \in Contracts /\ tx' \in [Tx -> Transaction]
      BY <1>26, RunningType, EndType DEF carInWrite, Running, ContractOps, HirerOps
    <2> QED
      BY <1>26, <2>1
         DEF carInWrite, Status, PrePayment, BLOCKING_CONTRACT_STATUSES, Event,
             PaymentStatus, OperationalStatus
  <1>27. ASSUME NEW t \in Tx, completeCarInWrite(t) PROVE TypeOK'
    <2>1. tx[t].on \in Contracts /\ tx' \in [Tx -> Transaction]
      BY <1>27, RunningType, EndType DEF completeCarInWrite, Running, ContractOps, HirerOps
    <2> QED
      BY <1>27, <2>1
         DEF completeCarInWrite, Status, PrePayment, BLOCKING_CONTRACT_STATUSES, Event,
             PaymentStatus, OperationalStatus
  <1>28. ASSUME NEW t \in Tx, deleteWrite(t) PROVE TypeOK'
    <2>1. tx[t].on \in Contracts /\ tx' \in [Tx -> Transaction]
      BY <1>28, RunningType, EndType DEF deleteWrite, Running, ContractOps, HirerOps
    <2> QED
      BY <1>28, <2>1
         DEF deleteWrite, Status, PrePayment, BLOCKING_CONTRACT_STATUSES, Event,
             PaymentStatus, OperationalStatus
  <1> QED
    BY <1>1, <1>2, <1>3, <1>4, <1>5, <1>6, <1>7, <1>8, <1>9, <1>10, <1>11, <1>12, <1>13,
       <1>14, <1>15, <1>16, <1>17, <1>18, <1>19, <1>20, <1>21, <1>22, <1>23, <1>24, <1>25,
       <1>26, <1>27, <1>28
       DEF ContractNext

\* So does the workshop.
LEMMA WorkshopTypes == TypeOK /\ WorkshopNext => TypeOK'
  <1> SUFFICES ASSUME TypeOK, WorkshopNext PROVE TypeOK'
    OBVIOUS
  <1> USE DEF TypeOK, contractVars, vehicleVars, orderVars
  <1>1. ASSUME NEW m \in Orders, schedule(m) PROVE TypeOK'
    BY <1>1 DEF schedule, OrderStatus, ACTIVE_MAINTENANCE_STATUSES
  <1>2. ASSUME NEW t \in Tx, NEW m \in Orders, markReadyRead(t, m) PROVE TypeOK'
    <2>1. tx' \in [Tx -> Transaction]
      BY <1>2, OrderTxType, BeginType DEF markReadyRead, OrderOps
    <2> QED
      BY <1>2, <2>1 DEF markReadyRead
  <1>3. ASSUME NEW t \in Tx, NEW m \in Orders, createNowRead(t, m) PROVE TypeOK'
    <2>1. tx' \in [Tx -> Transaction]
      BY <1>3, OrderTxType, BeginType DEF createNowRead, OrderOps
    <2> QED
      BY <1>3, <2>1 DEF createNowRead
  <1>4. ASSUME NEW t \in Tx, NEW m \in Orders, startRead(t, m) PROVE TypeOK'
    <2>1. tx' \in [Tx -> Transaction]
      BY <1>4, OrderTxType, BeginType DEF startRead, OrderOps
    <2> QED
      BY <1>4, <2>1 DEF startRead
  <1>5. ASSUME NEW t \in Tx, NEW m \in Orders, completeRead(t, m) PROVE TypeOK'
    <2>1. tx' \in [Tx -> Transaction]
      BY <1>5, OrderTxType, BeginType DEF completeRead, OrderOps
    <2> QED
      BY <1>5, <2>1 DEF completeRead
  <1>6. ASSUME NEW t \in Tx, NEW m \in Orders, cancelRead(t, m) PROVE TypeOK'
    <2>1. tx' \in [Tx -> Transaction]
      BY <1>6, OrderTxType, BeginType DEF cancelRead, OrderOps
    <2> QED
      BY <1>6, <2>1 DEF cancelRead
  <1>7. ASSUME NEW t \in Tx, createNowWrite(t) PROVE TypeOK'
    <2>1. tx[t].on \in Orders /\ tx' \in [Tx -> Transaction]
      BY <1>7, RunningType, EndType DEF createNowWrite, enterService, Running, OrderOps
    <2> QED
      BY <1>7, <2>1
         DEF createNowWrite, enterService, OrderStatus, OrderEvent,
             ACTIVE_MAINTENANCE_STATUSES, OperationalStatus
  <1>8. ASSUME NEW t \in Tx, startWrite(t) PROVE TypeOK'
    <2>1. tx[t].on \in Orders /\ tx' \in [Tx -> Transaction]
      BY <1>8, RunningType, EndType DEF startWrite, enterService, Running, OrderOps
    <2> QED
      BY <1>8, <2>1
         DEF startWrite, enterService, OrderStatus, OrderEvent,
             ACTIVE_MAINTENANCE_STATUSES, OperationalStatus
  <1>9. ASSUME NEW t \in Tx, completeWrite(t) PROVE TypeOK'
    <2>1. tx[t].on \in Orders /\ tx' \in [Tx -> Transaction]
      BY <1>9, RunningType, EndType DEF completeWrite, Running, OrderOps
    <2> QED
      BY <1>9, <2>1
         DEF completeWrite, OrderStatus, OrderEvent, ACTIVE_MAINTENANCE_STATUSES,
             OperationalStatus
  <1>10. ASSUME NEW t \in Tx, cancelWrite(t) PROVE TypeOK'
    <2>1. tx[t].on \in Orders /\ tx' \in [Tx -> Transaction]
      BY <1>10, RunningType, EndType DEF cancelWrite, Running, OrderOps
    <2> QED
      BY <1>10, <2>1 DEF cancelWrite, OrderStatus
  <1>11. ASSUME NEW t \in Tx, startLock(t) PROVE TypeOK'
    <2>1. tx[t].on \in Orders
      BY <1>11, RunningType DEF startLock, Running, OrderOps
    <2>2. [op |-> "start", on |-> tx[t].on] \in Transaction
      BY <2>1, OrderTxType DEF OrderOps
    <2> QED
      BY <1>11, <2>2 DEF startLock
  <1>12. ASSUME NEW t \in Tx, markReadyWrite(t) PROVE TypeOK'
    <2>1. tx[t].on \in Orders /\ tx' \in [Tx -> Transaction]
      BY <1>12, RunningType, EndType DEF markReadyWrite, Running, OrderOps
    <2> QED
      BY <1>12, <2>1 DEF markReadyWrite, OrderStatus, ACTIVE_MAINTENANCE_STATUSES
  <1> QED
    BY <1>1, <1>2, <1>3, <1>4, <1>5, <1>6, <1>7, <1>8, <1>9, <1>10, <1>11, <1>12
       DEF WorkshopNext

\* And fleet administration.
LEMMA FleetAdminTypes == TypeOK /\ FleetAdminNext => TypeOK'
  <1> SUFFICES ASSUME TypeOK, FleetAdminNext PROVE TypeOK'
    OBVIOUS
  <1> USE DEF TypeOK, contractVars, vehicleVars, orderVars
  <1>1. ASSUME NEW v \in Vehicles, activate(v) PROVE TypeOK'
    BY <1>1 DEF activate
  <1>2. ASSUME NEW t \in Tx, NEW v \in Vehicles, deactivateRead(t, v) PROVE TypeOK'
    <2>1. [op |-> "deactivate", on |-> v, to |-> vehStatus[v]] \in Transaction
      BY DEF Transaction, VehicleTx, VehicleOps
    <2>2. tx' \in [Tx -> Transaction]
      BY <1>2, <2>1, BeginType DEF deactivateRead
    <2> QED
      BY <1>2, <2>2 DEF deactivateRead
  <1>3. ASSUME NEW t \in Tx, NEW v \in Vehicles, NEW requested \in OperationalStatus,
               updateRead(t, v, requested)
        PROVE TypeOK'
    <2>1. [op |-> "setStatus", on |-> v, to |-> requested] \in Transaction
      BY DEF Transaction, VehicleTx, VehicleOps
    <2>2. tx' \in [Tx -> Transaction]
      BY <1>3, <2>1, BeginType DEF updateRead
    <2> QED
      BY <1>3, <2>2 DEF updateRead
  <1>4. ASSUME NEW t \in Tx, updateWrite(t) PROVE TypeOK'
    <2>1. /\ tx[t].on \in Vehicles /\ tx[t].to \in OperationalStatus
          /\ tx' \in [Tx -> Transaction]
      BY <1>4, RunningType, EndType DEF updateWrite, Running, VehicleOps
    <2> QED
      BY <1>4, <2>1 DEF updateWrite
  <1>5. ASSUME NEW t \in Tx, deactivateWrite(t) PROVE TypeOK'
    <2>1. tx' \in [Tx -> Transaction]
      BY <1>5, EndType DEF deactivateWrite
    <2> QED
      BY <1>5, <2>1 DEF deactivateWrite
  <1> QED
    BY <1>1, <1>2, <1>3, <1>4, <1>5 DEF FleetAdminNext

LEMMA TypeInit == Init => TypeOK
  BY DEF Init, TypeOK, Status, Event, PaymentStatus, OperationalStatus, OrderStatus, Transaction

LEMMA TypeStep == TypeOK /\ [Next]_vars => TypeOK'
  <1> SUFFICES ASSUME TypeOK, [Next]_vars PROVE TypeOK'
    OBVIOUS
  <1>1. ASSUME NEW t \in Tx, Abort(t) PROVE TypeOK'
    <2>1. tx' \in [Tx -> Transaction]
      BY <1>1, EndType DEF Abort
    <2> QED
      BY <1>1, <2>1 DEF Abort, TypeOK, contractVars, vehicleVars, orderVars
  <1>2. CASE UNCHANGED vars
    BY <1>2 DEF vars, TypeOK
  <1> QED
    BY <1>1, <1>2, ContractTypes, WorkshopTypes, FleetAdminTypes DEF Next

\* The rows of the fleet are well typed in every reachable state.
THEOREM TypeCorrect == Spec => []TypeOK
  BY TypeInit, TypeStep, PTL DEF Spec
=============================================================================
