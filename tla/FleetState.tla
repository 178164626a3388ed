------------------------------ MODULE FleetState ------------------------------
(***************************************************************************)
(* The database rows that contracts, the workshop and fleet administration *)
(* share, and the transactions in flight on them.                          *)
(*                                                                         *)
(* PostgreSQL runs every transaction at READ COMMITTED.  A handler whose   *)
(* reads are not covered by a lock against the other writers is two steps: *)
(* one that reads (and keeps what it read in tx) and one that writes.      *)
(* Advisory locks are not variables: a lock is held exactly while a        *)
(* transaction that took it is in flight.                                  *)
(***************************************************************************)
EXTENDS Naturals, FiniteSets

CONSTANTS
  Contracts, Vehicles, Orders,
  Tx,             \* slots for transactions in flight: bounds the concurrency
  VehicleOf,      \* Contract.vehicleId, fixed when the offer is created
  OrderVehicle,   \* MaintenanceOrder.vehicleId, fixed likewise
  CashContracts,  \* Contract.collectionMode = CASH, frozen at the offer
  SharedLinks,    \* contracts whose rental link is open in several pages
  SharedOrders    \* orders that several employees work on at once

ASSUME FleetConstants ==
  /\ VehicleOf \in [Contracts -> Vehicles]
  /\ OrderVehicle \in [Orders -> Vehicles]
  /\ CashContracts \subseteq Contracts
  /\ SharedLinks \subseteq Contracts
  /\ SharedOrders \subseteq Orders

VARIABLES
  status,      \* Contract.status; ABSENT before the offer, DELETED after removal
  accepted,    \* contracts with a ContractAcceptance row (unique per contract)
  carOut,      \* contracts with a ContractCarOut row (unique per contract)
  carIn,       \* contracts with a ContractCarIn row (unique per contract)
  emitted,     \* dedupe keys of DomainOutboxEvent: writing one twice aborts
  pay,         \* the contract's newest RENTAL ContractPayment
  rentalLink,  \* contracts with a live RENTAL link
  returnLink,  \* contracts with a live RETURN link
  vehStatus,   \* Vehicle.operationalStatus
  active,      \* vehicles with isActive
  order,       \* MaintenanceOrder.status, NONE before it is created
  logged,      \* dedupe keys of the order's events: writing one twice aborts
  tx           \* what each transaction in flight has read

contractVars == <<status, accepted, carOut, carIn, emitted, pay, rentalLink, returnLink>>
vehicleVars == <<vehStatus, active>>
orderVars == <<order, logged>>
vars == <<status, accepted, carOut, carIn, emitted, pay, rentalLink, returnLink,
          vehStatus, active, order, logged, tx>>

PrePayment == {"AWAITING", "FORM", "SIGNED"}
BLOCKING_CONTRACT_STATUSES == {"PAID", "ACTIVE", "RETOUT"}
Status == {"ABSENT", "DELETED", "REVIEW"} \union PrePayment \union BLOCKING_CONTRACT_STATUSES
OperationalStatus == {"AVAILABLE", "RENTED", "SERVICE"}
ACTIVE_MAINTENANCE_STATUSES == {"SCHEDULED", "IN_SERVICE", "READY_FOR_PICKUP"}
OrderStatus == {"NONE", "COMPLETED", "CANCELLED"} \union ACTIVE_MAINTENANCE_STATUSES
PaymentStatus == {"NONE", "OPEN", "CONFIRMED", "CANCELLED"}
Event == {"form_completed", "paid"}
OrderEvent == {"started", "completed"}

HirerOps == {"form", "accept", "sign"}
ContractOps == HirerOps \union
  {"startPayment", "endCheckout", "confirm", "carOut", "carIn", "completeCarIn", "delete"}
RentalLockOps == {"carOut", "completeCarIn"}
OrderOps == {"createNow", "startRead", "start", "markReady", "complete", "cancel"}
VehicleOps == {"setStatus", "deactivate"}

\* A transaction in flight: its operation, the row it is about and what it
\* read (or, for setStatus, what the administrator asked for).
Idle == [op |-> "idle"]
ContractTx == [op : ContractOps, on : Contracts, saw : Status]
OrderTx == [op : OrderOps, on : Orders]
VehicleTx == [op : VehicleOps, on : Vehicles, to : OperationalStatus]
Transaction == {Idle} \union ContractTx \union OrderTx \union VehicleTx

-----------------------------------------------------------------------------
Running(t, ops) == tx[t].op \in ops

\* Some transaction of one of these kinds is in flight on the row.
InFlight(ops, row) == \E t \in Tx : Running(t, ops) /\ tx[t].on = row

Begin(t, txn) ==
  /\ tx[t] = Idle
  /\ tx' = [tx EXCEPT ![t] = txn]

End(t) == tx' = [tx EXCEPT ![t] = Idle]

\* pg_advisory_xact_lock("vehicle_rental", v), for the transactions that keep
\* it over more than one step.
VehicleRentalLocked(v) ==
  \E t \in Tx : /\ Running(t, RentalLockOps)
                /\ VehicleOf[tx[t].on] = v

\* pg_advisory_xact_lock("vehicle_maintenance", v): another namespace, so it
\* excludes workshop transactions only.
VehicleMaintenanceLocked(v) ==
  \E t \in Tx : /\ Running(t, {"createNow", "start"})
                /\ OrderVehicle[tx[t].on] = v

-----------------------------------------------------------------------------
\* Fault: a vehicle announced as returned counts as free.
FaultyBlocking(c) == status[c] \in {"PAID", "ACTIVE"}

Blocking(c) == status[c] \in BLOCKING_CONTRACT_STATUSES

vehicleHasBlockingContract(v) == \E c \in Contracts : VehicleOf[c] = v /\ Blocking(c)

\* Fault: the vehicle's own status is trusted, contracts are not looked at.
FaultyVehicleFree(c) ==
  /\ ~ VehicleRentalLocked(VehicleOf[c])
  /\ VehicleOf[c] \in active
  /\ vehStatus[VehicleOf[c]] = "AVAILABLE"

\* The checks of assertVehicleFreeForRental, made under the vehicle_rental lock.
VehicleFreeForRental(c) ==
  /\ ~ VehicleRentalLocked(VehicleOf[c])
  /\ VehicleOf[c] \in active
  /\ vehStatus[VehicleOf[c]] # "SERVICE"
  /\ \A d \in Contracts \ {c} : VehicleOf[d] = VehicleOf[c] => ~ Blocking(d)

VehicleBookableForRental(c) ==
  /\ VehicleFreeForRental(c)
  /\ vehStatus[VehicleOf[c]] = "AVAILABLE"

ActiveMaintenance(v, except) ==
  \E m \in Orders \ except : OrderVehicle[m] = v /\ order[m] \in ACTIVE_MAINTENANCE_STATUSES

-----------------------------------------------------------------------------
Init ==
  /\ status = [c \in Contracts |-> "ABSENT"]
  /\ accepted = {}
  /\ carOut = {}
  /\ carIn = {}
  /\ emitted = [c \in Contracts |-> {}]
  /\ pay = [c \in Contracts |-> "NONE"]
  /\ rentalLink = {}
  /\ returnLink = {}
  /\ vehStatus = [v \in Vehicles |-> "AVAILABLE"]
  /\ active = Vehicles
  /\ order = [m \in Orders |-> "NONE"]
  /\ logged = [m \in Orders |-> {}]
  /\ tx = [t \in Tx |-> Idle]

\* A transaction that fails a check, meets a unique key, times out or loses
\* its process rolls back: nothing it did is visible.
Abort(t) ==
  /\ tx[t] # Idle
  /\ End(t)
  /\ UNCHANGED <<contractVars, vehicleVars, orderVars>>

TypeOK ==
  /\ status \in [Contracts -> Status]
  /\ accepted \subseteq Contracts
  /\ carOut \subseteq Contracts
  /\ carIn \subseteq Contracts
  /\ emitted \in [Contracts -> SUBSET Event]
  /\ pay \in [Contracts -> PaymentStatus]
  /\ rentalLink \subseteq Contracts
  /\ returnLink \subseteq Contracts
  /\ vehStatus \in [Vehicles -> OperationalStatus]
  /\ active \subseteq Vehicles
  /\ order \in [Orders -> OrderStatus]
  /\ logged \in [Orders -> SUBSET OrderEvent]
  /\ tx \in [Tx -> Transaction]
=============================================================================
