------------------------------ MODULE RentalFleet ------------------------------
(***************************************************************************)
(* Contracts, workshop and fleet administration on one fleet of vehicles,  *)
(* any step of one between any two steps of another.                       *)
(***************************************************************************)
EXTENDS RentalContracts, Workshop, FleetAdmin

Next ==
  \/ ContractNext
  \/ WorkshopNext
  \/ FleetAdminNext
  \/ \E t \in Tx : Abort(t)

Spec == Init /\ [][Next]_vars

SameVehicle(c, d) == c # d /\ VehicleOf[c] = VehicleOf[d]

\* The hirer has driven off and has not brought the vehicle back.
InCustody(c) == c \in carOut \ carIn

-----------------------------------------------------------------------------
\* PAID, ACTIVE and RETOUT allocate the vehicle: the first offer to reach PAID
\* wins, whatever payments, car-outs, workshop and administrators do at the
\* same time (vehicle-rental-guard).
OneReservationPerVehicle ==
  \A c, d \in Contracts : SameVehicle(c, d) => ~ (Blocking(c) /\ Blocking(d))

\* Money is never confirmed twice for one vehicle: of the contracts on a
\* vehicle that have a confirmed payment, at most one is still to be returned.
OnePaidCustomerPerVehicle ==
  \A c, d \in Contracts :
    SameVehicle(c, d) => ~ (/\ pay[c] = "CONFIRMED" /\ c \notin carIn
                            /\ pay[d] = "CONFIRMED" /\ d \notin carIn)

\* A vehicle is handed to one hirer at a time, even though administrators and
\* the workshop may write its status while it is out.
OneHolderPerVehicle ==
  \A c, d \in Contracts : SameVehicle(c, d) => ~ (InCustody(c) /\ InCustody(d))

\* The custody rows and the lifecycle agree: a vehicle is out exactly under
\* ACTIVE and RETOUT, and a contract in REVIEW has both inspections.
CustodyMatchesLifecycle ==
  \A c \in Contracts :
    /\ InCustody(c) <=> status[c] \in {"ACTIVE", "RETOUT"}
    /\ c \in carIn <=> status[c] = "REVIEW"
    /\ c \in carIn => c \in carOut

\* A confirmed payment always has the vehicle reserved for it or has been
\* served: it never sits on a contract that is still unpaid or was deleted.
ConfirmedPaymentIsHonoured ==
  \A c \in Contracts :
    pay[c] = "CONFIRMED" => status[c] \in BLOCKING_CONTRACT_STATUSES \union {"REVIEW"}

\* A vehicle has one active workshop order at a time, although start reads its
\* order before the lock, and cancel and markReady take none.
OneActiveOrderPerVehicle ==
  \A m, n \in Orders :
    m # n /\ OrderVehicle[m] = OrderVehicle[n] =>
      ~ (order[m] \in ACTIVE_MAINTENANCE_STATUSES /\ order[n] \in ACTIVE_MAINTENANCE_STATUSES)

\* ACTIVE and RETOUT mean the vehicle is RENTED (contracts-backend,
\* "Vehicle integration").
VehicleRentedWhileOut ==
  \A c \in Contracts :
    status[c] \in {"ACTIVE", "RETOUT"} => vehStatus[VehicleOf[c]] = "RENTED"

\* Every step moves a contract along ALLOWED_TRANSITIONS; signing a cash
\* contract crosses SIGNED within one transaction, and only a request that
\* was never paid is removed.
ALLOWED_TRANSITIONS ==
  {<<"AWAITING", "FORM">>, <<"FORM", "SIGNED">>, <<"SIGNED", "PAID">>, <<"PAID", "ACTIVE">>,
   <<"ACTIVE", "RETOUT">>, <<"RETOUT", "REVIEW">>}

LegalMove(c, from, to) ==
  \/ from = to
  \/ <<from, to>> \in ALLOWED_TRANSITIONS
  \/ from = "ABSENT" /\ to = "AWAITING"
  \/ from = "FORM" /\ to = "PAID" /\ c \in CashContracts
  \/ from \in PrePayment /\ to = "DELETED"

LifecycleMovesForward ==
  [][\A c \in Contracts : LegalMove(c, status[c], status'[c])]_vars

-----------------------------------------------------------------------------
\* What a transaction of the rental flow has read is still good enough when it
\* writes, although most handlers hold no lock on their contract in between.  A
\* deletion alone may find its contract paid meanwhile: the confirmed payment,
\* which it cannot delete, is then still there to stop it.
ReadHolds(t, s) ==
  /\ Running(t, {"form"}) => s \in {"AWAITING", "FORM", "DELETED"}
  /\ Running(t, {"accept", "sign"}) => s \in {"FORM", "DELETED"}
  /\ Running(t, {"confirm"}) /\ tx[t].saw = "SIGNED" => s = "SIGNED"
  /\ Running(t, {"carOut"}) => s = "PAID"
  /\ Running(t, {"carIn"}) => s \in {"RETOUT", "REVIEW"}
  /\ Running(t, {"completeCarIn"}) => s = "RETOUT"

DeletionHolds(c) == status[c] \in PrePayment \/ pay[c] = "CONFIRMED"

ReadsStillHold ==
  /\ \A t \in Tx : ReadHolds(t, status[tx[t].on])
  /\ \A t \in Tx : Running(t, {"delete"}) => DeletionHolds(tx[t].on)

\* A payment exists only on a contract that was signed, and stays so whatever
\* the unlocked writes of the paperwork do: a card payment being started or a
\* confirmation being applied never meets a contract that went back.
Settleable == {"SIGNED", "REVIEW"} \union BLOCKING_CONTRACT_STATUSES

PaymentsFollowContract ==
  /\ \A c \in Contracts : pay[c] # "NONE" => status[c] \in Settleable
  /\ \A t \in Tx :
       /\ Running(t, {"startPayment"}) => status[tx[t].on] \in Settleable \union {"DELETED"}
       /\ Running(t, {"confirm"}) =>
            /\ pay[tx[t].on] # "NONE"
            /\ tx[t].saw # "SIGNED" => status[tx[t].on] \in Settleable \ {"SIGNED"}

\* The fleet implements VehicleReservation: a reservation is granted to a free
\* vehicle, is never moved to another contract and ends only by a car-in.
reserved == [v \in Vehicles |-> {c \in Contracts : VehicleOf[c] = v /\ Blocking(c)}]
held == [v \in Vehicles |-> {c \in Contracts : VehicleOf[c] = v /\ InCustody(c)}]

Reservation == INSTANCE VehicleReservation WITH reserved <- reserved, held <- held

ImplementsReservation == Reservation!Spec
=============================================================================
