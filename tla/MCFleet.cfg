CONSTANTS
  c1 = c1  c2 = c2  v1 = v1  m1 = m1  m2 = m2  t1 = t1  t2 = t2  t3 = t3
  Contracts = {c1, c2}
  Vehicles = {v1}
  Orders = {}
  Tx = {t1, t2}
  VehicleOf <- OneVehicle
  OrderVehicle <- OneWorkshopVehicle
  CashContracts <- OnlyC2
  SharedLinks <- NoContracts
  SharedOrders <- NoOrders
SPECIFICATION Spec
SYMMETRY TxSymmetry
INVARIANTS
  TypeOK
  OneReservationPerVehicle
  OnePaidCustomerPerVehicle
  OneHolderPerVehicle
  CustodyMatchesLifecycle
  ConfirmedPaymentIsHonoured
  ReadsStillHold
  PaymentsFollowContract
PROPERTIES
  LifecycleMovesForward
  ImplementsReservation
CHECK_DEADLOCK FALSE
