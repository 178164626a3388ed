CONSTANTS
  c1 = c1  c2 = c2  v1 = v1  m1 = m1  m2 = m2  t1 = t1  t2 = t2  t3 = t3
  Contracts = {c1}
  Vehicles = {v1}
  Orders = {m1, m2}
  Tx = {t1, t2}
  VehicleOf <- OneVehicle
  OrderVehicle <- OneWorkshopVehicle
  CashContracts <- NoContracts
  SharedLinks <- NoContracts
  SharedOrders <- NoOrders
SPECIFICATION Spec
SYMMETRY TxSymmetry
INVARIANTS
  OneActiveOrderPerVehicle
CHECK_DEADLOCK FALSE
