CONSTANTS
  c1 = c1  c2 = c2  v1 = v1  m1 = m1  m2 = m2  t1 = t1  t2 = t2  t3 = t3
  Contracts = {c1, c2}
  Vehicles = {v1}
  Orders = {}
  Tx = {t1, t2}
  VehicleOf <- OneVehicle
  OrderVehicle <- OneWorkshopVehicle
  CashContracts <- NoContracts
  SharedLinks <- OnlyC1
  SharedOrders <- NoOrders
SPECIFICATION Spec
SYMMETRY TxSymmetry
INVARIANTS
  OnePaidCustomerPerVehicle
CHECK_DEADLOCK FALSE
