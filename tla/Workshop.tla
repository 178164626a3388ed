------------------------------- MODULE Workshop -------------------------------
(***************************************************************************)
(* Maintenance orders.  Their transactions serialise on the vehicle in the *)
(* "vehicle_maintenance" lock namespace, which no rental transaction takes.*)
(***************************************************************************)
EXTENDS FleetState

\* An employee who marks an order ready waits for the answer before the next
\* request on it; in SharedOrders, a colleague's request may come meanwhile.
NotBeingMarked(m) == m \in SharedOrders \/ ~ InFlight({"markReady"}, m)
MarkedAlone(m) == m \in SharedOrders \/ ~ InFlight(OrderOps, m)

EligibleForMaintenance(v) == v \in active /\ vehStatus[v] = "AVAILABLE"

\* Fault: scheduling checks the other orders without the lock.
faultySchedule(m) ==
  LET v == OrderVehicle[m] IN
  /\ order[m] = "NONE"
  /\ ~ ActiveMaintenance(v, {})
  /\ EligibleForMaintenance(v)
  /\ order' = [order EXCEPT ![m] = "SCHEDULED"]
  /\ UNCHANGED <<contractVars, vehicleVars, logged, tx>>

\* create with startMode = scheduled: the vehicle stays AVAILABLE.
schedule(m) ==
  LET v == OrderVehicle[m] IN
  /\ order[m] = "NONE"
  /\ ~ VehicleMaintenanceLocked(v)
  /\ ~ ActiveMaintenance(v, {})
  /\ EligibleForMaintenance(v)
  /\ order' = [order EXCEPT ![m] = "SCHEDULED"]
  /\ UNCHANGED <<contractVars, vehicleVars, logged, tx>>

\* create with startMode = now: checks under the lock ...
createNowRead(t, m) ==
  LET v == OrderVehicle[m] IN
  /\ order[m] = "NONE"
  /\ ~ InFlight({"createNow"}, m)
  /\ ~ VehicleMaintenanceLocked(v)
  /\ ~ ActiveMaintenance(v, {})
  /\ EligibleForMaintenance(v)
  /\ Begin(t, [op |-> "createNow", on |-> m])
  /\ UNCHANGED <<contractVars, vehicleVars, orderVars>>

\* Puts the order and its vehicle in the workshop; maintenance.started is
\* emitted once per order.
enterService(t, op) ==
  LET m == tx[t].on IN
  /\ Running(t, {op})
  /\ "started" \notin logged[m]
  /\ order' = [order EXCEPT ![m] = "IN_SERVICE"]
  /\ logged' = [logged EXCEPT ![m] = @ \union {"started"}]
  /\ vehStatus' = [vehStatus EXCEPT ![OrderVehicle[m]] = "SERVICE"]
  /\ End(t)
  /\ UNCHANGED <<contractVars, active>>

\* ... and writes the order and the vehicle.
createNowWrite(t) == enterService(t, "createNow")

\* start reads its order before it takes the lock,
startRead(t, m) ==
  /\ NotBeingMarked(m)
  /\ order[m] = "SCHEDULED"
  /\ Begin(t, [op |-> "startRead", on |-> m])
  /\ UNCHANGED <<contractVars, vehicleVars, orderVars>>

\* checks the vehicle and the other orders under it,
startLock(t) ==
  LET m == tx[t].on
      v == OrderVehicle[m] IN
  /\ Running(t, {"startRead"})
  /\ ~ VehicleMaintenanceLocked(v)
  /\ EligibleForMaintenance(v)
  /\ ~ ActiveMaintenance(v, {m})
  /\ tx' = [tx EXCEPT ![t] = [op |-> "start", on |-> m]]
  /\ UNCHANGED <<contractVars, vehicleVars, orderVars>>

\* and never looks at its own order again: one cancelled meanwhile is revived.
startWrite(t) == enterService(t, "start")

\* markReady and cancel take no lock between their read and their write.
markReadyRead(t, m) ==
  /\ MarkedAlone(m)
  /\ order[m] = "IN_SERVICE"
  /\ vehStatus[OrderVehicle[m]] = "SERVICE"
  /\ Begin(t, [op |-> "markReady", on |-> m])
  /\ UNCHANGED <<contractVars, vehicleVars, orderVars>>

markReadyWrite(t) ==
  /\ Running(t, {"markReady"})
  /\ order' = [order EXCEPT ![tx[t].on] = "READY_FOR_PICKUP"]
  /\ End(t)
  /\ UNCHANGED <<contractVars, vehicleVars, logged>>

completeRead(t, m) ==
  /\ NotBeingMarked(m)
  /\ order[m] = "READY_FOR_PICKUP"
  /\ vehStatus[OrderVehicle[m]] = "SERVICE"
  /\ Begin(t, [op |-> "complete", on |-> m])
  /\ UNCHANGED <<contractVars, vehicleVars, orderVars>>

\* maintenance.completed and the expense ledger are written once per order.
completeWrite(t) ==
  LET m == tx[t].on
      v == OrderVehicle[m] IN
  /\ Running(t, {"complete"})
  /\ ~ VehicleMaintenanceLocked(v)
  /\ ~ ActiveMaintenance(v, {m})
  /\ "completed" \notin logged[m]
  /\ order' = [order EXCEPT ![m] = "COMPLETED"]
  /\ logged' = [logged EXCEPT ![m] = @ \union {"completed"}]
  /\ vehStatus' = [vehStatus EXCEPT ![v] = "AVAILABLE"]
  /\ End(t)
  /\ UNCHANGED <<contractVars, active>>

cancelRead(t, m) ==
  /\ NotBeingMarked(m)
  /\ order[m] = "SCHEDULED"
  /\ Begin(t, [op |-> "cancel", on |-> m])
  /\ UNCHANGED <<contractVars, vehicleVars, orderVars>>

cancelWrite(t) ==
  /\ Running(t, {"cancel"})
  /\ order' = [order EXCEPT ![tx[t].on] = "CANCELLED"]
  /\ End(t)
  /\ UNCHANGED <<contractVars, vehicleVars, logged>>

WorkshopNext ==
  \/ \E m \in Orders : schedule(m)
  \/ \E t \in Tx, m \in Orders :
       \/ createNowRead(t, m) \/ startRead(t, m) \/ markReadyRead(t, m)
       \/ completeRead(t, m) \/ cancelRead(t, m)
  \/ \E t \in Tx :
       \/ createNowWrite(t) \/ startLock(t) \/ startWrite(t)
       \/ markReadyWrite(t) \/ completeWrite(t) \/ cancelWrite(t)
=============================================================================
