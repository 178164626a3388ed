------------------------------ MODULE FleetAdmin ------------------------------
(***************************************************************************)
(* PUT /vehicles and activation.  The checks and the write are separate    *)
(* statements outside any transaction and without any lock.                *)
(***************************************************************************)
EXTENDS FleetState

VehicleMutableForFleetOps(v) ==
  /\ vehStatus[v] # "RENTED"
  /\ ~ vehicleHasBlockingContract(v)

StatusAllowedWithActiveMaintenance(v, requested) ==
  \/ requested = vehStatus[v]
  \/ \A m \in Orders :
       OrderVehicle[m] = v =>
         /\ order[m] \in {"IN_SERVICE", "READY_FOR_PICKUP"} => requested = "SERVICE"
         /\ order[m] \in ACTIVE_MAINTENANCE_STATUSES => requested # "RENTED"

updateRead(t, v, requested) ==
  /\ VehicleMutableForFleetOps(v)
  /\ StatusAllowedWithActiveMaintenance(v, requested)
  /\ Begin(t, [op |-> "setStatus", on |-> v, to |-> requested])
  /\ UNCHANGED <<contractVars, vehicleVars, orderVars>>

updateWrite(t) ==
  /\ Running(t, {"setStatus"})
  /\ vehStatus' = [vehStatus EXCEPT ![tx[t].on] = tx[t].to]
  /\ End(t)
  /\ UNCHANGED <<contractVars, active, orderVars>>

activate(v) ==
  /\ v \notin active
  /\ active' = active \union {v}
  /\ UNCHANGED <<contractVars, vehStatus, orderVars, tx>>

deactivateRead(t, v) ==
  /\ v \in active
  /\ VehicleMutableForFleetOps(v)
  /\ Begin(t, [op |-> "deactivate", on |-> v, to |-> vehStatus[v]])
  /\ UNCHANGED <<contractVars, vehicleVars, orderVars>>

deactivateWrite(t) ==
  /\ Running(t, {"deactivate"})
  /\ active' = active \ {tx[t].on}
  /\ End(t)
  /\ UNCHANGED <<contractVars, vehStatus, orderVars>>

FleetAdminNext ==
  \/ \E v \in Vehicles : activate(v)
  \/ \E t \in Tx, v \in Vehicles :
       \/ deactivateRead(t, v)
       \/ \E requested \in OperationalStatus : updateRead(t, v, requested)
  \/ \E t \in Tx : updateWrite(t) \/ deactivateWrite(t)
=============================================================================
