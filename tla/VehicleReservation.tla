--------------------------- MODULE VehicleReservation ---------------------------
(***************************************************************************)
(* What the fleet promises about a vehicle.  It is reserved for at most    *)
(* one contract at a time; only that contract's hirer is handed the        *)
(* vehicle; and a reservation ends in no other way than by the vehicle     *)
(* coming back from that hirer.                                            *)
(***************************************************************************)
CONSTANTS Contracts, Vehicles

VARIABLES
  reserved,  \* per vehicle, the contracts it is reserved for
  held       \* per vehicle, the contracts whose hirer has it

vars == <<reserved, held>>

Init ==
  /\ reserved = [v \in Vehicles |-> {}]
  /\ held = [v \in Vehicles |-> {}]

Reserve(v, c) ==
  /\ reserved[v] = {}
  /\ reserved' = [reserved EXCEPT ![v] = {c}]
  /\ UNCHANGED held

HandOver(v, c) ==
  /\ reserved[v] = {c}
  /\ held[v] = {}
  /\ held' = [held EXCEPT ![v] = {c}]
  /\ UNCHANGED reserved

TakeBack(v, c) ==
  /\ reserved[v] = {c}
  /\ held[v] = {c}
  /\ reserved' = [reserved EXCEPT ![v] = {}]
  /\ held' = [held EXCEPT ![v] = {}]

Next == \E v \in Vehicles, c \in Contracts : Reserve(v, c) \/ HandOver(v, c) \/ TakeBack(v, c)

Spec == Init /\ [][Next]_vars
=============================================================================
