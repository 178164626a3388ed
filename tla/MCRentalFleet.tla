----------------------------- MODULE MCRentalFleet -----------------------------
(* Instances of RentalFleet for TLC: one vehicle, the case in which every    *)
(* lock and every guard is contended.                                        *)
EXTENDS RentalFleet, TLC

CONSTANTS c1, c2, v1, m1, m2, t1, t2, t3

OneVehicle == [c \in Contracts |-> v1]
OneWorkshopVehicle == [m \in Orders |-> v1]
NoContracts == {}
NoOrders == {}
OnlyC1 == {c1}
OnlyC2 == {c2}
OnlyM1 == {m1}

TxSymmetry == Permutations(Tx)
=============================================================================
