------------------------- MODULE MCContractSettlement -------------------------
(* Instances of ContractSettlement for TLC.                                 *)
EXTENDS ContractSettlement

CONSTANTS r1, f1, m1, l1
=============================================================================
