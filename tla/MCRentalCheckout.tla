--------------------------- MODULE MCRentalCheckout ---------------------------
(* Instances of RentalCheckout for TLC.                                     *)
EXTENDS RentalCheckout, TLC

CONSTANTS q1, q2, v2consent, other

RaceSymmetry == Permutations(Requests) \union Permutations(Consents)
=============================================================================
