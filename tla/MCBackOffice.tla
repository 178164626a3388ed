----------------------------- MODULE MCBackOffice -----------------------------
(* Instances of BackOffice for TLC.                                         *)
EXTENDS BackOffice

CONSTANTS c1, c2, w1, w2, r1, r2, a1, a2

\* Two changes of one contract, and of two contracts whose invoices compete for a
\* number.
Change(kind, c) == [kind |-> kind, contract |-> c]
TwoChanges == {
  <<Change("invoice", c1), Change("shared", c1)>>,
  <<Change("invoice", c1), Change("shared", c2)>> }
=============================================================================
