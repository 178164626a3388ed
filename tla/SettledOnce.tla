----------------------------- MODULE SettledOnce -----------------------------
(***************************************************************************)
(* What the end of a contract promises, whatever moves the money: a        *)
(* renewal extends a running rental only, an item is paid by one payment,  *)
(* and a contract closes with every priced renewal paid.  The desk and the *)
(* settlement may contest a renewal nobody has paid, and then both collect *)
(* it; nothing is collected a third time.                                  *)
(***************************************************************************)
CONSTANTS Payments, Items, Renewals, Free

VARIABLES
  phase,     \* running, returned or closed
  extended,  \* renewals that extended the rental
  payers,    \* payments that were confirmed for an item
  contested  \* renewals that two transactions were about to collect at once

vars == <<phase, extended, payers, contested>>

Unpaid(S) == \A i \in S : payers[i] = {}
PaidOnce(S) == \A i \in S : \A p, q \in payers[i] : p = q
Paid(p, S) == [i \in Items |-> IF i \in S THEN payers[i] \union {p} ELSE payers[i]]

Init ==
  /\ phase = "running"
  /\ extended = {}
  /\ payers = [i \in Items |-> {}]
  /\ contested = {}

Extend(r) ==
  /\ phase = "running"
  /\ extended' = extended \union {r}

Collect(p, S) ==
  /\ Unpaid(S \ contested)
  /\ PaidOnce(S)
  /\ payers' = Paid(p, S)

Contest(R) ==
  /\ phase = "returned"
  /\ Unpaid(R)
  /\ contested' = contested \union R

Close ==
  /\ phase = "returned"
  /\ \A r \in extended \ Free : payers'[r] # {}
  /\ phase' = "closed"

Collecting ==
  \/ \E p \in Payments, r \in Renewals : Extend(r) /\ Collect(p, {r}) /\ UNCHANGED phase
  \/ \E p \in Payments, S \in SUBSET Items : Collect(p, S) /\ UNCHANGED <<phase, extended>>
  \/ \E p \in Payments, S \in SUBSET Items : Collect(p, S) /\ Close /\ UNCHANGED extended

Next ==
  \/ phase = "running" /\ phase' = "returned" /\ UNCHANGED <<extended, payers, contested>>
  \/ \E r \in Renewals : Extend(r) /\ UNCHANGED <<phase, payers, contested>>
  \/ Collecting /\ UNCHANGED contested
  \/ \E R \in SUBSET Renewals : Contest(R) /\ UNCHANGED <<phase, extended, payers>>
  \/ Close /\ UNCHANGED <<extended, payers, contested>>

Spec == Init /\ [][Next]_vars
=============================================================================
