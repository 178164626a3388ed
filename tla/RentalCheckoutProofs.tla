-------------------------- MODULE RentalCheckoutProofs --------------------------
(***************************************************************************)
(* A payment is confirmed only for money that was collected for it, and an *)
(* offered session is the one its payment listens to, for any number of    *)
(* requests, payments, attempts, tries and crashes.                        *)
(***************************************************************************)
EXTENDS RentalCheckout, WellFoundedInduction, TLAPS

AttemptRow == [payment : Payments, status : AttemptStatus, consent : Consents]

\* What a job may rely on: its attempt belongs to its payment, an answer to
\* apply as paid comes from a session that was paid, and the worker ends a
\* payment, or binds it, for a session that has expired.
JobHolds(x) ==
  /\ job[x].op \in {"call", "keep", "late", "paid", "ended", "bind", "bindCancel"} =>
       /\ job[x].attempt \in Attempts
       /\ job[x].payment \in Payments
       /\ attempt[job[x].attempt].payment = job[x].payment
  /\ job[x].op = "cancel" => job[x].payment \in Payments
  /\ job[x].op = "paid" => session[job[x].attempt] = "paid"
  /\ x = Worker /\ job[x].op = "ended" => session[job[x].attempt] = "expired"
  /\ job[x].op \in {"bind", "bindCancel"} => session[job[x].attempt] = "expired"

\* References, sessions and events belong to attempts that exist.
RowsAgree ==
  /\ \A p \in Payments : ref[p] # 0 => attempt[ref[p]].payment = p
  /\ \A a \in Attempts : session[a] # "NONE" => attempt[a].payment \in Payments
  /\ \A a \in Attempts : event[a] # "NONE" => session[a] \in {"paid", "expired"}

\* An event the worker has claimed has a try left, and is taken up once.
ClaimsHold ==
  /\ \A a \in batch : event[a] # "NONE" /\ tries[a] < MaxTries
  /\ job[Worker] # Idle => /\ job[Worker].attempt \in Attempts \ batch
                           /\ event[job[Worker].attempt] # "NONE"
                           /\ tries[job[Worker].attempt] < MaxTries

CheckoutInvariant ==
  /\ TypeOK
  /\ \A x \in Actors : JobHolds(x)
  /\ RowsAgree
  /\ ClaimsHold
  /\ NothingSettlesUncollected
  /\ ReadyAttemptIsReferenced

-----------------------------------------------------------------------------
LEMMA Ids == /\ Payments \subseteq Nat /\ 0 \notin Payments
             /\ Attempts \subseteq Nat /\ 0 \notin Attempts
  BY CheckoutConstants DEF Payments, Attempts

\* The newest of some payments is one of them.
LEMMA MaxIsMember ==
  ASSUME NEW S, S \subseteq Payments, S # {}
  PROVE  Max(S) \in S
  <1> DEFINE T == {MaxPayments - p : p \in S}
             R == OpToRel(<, Nat)
  <1>1. T \subseteq Nat /\ T # {}
    BY CheckoutConstants DEF Payments
  <1>2. PICK d \in T : \A e \in T : ~(<<e, d>> \in R)
    BY <1>1, NatLessThanWellFounded, WFMin
  <1>3. PICK m \in S : d = MaxPayments - m
    BY <1>2
  <1>4. \A p \in S : ~(MaxPayments - p < MaxPayments - m)
    BY <1>1, <1>2, <1>3 DEF OpToRel
  <1>5. \A p \in S : m >= p
    BY <1>4, CheckoutConstants DEF Payments
  <1> QED
    BY <1>5 DEF Max

\* A payment's active attempts are rows.
LEMMA ClosedAttempts ==
  ASSUME TypeOK, NEW p \in Payments, NEW to \in AttemptStatus
  PROVE  /\ CloseAttempts(p, to) \in [Attempts -> {NoAttempt} \union AttemptRow]
         /\ \A a \in Attempts : /\ CloseAttempts(p, to)[a].payment = attempt[a].payment
                                /\ CloseAttempts(p, to)[a] = NoAttempt <=> attempt[a] = NoAttempt
                                /\ CloseAttempts(p, to)[a].status \in {to, attempt[a].status}
  <1>1. \A a \in Attempts : attempt[a] \in {NoAttempt} \union AttemptRow
    BY DEF TypeOK, AttemptRow
  <1>2. ASSUME NEW a \in ActiveAttempts(p)
        PROVE  attempt[a] \in AttemptRow
    BY <1>1, Ids DEF ActiveAttempts, NoAttempt
  <1>3. \A a \in Attempts : CloseAttempts(p, to)[a] =
          IF a \in ActiveAttempts(p) THEN [attempt[a] EXCEPT !.status = to] ELSE attempt[a]
    BY DEF CloseAttempts
  <1>4. ASSUME NEW a \in ActiveAttempts(p)
        PROVE  /\ [attempt[a] EXCEPT !.status = to] \in AttemptRow
               /\ [attempt[a] EXCEPT !.status = to].payment = attempt[a].payment
               /\ [attempt[a] EXCEPT !.status = to].status = to
    BY <1>2 DEF AttemptRow
  <1>5. \A a \in AttemptRow : a # NoAttempt
    BY Ids DEF AttemptRow, NoAttempt
  <1> QED
    BY <1>1, <1>2, <1>3, <1>4, <1>5 DEF CloseAttempts

-----------------------------------------------------------------------------
\* No step takes an attempt from its payment, or money back from a session, or
\* opens an expired one again.
Grows ==
  /\ \A a \in Attempts : attempt[a].payment \in Payments =>
                           attempt'[a].payment = attempt[a].payment
  /\ \A a \in Attempts : /\ session[a] = "paid" => session'[a] = "paid"
                         /\ session[a] = "expired" => session'[a] = "expired"
                         /\ session[a] # "NONE" => session'[a] # "NONE"

\* What is left to show of a step: its own job, the rows it writes, and the
\* properties where it confirms or offers something.
LEMMA OtherJobsHold ==
  ASSUME CheckoutInvariant, Grows,
         \A x \in Actors : job'[x] = job[x] \/ job'[x].op \in {"idle", "start", "claim", "expire", "done", "failed"}
                             \/ JobHolds(x)'
  PROVE  \A x \in Actors : JobHolds(x)'
  <1> SUFFICES ASSUME NEW x \in Actors, job'[x] = job[x]
               PROVE  JobHolds(x)'
    BY DEF JobHolds
  <1> QED
    BY DEF CheckoutInvariant, JobHolds, Grows

\* A step that neither confirms a payment nor offers a session.
LEMMA NothingSettled ==
  ASSUME CheckoutInvariant, TypeOK', Grows,
         Confirmed' \subseteq Confirmed, settled' = settled,
         contract' = "PAID" => contract = "PAID"
  PROVE  NothingSettlesUncollected'
  <1>1. ASSUME NEW p \in Payments, Collected(p) PROVE Collected(p)'
    <2>1. PICK a \in Attempts : attempt[a].payment = p /\ session[a] = "paid"
      BY <1>1 DEF Collected
    <2> QED
      BY <2>1 DEF Collected, Grows
  <1>2. Confirmed \union settled \subseteq Payments
    BY DEF Confirmed, CheckoutInvariant, TypeOK
  <1> QED
    BY <1>1, <1>2 DEF CheckoutInvariant, NothingSettlesUncollected

\* A reference that is set stays, or is taken by an expired session.
RefsStay ==
  \A p \in Payments : ref[p] # 0 =>
    ref'[p] = ref[p] \/ (ref'[p] \in Attempts /\ session'[ref'[p]] = "expired")

LEMMA NothingOffered ==
  ASSUME CheckoutInvariant, TypeOK', Grows, RefsStay,
         \A a \in Attempts : attempt'[a].status = "READY" => attempt[a].status = "READY"
  PROVE  ReadyAttemptIsReferenced'
  <1> SUFFICES ASSUME NEW a \in Attempts, attempt'[a].status = "READY"
               PROVE  ref'[attempt'[a].payment] = a \/ Overwritten(a)'
    BY DEF ReadyAttemptIsReferenced
  <1> DEFINE p == attempt[a].payment
  <1>1. attempt[a].status = "READY" /\ (ref[p] = a \/ Overwritten(a))
    BY DEF CheckoutInvariant, ReadyAttemptIsReferenced
  <1>2. attempt[a] \in AttemptRow
    BY <1>1 DEF CheckoutInvariant, TypeOK, NoAttempt, AttemptRow
  <1>3. p \in Payments /\ attempt'[a].payment = p
    BY <1>2 DEF Grows, AttemptRow
  <1>4. CASE ref'[p] \in Attempts /\ session'[ref'[p]] = "expired"
    BY <1>3, <1>4 DEF Overwritten
  <1>5. CASE ref[p] = a /\ ref'[p] = ref[p]
    BY <1>3, <1>5
  <1>6. CASE Overwritten(a) /\ ref'[p] = ref[p]
    BY <1>3, <1>6 DEF Overwritten, Grows
  <1>7. ref[p] # 0
    BY <1>1, <1>3, Ids DEF Overwritten
  <1> QED
    BY <1>1, <1>3, <1>4, <1>5, <1>6, <1>7 DEF RefsStay

-----------------------------------------------------------------------------
\* The worker's job keeps its event until it has recorded the outcome.
KeepsClaim(x) == x = Worker => job'[x] # Idle /\ job'[x].attempt = job[x].attempt

LEMMA ClaimsKept ==
  ASSUME CheckoutInvariant, UNCHANGED inbox,
         job'[Worker] = job[Worker] \/ (job[Worker] # Idle /\ KeepsClaim(Worker))
  PROVE  ClaimsHold'
  BY DEF CheckoutInvariant, ClaimsHold, inbox, KeepsClaim

LEMMA GotoMakes ==
  ASSUME TypeOK, NEW x \in Actors, NEW op, NEW p, NEW a, Goto(x, op, p, a)
  PROVE  /\ job'[x] = Job(op, p, a)
         /\ job'[x].op = op /\ job'[x].payment = p /\ job'[x].attempt = a
         /\ \A y \in Actors : y # x => job'[y] = job[y]
         /\ op # "idle" => job'[x] # Idle
  BY DEF TypeOK, Goto, Job, Idle

LEMMA GotoTyped ==
  ASSUME TypeOK, NEW x \in Actors, NEW op \in JobKind, NEW p \in {0} \union Payments,
         NEW a \in {0} \union Attempts, Goto(x, op, p, a)
  PROVE  job' \in [Actors -> [op : JobKind, payment : {0} \union Payments,
                              attempt : {0} \union Attempts]]
  <1>1. Job(op, p, a) \in [op : JobKind, payment : {0} \union Payments,
                           attempt : {0} \union Attempts]
    BY DEF Job
  <1> QED
    BY <1>1 DEF TypeOK, Goto

LEMMA RequestFinishes ==
  ASSUME CheckoutInvariant, NEW q \in Requests, Finish(q, "done")
  PROVE  /\ Goto(q, "idle", 0, 0)
         /\ job'[q].op = "idle"
         /\ \A y \in Actors : y # q => job'[y] = job[y]
         /\ job' \in [Actors -> [op : JobKind, payment : {0} \union Payments,
                                 attempt : {0} \union Attempts]]
         /\ q \in Actors /\ q # Worker
  <1>1. q \in Actors /\ q # Worker
    BY CheckoutConstants DEF Actors
  <1>2. Goto(q, "idle", 0, 0)
    BY <1>1 DEF Finish, Goto, Idle
  <1> QED
    BY <1>1, <1>2, GotoMakes, GotoTyped DEF CheckoutInvariant, JobKind

\* A step that only moves the job of an actor.
LEMMA JobMoves ==
  ASSUME CheckoutInvariant, NEW x \in Actors, NEW op \in JobKind,
         NEW p \in {0} \union Payments, NEW a \in {0} \union Attempts,
         Goto(x, op, p, a), x = Worker => job[x] # Idle /\ op # "idle" /\ a = job[x].attempt,
         UNCHANGED <<rental, row, ref, attempt, stripe, keys, inbox, crashes>>,
         op \in {"idle", "start", "claim", "expire", "done", "failed"} \/ JobHolds(x)'
  PROVE  CheckoutInvariant'
  <1> USE DEF rental, stripe, keys, inbox
  <1>1. Job(op, p, a) \in [op : JobKind, payment : {0} \union Payments, attempt : {0} \union Attempts]
    BY DEF Job
  <1>2. TypeOK'
    BY <1>1 DEF CheckoutInvariant, TypeOK, Goto
  <1>3. Grows
    BY DEF Grows
  <1>4. /\ job'[x].op = op /\ job'[x].attempt = a
        /\ \A y \in Actors : y # x => job'[y] = job[y]
        /\ op # "idle" => job'[x] # Idle
    BY GotoMakes DEF CheckoutInvariant
  <1>5. \A y \in Actors : JobHolds(y)'
    BY <1>3, <1>4, OtherJobsHold
  <1>6. ClaimsHold'
    BY <1>4, ClaimsKept DEF Actors, KeepsClaim
  <1>7. NothingSettlesUncollected'
    BY <1>2, <1>3, NothingSettled DEF Confirmed
  <1>8. ReadyAttemptIsReferenced'
    BY <1>2, <1>3, NothingOffered DEF RefsStay
  <1> QED
    BY <1>2, <1>5, <1>6, <1>7, <1>8 DEF CheckoutInvariant, RowsAgree

\* An actor's work ends.
LEMMA WorkEnds ==
  ASSUME CheckoutInvariant, NEW x \in Actors, NEW outcome \in {"done", "failed"},
         job[x] # Idle, Finish(x, outcome),
         UNCHANGED <<rental, row, ref, attempt, stripe, keys, inbox, crashes>>
  PROVE  CheckoutInvariant'
  <1>1. CASE x = Worker
    <2>1. job[x].attempt \in {0} \union Attempts
      BY DEF CheckoutInvariant, TypeOK
    <2>2. Goto(x, outcome, 0, job[x].attempt)
      BY <1>1 DEF Finish, Goto
    <2> QED
      BY <1>1, <2>1, <2>2, JobMoves DEF JobKind
  <1>2. CASE x # Worker
    BY <1>2, JobMoves DEF Finish, Goto, Idle, JobKind
  <1> QED
    BY <1>1, <1>2

LEMMA RequestJobs ==
  ASSUME CheckoutInvariant, NEW q \in Requests,
         \/ startCardPayment(q) \/ claimRead(q) \/ requestFails(q)
         \/ reconcilePaymentWithProvider(q) \/ abandonActiveRentalCheckout(q)
  PROVE  CheckoutInvariant'
  <1>1. q \in Actors /\ q # Worker
    BY CheckoutConstants DEF Actors
  <1>2. \A p \in Payments : ref[p] # 0 => ref[p] \in Attempts /\ attempt[ref[p]].payment = p
    BY DEF CheckoutInvariant, TypeOK, RowsAgree
  <1>3. Active # {} => Max(Active) \in Payments
    BY MaxIsMember DEF Active
  <1>4. ASSUME NEW op, NEW p, NEW a, Goto(q, op, p, a)
        PROVE  job'[q].op = op /\ job'[q].payment = p /\ job'[q].attempt = a
    BY <1>1, <1>4, GotoMakes DEF CheckoutInvariant
  <1>5. CASE startCardPayment(q)
    BY <1>1, <1>5, JobMoves DEF startCardPayment, JobKind
  <1>6. CASE requestFails(q)
    BY <1>1, <1>6, JobMoves DEF requestFails, JobKind, Goto, Idle
  <1>7. CASE abandonActiveRentalCheckout(q)
    <2>1. Goto(q, "cancel", Max(Active), 0)
      BY <1>7 DEF abandonActiveRentalCheckout
    <2>2. JobHolds(q)'
      BY <1>3, <1>4, <1>7, <2>1 DEF abandonActiveRentalCheckout, JobHolds
    <2> QED
      BY <1>1, <1>3, <1>7, <2>1, <2>2, JobMoves DEF abandonActiveRentalCheckout, JobKind
  <1>8. CASE reconcilePaymentWithProvider(q)
    <2>1. PICK p \in Active :
            /\ ref[p] # 0
            /\ \/ session[ref[p]] = "paid" /\ Goto(q, "paid", p, ref[p])
               \/ session[ref[p]] # "paid" /\ Goto(q, "ended", p, ref[p])
      BY <1>8 DEF reconcilePaymentWithProvider
    <2>2. p \in Payments /\ ref[p] \in Attempts /\ attempt[ref[p]].payment = p
      BY <1>2, <2>1 DEF Active
    <2>3. UNCHANGED <<rental, row, ref, attempt, stripe, keys, inbox, crashes>>
      BY <1>8 DEF reconcilePaymentWithProvider
    <2>4. JobHolds(q)'
      BY <1>1, <1>4, <2>1, <2>2, <2>3 DEF JobHolds, stripe
    <2> QED
      BY <1>1, <2>1, <2>2, <2>3, <2>4, JobMoves DEF JobKind
  <1>9. CASE claimRead(q)
    <2> DEFINE p == Max(Active)
    <2>1. UNCHANGED <<rental, row, ref, attempt, stripe, keys, inbox, crashes>>
      BY <1>9 DEF claimRead
    <2>2. \/ Goto(q, "claim", 0, 0)
          \/ p \in Payments /\ Goto(q, "claim", p, 0)
          \/ job[q].op = "start" /\ Finish(q, "done")
          \/ p \in Payments /\ ref[p] # 0 /\ session[ref[p]] = "paid" /\ Goto(q, "paid", p, ref[p])
          \/ p \in Payments /\ ref[p] # 0 /\ Goto(q, "ended", p, ref[p])
      BY <1>3, <1>9 DEF claimRead
    <2>3. CASE p \in Payments /\ ref[p] # 0 /\ session[ref[p]] = "paid" /\ Goto(q, "paid", p, ref[p])
      <3>1. JobHolds(q)'
        BY <1>2, <1>4, <2>1, <2>3 DEF JobHolds, stripe
      <3> QED
        BY <1>1, <1>2, <2>1, <2>3, <3>1, JobMoves DEF JobKind
    <2>4. CASE p \in Payments /\ ref[p] # 0 /\ Goto(q, "ended", p, ref[p])
      <3>1. JobHolds(q)'
        BY <1>1, <1>2, <1>4, <2>1, <2>4 DEF JobHolds, stripe
      <3> QED
        BY <1>1, <1>2, <2>1, <2>4, <3>1, JobMoves DEF JobKind
    <2>5. CASE job[q].op = "start" /\ Finish(q, "done")
      BY <1>1, <2>1, <2>5, WorkEnds DEF Idle, Job
    <2> QED
      BY <1>1, <2>1, <2>2, <2>3, <2>4, <2>5, JobMoves DEF JobKind
  <1> QED
    BY <1>5, <1>6, <1>7, <1>8, <1>9

-----------------------------------------------------------------------------
LEMMA StatusChanges ==
  ASSUME CheckoutInvariant, NEW a \in Attempts, attempt[a].payment \in Payments,
         NEW to \in AttemptStatus, attempt' = [attempt EXCEPT ![a].status = to]
  PROVE  /\ attempt' \in [Attempts -> {NoAttempt} \union AttemptRow]
         /\ \A b \in Attempts : attempt'[b].payment = attempt[b].payment
         /\ \A b \in Attempts \ {a} : attempt'[b] = attempt[b]
         /\ attempt'[a].status = to
  <1>1. attempt[a] \in AttemptRow
    BY Ids DEF CheckoutInvariant, TypeOK, NoAttempt, AttemptRow
  <1>2. /\ attempt'[a] \in AttemptRow
        /\ attempt'[a].payment = attempt[a].payment
        /\ attempt'[a].status = to
    BY <1>1 DEF AttemptRow, CheckoutInvariant, TypeOK
  <1> QED
    BY <1>2 DEF CheckoutInvariant, TypeOK, AttemptRow

LEMMA CallKeeps ==
  ASSUME CheckoutInvariant, NEW q \in Requests, createCheckoutSession(q)
  PROVE  CheckoutInvariant'
  <1> DEFINE p == job[q].payment
             a == job[q].attempt
             op == IF p \in Active THEN "keep" ELSE "late"
  <1> USE DEF createCheckoutSession, rental, keys, inbox, stripe
  <1>1. q \in Actors /\ q # Worker
    BY CheckoutConstants DEF Actors
  <1>2. a \in Attempts /\ p \in Payments /\ attempt[a].payment = p
    BY <1>1 DEF CheckoutInvariant, JobHolds
  <1>3. op \in {"keep", "late"} /\ Goto(q, op, p, a)
    OBVIOUS
  <1>4. /\ job'[q].op = op /\ job'[q].payment = p /\ job'[q].attempt = a
        /\ job'[q] = Job(op, p, a)
        /\ \A y \in Actors : y # q => job'[y] = job[y]
    BY <1>1, <1>3, GotoMakes DEF CheckoutInvariant
  <1>5. TypeOK'
    <2>1. job' \in [Actors -> [op : JobKind, payment : {0} \union Payments,
                               attempt : {0} \union Attempts]]
      BY <1>1, <1>2, <1>3, GotoTyped DEF CheckoutInvariant, JobKind
    <2> QED
      BY <2>1 DEF CheckoutInvariant, TypeOK
  <1>6. Grows
    BY <1>2 DEF Grows, CheckoutInvariant, TypeOK
  <1>7. \A x \in Actors : JobHolds(x)'
    BY <1>2, <1>4, <1>6, OtherJobsHold DEF JobHolds
  <1>8. ClaimsHold'
    BY <1>1, <1>4, ClaimsKept DEF Actors
  <1>9. RowsAgree'
    BY <1>2 DEF CheckoutInvariant, RowsAgree, TypeOK
  <1>10. NothingSettlesUncollected'
    BY <1>5, <1>6, NothingSettled DEF Confirmed
  <1>11. ReadyAttemptIsReferenced'
    BY <1>5, <1>6, NothingOffered DEF RefsStay
  <1> QED
    BY <1>5, <1>7, <1>8, <1>9, <1>10, <1>11 DEF CheckoutInvariant

LEMMA FailureKeeps ==
  ASSUME CheckoutInvariant, NEW q \in Requests, recordAttemptFailure(q)
  PROVE  CheckoutInvariant'
  <1> DEFINE a == job[q].attempt
  <1> USE DEF recordAttemptFailure, rental, keys, inbox, stripe
  <1>1. a \in Attempts /\ attempt[a].payment \in Payments
    BY RequestFinishes DEF CheckoutInvariant, JobHolds
  <1>2. /\ attempt' \in [Attempts -> {NoAttempt} \union AttemptRow]
        /\ \A b \in Attempts : attempt'[b].payment = attempt[b].payment
        /\ \A b \in Attempts \ {a} : attempt'[b] = attempt[b]
        /\ attempt'[a].status = "FAILED"
    BY <1>1, StatusChanges DEF AttemptStatus
  <1>3. TypeOK'
    BY <1>2, RequestFinishes DEF CheckoutInvariant, TypeOK, AttemptRow
  <1>4. Grows
    BY <1>2 DEF Grows
  <1>5. \A x \in Actors : JobHolds(x)'
    BY <1>4, RequestFinishes, OtherJobsHold
  <1>6. ClaimsHold'
    BY RequestFinishes, ClaimsKept DEF Actors
  <1>7. RowsAgree'
    BY <1>2 DEF CheckoutInvariant, RowsAgree, TypeOK
  <1>8. NothingSettlesUncollected'
    BY <1>3, <1>4, NothingSettled DEF Confirmed
  <1>9. ReadyAttemptIsReferenced'
    BY <1>2, <1>3, <1>4, NothingOffered DEF RefsStay
  <1> QED
    BY <1>3, <1>5, <1>6, <1>7, <1>8, <1>9 DEF CheckoutInvariant

LEMMA PersistKeeps ==
  ASSUME CheckoutInvariant, NEW q \in Requests, persistKeep(q)
  PROVE  CheckoutInvariant'
  <1> DEFINE p == job[q].payment
             a == job[q].attempt
  <1> USE DEF persistKeep, rental, keys, inbox
  <1>1. a \in Attempts /\ p \in Payments /\ attempt[a].payment = p
    BY RequestFinishes DEF CheckoutInvariant, JobHolds
  <1>2. /\ attempt' \in [Attempts -> {NoAttempt} \union AttemptRow]
        /\ \A b \in Attempts : attempt'[b].payment = attempt[b].payment
        /\ \A b \in Attempts \ {a} : attempt'[b] = attempt[b]
    BY <1>1, StatusChanges DEF AttemptStatus, ACTIVE_CHECKOUT_ATTEMPT_STATUSES
  <1>3. TypeOK'
    <2>1. row' \in [Payments -> RowStatus]
      BY <1>1 DEF CheckoutInvariant, TypeOK, RowStatus
    <2> QED
      BY <1>1, <1>2, <2>1, RequestFinishes DEF CheckoutInvariant, TypeOK, AttemptRow
  <1>4. Grows
    BY <1>2 DEF Grows
  <1>5. \A x \in Actors : JobHolds(x)'
    BY <1>4, RequestFinishes, OtherJobsHold
  <1>6. ClaimsHold'
    BY RequestFinishes, ClaimsKept DEF Actors
  <1>7. RowsAgree'
    BY <1>1, <1>2 DEF CheckoutInvariant, RowsAgree, TypeOK
  <1>8. NothingSettlesUncollected'
    BY <1>3, <1>4, NothingSettled DEF Confirmed, CheckoutInvariant, TypeOK
  <1>9. ASSUME NEW b \in Attempts, attempt'[b].status = "READY"
        PROVE  ref'[attempt'[b].payment] = b \/ Overwritten(b)'
    <2>1. CASE b = a
      BY <1>1, <1>2, <2>1 DEF CheckoutInvariant, TypeOK
    <2>2. CASE b # a
      <3>1. attempt[b].status = "READY" /\ (ref[attempt[b].payment] = b \/ Overwritten(b))
        BY <1>2, <1>9, <2>2 DEF CheckoutInvariant, ReadyAttemptIsReferenced
      <3>2. attempt[b].payment # p
        BY <2>2, <3>1 DEF ActiveAttempts, ACTIVE_CHECKOUT_ATTEMPT_STATUSES
      <3>3. \A r \in Payments \ {p} : ref'[r] = ref[r]
        BY <1>1 DEF CheckoutInvariant, TypeOK
      <3>4. attempt[b] \in AttemptRow
        BY <3>1 DEF CheckoutInvariant, TypeOK, NoAttempt, AttemptRow
      <3> QED
        BY <1>2, <3>1, <3>2, <3>3, <3>4 DEF Overwritten, AttemptRow
    <2> QED
      BY <2>1, <2>2
  <1> QED
    BY <1>3, <1>5, <1>6, <1>7, <1>8, <1>9 DEF CheckoutInvariant, ReadyAttemptIsReferenced

LEMMA LateKeeps ==
  ASSUME CheckoutInvariant, NEW q \in Requests, persistLate(q)
  PROVE  CheckoutInvariant'
  <1> DEFINE a == job[q].attempt
  <1> USE DEF persistLate, rental, keys, inbox, stripe
  <1>1. q \in Actors /\ q # Worker /\ a \in Attempts /\ attempt[a].payment \in Payments
    BY CheckoutConstants DEF Actors, CheckoutInvariant, JobHolds
  <1>2. /\ attempt' \in [Attempts -> {NoAttempt} \union AttemptRow]
        /\ \A b \in Attempts : attempt'[b].payment = attempt[b].payment
        /\ \A b \in Attempts \ {a} : attempt'[b] = attempt[b]
        /\ attempt'[a].status = "EXPIRED"
    BY <1>1, StatusChanges DEF AttemptStatus
  <1>3. /\ job'[q].op = "expire"
        /\ \A y \in Actors : y # q => job'[y] = job[y]
    BY <1>1, GotoMakes DEF CheckoutInvariant
  <1>4. TypeOK'
    <2>1. job' \in [Actors -> [op : JobKind, payment : {0} \union Payments,
                               attempt : {0} \union Attempts]]
      BY <1>1, GotoTyped DEF CheckoutInvariant, JobKind
    <2> QED
      BY <1>2, <2>1 DEF CheckoutInvariant, TypeOK, AttemptRow
  <1>5. Grows
    BY <1>2 DEF Grows
  <1>6. \A x \in Actors : JobHolds(x)'
    BY <1>3, <1>5, OtherJobsHold
  <1>7. ClaimsHold'
    BY <1>1, <1>3, ClaimsKept DEF Actors
  <1>8. RowsAgree'
    BY <1>2 DEF CheckoutInvariant, RowsAgree, TypeOK
  <1>9. NothingSettlesUncollected'
    BY <1>4, <1>5, NothingSettled DEF Confirmed
  <1>10. ReadyAttemptIsReferenced'
    BY <1>2, <1>4, <1>5, NothingOffered DEF RefsStay
  <1> QED
    BY <1>4, <1>6, <1>7, <1>8, <1>9, <1>10 DEF CheckoutInvariant

LEMMA ExpireKeeps ==
  ASSUME CheckoutInvariant, NEW q \in Requests, expireCheckoutSession(q)
  PROVE  CheckoutInvariant'
  <1> USE DEF expireCheckoutSession, rental, keys, inbox
  <1>1. TypeOK'
    BY RequestFinishes DEF CheckoutInvariant, TypeOK
  <1>2. Grows
    BY DEF Grows, CheckoutInvariant, TypeOK
  <1>3. \A x \in Actors : JobHolds(x)'
    BY <1>2, RequestFinishes, OtherJobsHold
  <1>4. ClaimsHold'
    BY RequestFinishes, ClaimsKept DEF Actors
  <1>5. RowsAgree'
    BY DEF CheckoutInvariant, RowsAgree, TypeOK
  <1>6. NothingSettlesUncollected'
    BY <1>1, <1>2, NothingSettled DEF Confirmed
  <1>7. ReadyAttemptIsReferenced'
    BY <1>1, <1>2, NothingOffered DEF RefsStay
  <1> QED
    BY <1>1, <1>3, <1>4, <1>5, <1>6, <1>7 DEF CheckoutInvariant

\* The payment and the attempts of a claim, once it is chosen.
LEMMA ClaimKeeps ==
  ASSUME CheckoutInvariant, NEW q \in Requests, NEW consent \in Consents,
         claimWrite(q, consent)
  PROVE  CheckoutInvariant'
  <1> USE DEF rental, keys, inbox, stripe
  <1>1. q \in Actors /\ q # Worker /\ job[q] # Idle
    BY CheckoutConstants DEF Actors, claimWrite, Idle, Job
  <1>2. UNCHANGED <<rental, ref, stripe, keys, inbox, crashes>>
    BY DEF claimWrite
  <1>3. ASSUME attempt' \in [Attempts -> {NoAttempt} \union AttemptRow],
               \A b \in Attempts : attempt[b].payment \in Payments =>
                                     attempt'[b].payment = attempt[b].payment,
               \A b \in Attempts : attempt'[b].status = "READY" => attempt[b].status = "READY",
               row' \in [Payments -> RowStatus], Confirmed' \subseteq Confirmed,
               NEW p \in Payments, NEW a \in Attempts, attempt'[a].payment = p,
               Goto(q, "call", p, a)
        PROVE  CheckoutInvariant'
    <2>1. /\ job'[q].op = "call" /\ job'[q].payment = p /\ job'[q].attempt = a
          /\ \A y \in Actors : y # q => job'[y] = job[y]
      BY <1>1, <1>3, GotoMakes DEF CheckoutInvariant
    <2>2. TypeOK'
      <3>1. job' \in [Actors -> [op : JobKind, payment : {0} \union Payments,
                                 attempt : {0} \union Attempts]]
        BY <1>1, <1>3, GotoTyped DEF CheckoutInvariant, JobKind
      <3> QED
        BY <1>2, <1>3, <3>1 DEF CheckoutInvariant, TypeOK, AttemptRow
    <2>3. Grows
      BY <1>2, <1>3 DEF Grows
    <2>4. \A x \in Actors : JobHolds(x)'
      BY <1>3, <2>1, <2>3, OtherJobsHold DEF JobHolds
    <2>5. ClaimsHold'
      BY <1>1, <1>2, <2>1, ClaimsKept DEF Actors
    <2>6. RowsAgree'
      BY <1>2, <1>3 DEF CheckoutInvariant, RowsAgree, TypeOK
    <2>7. NothingSettlesUncollected'
      BY <1>2, <1>3, <2>2, <2>3, NothingSettled
    <2>8. ReadyAttemptIsReferenced'
      BY <1>2, <1>3, <2>2, <2>3, NothingOffered DEF RefsStay
    <2> QED
      BY <2>2, <2>4, <2>5, <2>6, <2>7, <2>8 DEF CheckoutInvariant
  <1>4. PICK p \in Payments :
          \/ \E a \in ActiveAttempts(p) :
               /\ attempt' = [attempt EXCEPT ![a].status = "RECOVERING"]
               /\ Goto(q, "call", p, a)
               /\ UNCHANGED row
          \/ Finish(q, "done") /\ UNCHANGED <<row, attempt>>
          \/ \E to \in {"SUPERSEDED", "EXPIRED"} :
               createImmutableAttempt(q, p, consent, CloseAttempts(p, to))
    BY DEF claimWrite
  <1>5. ASSUME NEW a \in ActiveAttempts(p),
               attempt' = [attempt EXCEPT ![a].status = "RECOVERING"],
               Goto(q, "call", p, a), UNCHANGED row
        PROVE  CheckoutInvariant'
    <2>1. a \in Attempts /\ attempt[a].payment = p
      BY DEF ActiveAttempts
    <2>2. /\ attempt' \in [Attempts -> {NoAttempt} \union AttemptRow]
          /\ \A b \in Attempts : attempt'[b].payment = attempt[b].payment
          /\ \A b \in Attempts \ {a} : attempt'[b] = attempt[b]
          /\ attempt'[a].status = "RECOVERING"
      BY <1>5, <2>1, StatusChanges DEF AttemptStatus, ACTIVE_CHECKOUT_ATTEMPT_STATUSES
    <2>3. row' \in [Payments -> RowStatus] /\ Confirmed' \subseteq Confirmed
      BY <1>5 DEF CheckoutInvariant, TypeOK, Confirmed
    <2> QED
      BY <1>3, <1>5, <2>1, <2>2, <2>3
  <1>6. ASSUME NEW to \in {"SUPERSEDED", "EXPIRED"},
               createImmutableAttempt(q, p, consent, CloseAttempts(p, to))
        PROVE  CheckoutInvariant'
    <2> DEFINE others == CloseAttempts(p, to)
    <2>1. PICK a \in Attempts :
            /\ attempt[a] = NoAttempt
            /\ attempt' = [others EXCEPT ![a] = [payment |-> p, status |-> "PREPARING",
                                                 consent |-> consent]]
            /\ row' = [row EXCEPT ![p] = "PROCESSING"]
            /\ Goto(q, "call", p, a)
      BY <1>6 DEF createImmutableAttempt, First
    <2>2. /\ others \in [Attempts -> {NoAttempt} \union AttemptRow]
          /\ \A b \in Attempts : /\ others[b].payment = attempt[b].payment
                                 /\ others[b].status \in {to, attempt[b].status}
      BY ClosedAttempts DEF CheckoutInvariant, AttemptStatus
    <2>3. [payment |-> p, status |-> "PREPARING", consent |-> consent] \in AttemptRow
      BY DEF AttemptRow, AttemptStatus, ACTIVE_CHECKOUT_ATTEMPT_STATUSES
    <2>4. /\ attempt' \in [Attempts -> {NoAttempt} \union AttemptRow]
          /\ attempt'[a] = [payment |-> p, status |-> "PREPARING", consent |-> consent]
          /\ \A b \in Attempts \ {a} : attempt'[b] = others[b]
      BY <2>1, <2>2, <2>3
    <2>5. attempt[a].payment \notin Payments
      BY <2>1, Ids DEF NoAttempt
    <2>6. \A b \in Attempts : attempt'[b].status = "READY" => attempt[b].status = "READY"
      BY <2>2, <2>4
    <2>7. row' \in [Payments -> RowStatus] /\ Confirmed' \subseteq Confirmed
      BY <2>1 DEF CheckoutInvariant, TypeOK, Confirmed, RowStatus
    <2> QED
      BY <1>3, <2>1, <2>2, <2>4, <2>5, <2>6, <2>7
  <1>7. ASSUME Finish(q, "done"), UNCHANGED <<row, attempt>>
        PROVE  CheckoutInvariant'
    BY <1>1, <1>2, <1>7, WorkEnds
  <1> QED
    BY <1>4, <1>5, <1>6, <1>7

-----------------------------------------------------------------------------
\* Stripe, the hirer and the surroundings.
LEMMA SurroundingsKeep ==
  ASSUME CheckoutInvariant,
         \/ \E a \in Attempts : hirerPays(a) \/ sessionExpires(a) \/ insertEvent(a)
         \/ vehicleTaken \/ deletePendingRentalRequest
  PROVE  CheckoutInvariant'
  <1> USE DEF rental, keys, inbox, stripe, hirerPays, sessionExpires, insertEvent,
              vehicleTaken, deletePendingRentalRequest
  <1>1. TypeOK'
    BY DEF CheckoutInvariant, TypeOK, RowStatus
  <1>2. Grows
    BY DEF Grows, CheckoutInvariant, TypeOK
  <1>3. \A x \in Actors : JobHolds(x)'
    BY <1>2, OtherJobsHold
  <1>4. ClaimsHold'
    BY DEF ClaimsHold, CheckoutInvariant, TypeOK
  <1>5. RowsAgree'
    BY DEF RowsAgree, CheckoutInvariant, TypeOK
  <1>6. Confirmed' \subseteq Confirmed /\ settled' = settled /\ (contract' = "PAID" => contract = "PAID")
    BY DEF Confirmed
  <1>7. NothingSettlesUncollected'
    BY <1>1, <1>2, <1>6, NothingSettled
  <1>8. ReadyAttemptIsReferenced'
    BY <1>1, <1>2, NothingOffered DEF RefsStay
  <1> QED
    BY <1>1, <1>3, <1>4, <1>5, <1>7, <1>8 DEF CheckoutInvariant

LEMMA CrashKeeps ==
  ASSUME CheckoutInvariant, crash
  PROVE  CheckoutInvariant'
  <1> USE DEF rental, keys, stripe, crash
  <1>1. Idle \in [op : JobKind, payment : {0} \union Payments, attempt : {0} \union Attempts]
    BY DEF Idle, Job, JobKind
  <1>2. TypeOK'
    BY <1>1, CheckoutConstants DEF CheckoutInvariant, TypeOK
  <1>3. Grows
    BY DEF Grows
  <1>4. \A x \in Actors : JobHolds(x)'
    BY <1>3, OtherJobsHold DEF Idle, Job
  <1>5. NothingSettlesUncollected'
    BY <1>2, <1>3, NothingSettled DEF Confirmed
  <1>6. ReadyAttemptIsReferenced'
    BY <1>2, <1>3, NothingOffered DEF RefsStay
  <1> QED
    BY <1>2, <1>4, <1>5, <1>6 DEF CheckoutInvariant, RowsAgree, ClaimsHold, Actors

-----------------------------------------------------------------------------
LEMMA FinishMakes ==
  ASSUME CheckoutInvariant, NEW x \in Actors, NEW outcome \in {"done", "failed"},
         Finish(x, outcome), job[x] # Idle
  PROVE  /\ job'[x].op \in {"idle", "done", "failed"}
         /\ \A y \in Actors : y # x => job'[y] = job[y]
         /\ job' \in [Actors -> [op : JobKind, payment : {0} \union Payments,
                                 attempt : {0} \union Attempts]]
         /\ KeepsClaim(x)
  <1>1. CASE x = Worker
    <2>1. job[x].attempt \in {0} \union Attempts
      BY DEF CheckoutInvariant, TypeOK
    <2>2. Goto(x, outcome, 0, job[x].attempt)
      BY <1>1 DEF Finish, Goto
    <2>3. /\ job'[x].op = outcome /\ job'[x].attempt = job[x].attempt /\ job'[x] # Idle
          /\ \A y \in Actors : y # x => job'[y] = job[y]
      BY <2>2, GotoMakes DEF CheckoutInvariant
    <2>4. job' \in [Actors -> [op : JobKind, payment : {0} \union Payments,
                               attempt : {0} \union Attempts]]
      BY <2>1, <2>2, GotoTyped DEF CheckoutInvariant, JobKind
    <2> QED
      BY <2>3, <2>4 DEF KeepsClaim
  <1>2. CASE x # Worker
    <2>1. Goto(x, "idle", 0, 0)
      BY <1>2 DEF Finish, Goto, Idle
    <2> QED
      BY <1>2, <2>1, GotoMakes, GotoTyped DEF CheckoutInvariant, JobKind, KeepsClaim
  <1> QED
    BY <1>1, <1>2

\* Binding keeps a reference that is set.
LEMMA Binding ==
  ASSUME CheckoutInvariant, NEW x \in Actors, job[x].op = "paid", Bound(x), BindReference(x)
  PROVE  /\ ref' \in [Payments -> {0} \union Attempts]
         /\ \A p \in Payments : ref[p] # 0 => ref'[p] = ref[p]
         /\ \A p \in Payments : ref'[p] # 0 => attempt[ref'[p]].payment = p
  <1>1. /\ job[x].attempt \in Attempts /\ job[x].payment \in Payments
        /\ attempt[job[x].attempt].payment = job[x].payment
    BY DEF CheckoutInvariant, JobHolds
  <1> QED
    BY <1>1 DEF CheckoutInvariant, TypeOK, RowsAgree, Bound, BindReference

LEMMA ConfirmKeeps ==
  ASSUME CheckoutInvariant, NEW x \in Actors, confirmPayment(x)
  PROVE  CheckoutInvariant'
  <1> DEFINE p == job[x].payment
             a == job[x].attempt
  <1> USE DEF confirmPayment, inbox, stripe
  <1>1. /\ job[x] # Idle
        /\ p \in Payments /\ a \in Attempts
        /\ attempt[a].payment = p /\ session[a] = "paid"
    BY DEF CheckoutInvariant, JobHolds, Idle, Job
  <1>2. /\ attempt' \in [Attempts -> {NoAttempt} \union AttemptRow]
        /\ \A b \in Attempts : /\ attempt'[b].payment = attempt[b].payment
                               /\ attempt'[b].status \in {"COMPLETED", attempt[b].status}
    BY <1>1, ClosedAttempts DEF CheckoutInvariant, AttemptStatus
  <1>3. TypeOK'
    <2>1. /\ row' \in [Payments -> RowStatus]
          /\ contract' \in {"SIGNED", "PAID", "DELETED"}
          /\ settled' \subseteq Payments
      BY <1>1 DEF CheckoutInvariant, TypeOK, RowStatus
    <2> QED
      BY <1>1, <1>2, <2>1, Binding, FinishMakes DEF CheckoutInvariant, TypeOK, AttemptRow
  <1>4. Grows
    BY <1>2 DEF Grows
  <1>5. \A y \in Actors : JobHolds(y)'
    BY <1>1, <1>4, FinishMakes, OtherJobsHold
  <1>6. ClaimsHold'
    BY <1>1, FinishMakes, ClaimsKept DEF Actors
  <1>7. RowsAgree'
    BY <1>2, Binding DEF CheckoutInvariant, RowsAgree, TypeOK
  <1>8. NothingSettlesUncollected'
    <2>1. ASSUME NEW r \in Payments, Collected(r) \/ r = p PROVE Collected(r)'
      BY <1>1, <1>2, <2>1 DEF Collected
    <2>2. ASSUME NEW r \in (Confirmed \union settled)'
          PROVE  r \in Payments /\ (r \in Confirmed \union settled \/ r = p)
      BY <1>1, <2>2 DEF Confirmed, CheckoutInvariant, TypeOK
    <2>3. \A r \in (Confirmed \union settled)' : Collected(r)'
      BY <2>1, <2>2 DEF NothingSettlesUncollected, CheckoutInvariant
    <2>4. p \in settled'
      OBVIOUS
    <2> QED
      BY <2>3, <2>4 DEF NothingSettlesUncollected
  <1>9. ReadyAttemptIsReferenced'
    BY <1>2, <1>3, <1>4, Binding, NothingOffered DEF RefsStay
  <1> QED
    BY <1>3, <1>5, <1>6, <1>7, <1>8, <1>9 DEF CheckoutInvariant

LEMMA ConfirmNothingKeeps ==
  ASSUME CheckoutInvariant, NEW x \in Actors, confirmNothing(x)
  PROVE  CheckoutInvariant'
  <1> USE DEF confirmNothing, inbox, stripe, rental, keys
  <1>1. job[x] # Idle
    BY DEF Idle, Job
  <1>2. TypeOK'
    BY <1>1, Binding, FinishMakes DEF CheckoutInvariant, TypeOK
  <1>3. Grows
    BY DEF Grows
  <1>4. \A y \in Actors : JobHolds(y)'
    BY <1>1, <1>3, FinishMakes, OtherJobsHold
  <1>5. ClaimsHold'
    BY <1>1, FinishMakes, ClaimsKept DEF Actors
  <1>6. RowsAgree'
    BY Binding DEF CheckoutInvariant, RowsAgree
  <1>7. NothingSettlesUncollected'
    BY <1>2, <1>3, NothingSettled DEF Confirmed
  <1>8. ReadyAttemptIsReferenced'
    BY <1>2, <1>3, Binding, NothingOffered DEF RefsStay
  <1> QED
    BY <1>2, <1>4, <1>5, <1>6, <1>7, <1>8 DEF CheckoutInvariant

LEMMA AnswersKeep ==
  ASSUME CheckoutInvariant, NEW x \in Actors,
         confirmFails(x) \/ endRead(x) \/ markFails(x)
  PROVE  CheckoutInvariant'
  <1> DEFINE p == job[x].payment
  <1>1. job[x] # Idle
    BY DEF confirmFails, endRead, markFails, Idle, Job
  <1>2. UNCHANGED <<rental, row, ref, attempt, stripe, keys, inbox, crashes>>
    BY DEF confirmFails, endRead, markFails
  <1>3. \/ Finish(x, "done") \/ Finish(x, "failed")
        \/ endRead(x) /\ Goto(x, "cancel", p, IF x = Worker THEN job[x].attempt ELSE 0)
        \/ \E op \in {"bind", "bindCancel"} :
             endRead(x) /\ x = Worker /\ Goto(x, op, p, job[x].attempt)
    BY DEF confirmFails, endRead, markFails
  <1>4. CASE endRead(x) /\ Goto(x, "cancel", p, IF x = Worker THEN job[x].attempt ELSE 0)
    <2>1. p \in Payments /\ job[x].attempt \in Attempts
      BY <1>4 DEF endRead, CheckoutInvariant, JobHolds
    <2>2. JobHolds(x)'
      BY <1>4, <2>1, GotoMakes DEF JobHolds, CheckoutInvariant
    <2> QED
      BY <1>1, <1>2, <1>4, <2>1, <2>2, JobMoves DEF JobKind
  <1>5. ASSUME NEW op \in {"bind", "bindCancel"},
               endRead(x), x = Worker, Goto(x, op, p, job[x].attempt)
        PROVE  CheckoutInvariant'
    <2>1. /\ p \in Payments /\ job[x].attempt \in Attempts
          /\ attempt[job[x].attempt].payment = p
          /\ session[job[x].attempt] = "expired"
      BY <1>5 DEF endRead, CheckoutInvariant, JobHolds
    <2>2. JobHolds(x)'
      BY <1>2, <1>5, <2>1, GotoMakes DEF JobHolds, CheckoutInvariant, stripe
    <2> QED
      BY <1>1, <1>2, <1>5, <2>1, <2>2, JobMoves DEF JobKind
  <1> QED
    BY <1>1, <1>2, <1>3, <1>4, <1>5, WorkEnds

\* What the event of an expired session may do to the reference.
LEMMA Rebinding ==
  ASSUME CheckoutInvariant, NEW x \in Actors, job[x].op \in {"bind", "bindCancel"},
         ref' = [ref EXCEPT ![job[x].payment] = job[x].attempt], UNCHANGED session
  PROVE  /\ ref' \in [Payments -> {0} \union Attempts]
         /\ RefsStay
         /\ \A p \in Payments : ref'[p] # 0 => attempt[ref'[p]].payment = p
  <1>1. /\ job[x].attempt \in Attempts /\ job[x].payment \in Payments
        /\ attempt[job[x].attempt].payment = job[x].payment
        /\ session[job[x].attempt] = "expired"
    BY DEF CheckoutInvariant, JobHolds
  <1> QED
    BY <1>1 DEF CheckoutInvariant, TypeOK, RowsAgree, RefsStay

LEMMA BindKeeps ==
  ASSUME CheckoutInvariant, NEW x \in Actors, bindEndedPayment(x)
  PROVE  CheckoutInvariant'
  <1> USE DEF bindEndedPayment, inbox, stripe, rental, keys
  <1>1. job[x] # Idle
    BY DEF Idle, Job
  <1>2. TypeOK'
    BY <1>1, Rebinding, FinishMakes DEF CheckoutInvariant, TypeOK
  <1>3. Grows
    BY DEF Grows
  <1>4. \A y \in Actors : JobHolds(y)'
    BY <1>1, <1>3, FinishMakes, OtherJobsHold
  <1>5. ClaimsHold'
    BY <1>1, FinishMakes, ClaimsKept DEF Actors
  <1>6. RowsAgree'
    BY Rebinding DEF CheckoutInvariant, RowsAgree
  <1>7. NothingSettlesUncollected'
    BY <1>2, <1>3, NothingSettled DEF Confirmed
  <1>8. ReadyAttemptIsReferenced'
    BY <1>2, <1>3, Rebinding, NothingOffered
  <1> QED
    BY <1>2, <1>4, <1>5, <1>6, <1>7, <1>8 DEF CheckoutInvariant

LEMMA EndKeeps ==
  ASSUME CheckoutInvariant, NEW x \in Actors, markPaymentTerminal(x)
  PROVE  CheckoutInvariant'
  <1> DEFINE p == job[x].payment
  <1> USE DEF markPaymentTerminal, inbox, stripe, rental
  <1>1. job[x] # Idle /\ p \in Payments
    BY DEF CheckoutInvariant, JobHolds, Idle, Job
  <1>10. /\ ref' \in [Payments -> {0} \union Attempts]
         /\ RefsStay
         /\ \A r \in Payments : ref'[r] # 0 => attempt[ref'[r]].payment = r
    <2>1. CASE job[x].op = "bindCancel"
      BY <2>1, Rebinding
    <2>2. CASE ref' = ref
      BY <2>2 DEF CheckoutInvariant, TypeOK, RowsAgree, RefsStay
    <2> QED
      BY <2>1, <2>2
  <1>2. /\ attempt' \in [Attempts -> {NoAttempt} \union AttemptRow]
        /\ \A b \in Attempts : /\ attempt'[b].payment = attempt[b].payment
                               /\ attempt'[b].status \in {"EXPIRED", attempt[b].status}
    BY <1>1, ClosedAttempts DEF CheckoutInvariant, AttemptStatus
  <1>3. TypeOK'
    <2>1. row' \in [Payments -> RowStatus] /\ failedOnce' \subseteq Payments
      BY <1>1 DEF CheckoutInvariant, TypeOK, RowStatus
    <2> QED
      BY <1>1, <1>2, <1>10, <2>1, FinishMakes DEF CheckoutInvariant, TypeOK, AttemptRow
  <1>4. Grows
    BY <1>2 DEF Grows
  <1>5. \A y \in Actors : JobHolds(y)'
    BY <1>1, <1>4, FinishMakes, OtherJobsHold
  <1>6. ClaimsHold'
    BY <1>1, FinishMakes, ClaimsKept DEF Actors
  <1>7. RowsAgree'
    BY <1>2, <1>10 DEF CheckoutInvariant, RowsAgree, TypeOK
  <1>8. NothingSettlesUncollected'
    BY <1>3, <1>4, NothingSettled DEF Confirmed, CheckoutInvariant, TypeOK
  <1>9. ReadyAttemptIsReferenced'
    BY <1>2, <1>3, <1>4, <1>10, NothingOffered
  <1> QED
    BY <1>3, <1>5, <1>6, <1>7, <1>8, <1>9 DEF CheckoutInvariant

-----------------------------------------------------------------------------
\* The worker's steps on the inbox.
LEMMA WorkerKeeps ==
  ASSUME CheckoutInvariant,
         \/ claimBatch \/ markProcessed \/ markRetry
         \/ \E a \in Attempts : applyInboxPaymentEvent(a)
  PROVE  CheckoutInvariant'
  <1> USE DEF rental, stripe, keys
  <1>1. Worker \in Actors
    BY DEF Actors
  <1>2. UNCHANGED <<rental, row, ref, attempt, stripe, keys, crashes>>
    BY DEF claimBatch, applyInboxPaymentEvent, markProcessed, markRetry
  <1>3. Grows
    BY <1>2 DEF Grows
  <1>4. ASSUME TypeOK', \A x \in Actors : JobHolds(x)', ClaimsHold',
               \A a \in Attempts : event'[a] # "NONE" => event[a] # "NONE"
        PROVE  CheckoutInvariant'
    <2>1. RowsAgree'
      BY <1>2, <1>4 DEF CheckoutInvariant, RowsAgree
    <2>2. NothingSettlesUncollected'
      BY <1>2, <1>3, <1>4, NothingSettled DEF Confirmed
    <2>3. ReadyAttemptIsReferenced'
      BY <1>2, <1>3, <1>4, NothingOffered DEF RefsStay
    <2> QED
      BY <1>4, <2>1, <2>2, <2>3 DEF CheckoutInvariant
  <1>5. Idle \in [op : JobKind, payment : {0} \union Payments, attempt : {0} \union Attempts]
    BY DEF Idle, Job, JobKind
  <1>6. CASE claimBatch
    <2>1. PICK due \in SUBSET {a \in Attempts : /\ event[a] \in {"PENDING", "FAILED"}
                                                /\ tries[a] < MaxTries} :
            /\ batch' = due
            /\ event' = [a \in Attempts |-> IF a \in due THEN "PROCESSING" ELSE event[a]]
      BY <1>6 DEF claimBatch
    <2>2. job[Worker] = Idle /\ job' = job /\ tries' = tries
      BY <1>6 DEF claimBatch
    <2>3. TypeOK'
      BY <1>2, <2>1, <2>2 DEF CheckoutInvariant, TypeOK
    <2>4. \A x \in Actors : JobHolds(x)'
      BY <1>3, <2>2, OtherJobsHold
    <2>5. ClaimsHold'
      BY <2>1, <2>2 DEF ClaimsHold
    <2> QED
      BY <1>4, <2>1, <2>3, <2>4, <2>5
  <1>7. ASSUME NEW a \in Attempts, applyInboxPaymentEvent(a)
        PROVE  CheckoutInvariant'
    <2> DEFINE op == IF session[a] = "paid" THEN "paid" ELSE "ended"
    <2>1. /\ a \in batch /\ batch' = batch \ {a} /\ event' = event /\ tries' = tries
          /\ Goto(Worker, op, attempt[a].payment, a)
      BY <1>7 DEF applyInboxPaymentEvent
    <2>2. /\ attempt[a].payment \in Payments /\ tries[a] < MaxTries
          /\ op = "ended" => session[a] = "expired"
      BY <2>1 DEF CheckoutInvariant, RowsAgree, ClaimsHold
    <2>3. /\ job'[Worker].op = op /\ job'[Worker].payment = attempt[a].payment
          /\ job'[Worker].attempt = a
          /\ \A y \in Actors : y # Worker => job'[y] = job[y]
      BY <1>1, <2>1, GotoMakes DEF CheckoutInvariant
    <2>4. TypeOK'
      <3>1. job' \in [Actors -> [op : JobKind, payment : {0} \union Payments,
                                 attempt : {0} \union Attempts]]
        BY <1>1, <2>1, <2>2, GotoTyped DEF CheckoutInvariant, JobKind
      <3> QED
        BY <1>2, <2>1, <3>1 DEF CheckoutInvariant, TypeOK
    <2>5. \A x \in Actors : JobHolds(x)'
      <3>1. JobHolds(Worker)'
        BY <1>2, <2>2, <2>3 DEF JobHolds
      <3> QED
        BY <1>3, <2>3, <3>1, OtherJobsHold
    <2>6. ClaimsHold'
      BY <2>1, <2>2, <2>3 DEF CheckoutInvariant, ClaimsHold
    <2> QED
      BY <1>4, <2>1, <2>4, <2>5, <2>6
  <1>8. CASE markProcessed \/ markRetry
    <2> DEFINE a == job[Worker].attempt
    <2>1. /\ job' = [job EXCEPT ![Worker] = Idle] /\ batch' = batch
          /\ \/ event' = [event EXCEPT ![a] = "PROCESSED"] /\ tries' = tries
             \/ event' = [event EXCEPT ![a] = "FAILED"] /\ tries' = [tries EXCEPT ![a] = @ + 1]
      BY <1>8 DEF markProcessed, markRetry
    <2>2. a \in Attempts /\ a \notin batch /\ tries[a] < MaxTries /\ event[a] # "NONE"
      BY <1>8 DEF markProcessed, markRetry, CheckoutInvariant, ClaimsHold, Idle, Job
    <2>3. TypeOK'
      <3>1. tries \in [Attempts -> 0..MaxTries] /\ MaxTries \in Nat
        BY CheckoutConstants DEF CheckoutInvariant, TypeOK
      <3>2. tries' \in [Attempts -> 0..MaxTries]
        BY <2>1, <2>2, <3>1
      <3>3. job' \in [Actors -> [op : JobKind, payment : {0} \union Payments,
                                 attempt : {0} \union Attempts]]
        BY <1>5, <2>1 DEF CheckoutInvariant, TypeOK
      <3> QED
        BY <1>2, <2>1, <2>2, <3>2, <3>3 DEF CheckoutInvariant, TypeOK
    <2>4. \A x \in Actors : JobHolds(x)'
      BY <1>3, <2>1, OtherJobsHold DEF Idle, Job
    <2>5. ClaimsHold'
      BY <1>1, <2>1, <2>2 DEF CheckoutInvariant, ClaimsHold, TypeOK
    <2> QED
      BY <1>4, <2>1, <2>2, <2>3, <2>4, <2>5 DEF CheckoutInvariant, TypeOK
  <1> QED
    BY <1>6, <1>7, <1>8

-----------------------------------------------------------------------------
LEMMA CheckoutInit == Init => CheckoutInvariant
  <1> SUFFICES ASSUME Init PROVE CheckoutInvariant
    OBVIOUS
  <1>1. Idle \in [op : JobKind, payment : {0} \union Payments, attempt : {0} \union Attempts]
    BY DEF Idle, Job, JobKind
  <1>2. TypeOK
    BY <1>1, CheckoutConstants DEF Init, TypeOK, RowStatus
  <1>3. \A x \in Actors : JobHolds(x)
    BY DEF Init, JobHolds, Idle, Job
  <1>4. NothingSettlesUncollected /\ ReadyAttemptIsReferenced
    BY DEF Init, NothingSettlesUncollected, ReadyAttemptIsReferenced, Confirmed, NoAttempt
  <1> QED
    BY <1>2, <1>3, <1>4 DEF CheckoutInvariant, Init, RowsAgree, ClaimsHold, Actors

LEMMA CheckoutStep == CheckoutInvariant /\ [Next]_vars => CheckoutInvariant'
  <1> SUFFICES ASSUME CheckoutInvariant, [Next]_vars PROVE CheckoutInvariant'
    OBVIOUS
  <1>1. ASSUME NEW q \in Requests, Request(q) PROVE CheckoutInvariant'
    BY <1>1, RequestJobs, ClaimKeeps, CallKeeps, FailureKeeps, PersistKeeps, LateKeeps, ExpireKeeps
       DEF Request
  <1>2. ASSUME NEW x \in Actors, Apply(x) PROVE CheckoutInvariant'
    BY <1>2, ConfirmKeeps, ConfirmNothingKeeps, AnswersKeep, BindKeeps, EndKeeps DEF Apply
  <1>3. CASE UNCHANGED vars
    <2>1. UNCHANGED <<contract, vehicleFree, row, ref, attempt, session, stored, failedOnce,
                      settled, event, tries, batch, job, crashes>>
      BY <1>3 DEF vars
    <2> QED
      BY <2>1
         DEF CheckoutInvariant, TypeOK, JobHolds, RowsAgree, ClaimsHold, Confirmed,
             NothingSettlesUncollected, Collected, ReadyAttemptIsReferenced, Overwritten
  <1> QED
    BY <1>1, <1>2, <1>3, SurroundingsKeep, CrashKeeps, WorkerKeeps
       DEF Next, WorkerStep, Actors

\* The rows, sessions, events and jobs keep their types, whatever the number of
\* requests and the order of their statements.
THEOREM CheckoutIsTyped == Spec => []TypeOK
  <1>1. CheckoutInvariant => TypeOK
    BY DEF CheckoutInvariant
  <1> QED
    BY <1>1, CheckoutInit, CheckoutStep, PTL DEF Spec

\* No payment is confirmed, and no contract PAID, but for money that Stripe
\* collected for that payment, whichever polls, webhooks, supersessions,
\* abandonments and crashes come between.
THEOREM OnlyCollectedMoneySettles == Spec => []NothingSettlesUncollected
  <1>1. CheckoutInvariant => NothingSettlesUncollected
    BY DEF CheckoutInvariant
  <1> QED
    BY <1>1, CheckoutInit, CheckoutStep, PTL DEF Spec

\* The event of an offered session is refused as another session's only where
\* the late event of an expired session took the reference back: no other step
\* of any request, poll, webhook or crash separates the two.
THEOREM OfferedSessionIsHeard == Spec => []ReadyAttemptIsReferenced
  <1>1. CheckoutInvariant => ReadyAttemptIsReferenced
    BY DEF CheckoutInvariant
  <1> QED
    BY <1>1, CheckoutInit, CheckoutStep, PTL DEF Spec
=============================================================================
