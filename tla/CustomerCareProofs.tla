-------------------------- MODULE CustomerCareProofs --------------------------
(***************************************************************************)
(* Complaints run one clock, reported statuses of a message are shown, and  *)
(* a customer is on one call at a time: for any number of cycles, messages, *)
(* webhooks at once, agents, requests, calls and callbacks.                 *)
(***************************************************************************)
EXTENDS ComplaintCase, MessageDelivery, CallQueue, FiniteSetTheorems, TLAPS

\* The evaluation writes the level after the one it read below the bound.
CaseInvariant ==
  /\ ComplaintTypeOK
  /\ OneClockRuns
  /\ FirstResponseAgrees
  /\ sla.next = "level" => sla.level < MaxLevel

\* While the complaint is not closed, its latest cycle is the one that runs.
LEMMA CurrentRuns ==
  ASSUME CaseInvariant, lifecycle # "CLOSED"
  PROVE  \A k \in Cycles : IsCurrentCycle(k) <=> k = current
  <1>1. current \in OpenCycles /\ \A k \in OpenCycles : k <= current
    BY ComplaintConstants DEF CaseInvariant, ComplaintTypeOK, OneClockRuns, OpenCycles, Cycles
  <1>2. OpenCycles \subseteq Nat
    BY ComplaintConstants DEF CaseInvariant, ComplaintTypeOK, OpenCycles, Cycles
  <1>3. \A k \in OpenCycles : current <= k => k = current
    BY <1>1, <1>2
  <1> QED
    BY <1>1, <1>3 DEF IsCurrentCycle

\* What the staff writes to the cycles changes the resolution and the close of the
\* current one only, and answers it when it answers the complaint.
LEMMA StaffKeeps ==
  ASSUME CaseInvariant, UNCHANGED <<level, sla>>,
         lifecycle' \in {"OPEN", "RESOLVED", "CLOSED"},
         responded' \in BOOLEAN, late' \in BOOLEAN, UNCHANGED current,
         noting' \in {"none", "answered", "unanswered"},
         cycle' \in [Cycles -> CycleRow],
         \A k \in 1..current : k # current => cycle'[k].resolved = cycle[k].resolved,
         cycle'[current].resolved <=> lifecycle' # "OPEN",
         cycle'[current].closed <=> lifecycle' = "CLOSED",
         lifecycle' = "OPEN" => (responded' <=> cycle'[current].responded)
  PROVE  CaseInvariant'
  <1>1. ComplaintTypeOK'
    BY DEF CaseInvariant, ComplaintTypeOK
  <1>2. OneClockRuns'
    BY ComplaintConstants DEF CaseInvariant, ComplaintTypeOK, OneClockRuns, Cycles
  <1> QED
    BY <1>1, <1>2 DEF CaseInvariant, FirstResponseAgrees

\* What the cycles are made of.
LEMMA CycleTyping ==
  ASSUME CaseInvariant
  PROVE  /\ cycle \in [Cycles -> CycleRow] /\ current \in Cycles
         /\ \A k \in 1..current : k \in Cycles
         /\ \A k \in Cycles : /\ {cycle[k].responded, cycle[k].resolved, cycle[k].closed,
                                   cycle[k].overdue, cycle[k].breached, cycle[k].escalated}
                                  \subseteq BOOLEAN
  BY ComplaintConstants DEF CaseInvariant, ComplaintTypeOK, Cycles, CycleRow

\* MarkFirstResponse keeps the rows well typed, answers the current cycle with the
\* complaint, and changes nothing else of a cycle.
LEMMA MarkKeeps ==
  ASSUME CaseInvariant, NEW known \in BOOLEAN, NEW cycles \in [Cycles -> CycleRow],
         MarkFirstResponse(known, cycles)
  PROVE  /\ responded' \in BOOLEAN /\ cycle' \in [Cycles -> CycleRow]
         /\ \A k \in Cycles : /\ cycle'[k].resolved = cycles[k].resolved
                              /\ cycle'[k].closed = cycles[k].closed
         /\ lifecycle # "CLOSED" /\ cycles[current].responded = cycle[current].responded
              => cycle'[current].responded = (cycle[current].responded \/ ~known)
         /\ responded' = (responded \/ ~known)
  <1>1. responded' \in BOOLEAN /\ responded' = (responded \/ ~known)
    BY DEF MarkFirstResponse, CaseInvariant, ComplaintTypeOK
  <1>2. \A k \in Cycles :
          cycle'[k] = IF IsCurrentCycle(k) /\ ~known
                      THEN [cycles[k] EXCEPT !.responded = TRUE] ELSE cycles[k]
    BY DEF MarkFirstResponse
  <1>3. \A k \in Cycles : cycles[k] \in CycleRow /\ [cycles[k] EXCEPT !.responded = TRUE] \in CycleRow
    BY DEF CycleRow
  <1>4. cycle' \in [Cycles -> CycleRow]
    BY <1>2, <1>3 DEF MarkFirstResponse
  <1>5. \A k \in Cycles : /\ cycle'[k].resolved = cycles[k].resolved
                          /\ cycle'[k].closed = cycles[k].closed
    BY <1>2 DEF CycleRow
  <1>6. ASSUME lifecycle # "CLOSED", cycles[current].responded = cycle[current].responded
        PROVE  cycle'[current].responded = (cycle[current].responded \/ ~known)
    <2>1. current \in Cycles /\ IsCurrentCycle(current)
      BY <1>6, CurrentRuns, CycleTyping
    <2>2. CASE known
      BY <1>2, <1>6, <2>1, <2>2, CycleTyping
    <2>3. CASE ~known
      BY <1>2, <2>1, <2>3, <1>3 DEF CycleRow
    <2> QED
      BY <2>2, <2>3
  <1> QED
    BY <1>1, <1>4, <1>5, <1>6

\* Every step of the staff, the customer and the evaluation keeps the invariant.
LEMMA CaseStep == CaseInvariant /\ [ComplaintNext]_complaintVars => CaseInvariant'
  <1> SUFFICES ASSUME CaseInvariant, [ComplaintNext]_complaintVars PROVE CaseInvariant'
    OBVIOUS
  <1>0. /\ responded \in BOOLEAN /\ late \in BOOLEAN /\ current \in 1..current
        /\ lifecycle \in {"OPEN", "RESOLVED", "CLOSED"}
        /\ noting \in {"none", "answered", "unanswered"}
    BY ComplaintConstants DEF CaseInvariant, ComplaintTypeOK, Cycles
  <1>t. /\ \A k \in 1..current : cycle[k].resolved <=> k < current \/ lifecycle # "OPEN"
        /\ cycle[current].closed <=> lifecycle = "CLOSED"
        /\ lifecycle = "OPEN" => (responded <=> cycle[current].responded)
    BY DEF CaseInvariant, OneClockRuns, FirstResponseAgrees
  <1>1. CASE transition \/ assign
    BY <1>1, <1>0, <1>t, MarkKeeps, StaffKeeps, CycleTyping DEF transition, assign
  <1>2. CASE addActionWrite
    <2>1. (noting = "answered") \in BOOLEAN /\ MarkFirstResponse(noting = "answered", cycle)
      BY <1>2 DEF addActionWrite
    <2>2. /\ responded' \in BOOLEAN /\ cycle' \in [Cycles -> CycleRow]
          /\ \A k \in Cycles : /\ cycle'[k].resolved = cycle[k].resolved
                               /\ cycle'[k].closed = cycle[k].closed
          /\ lifecycle # "CLOSED" =>
               cycle'[current].responded = (cycle[current].responded \/ noting # "answered")
          /\ responded' = (responded \/ noting # "answered")
      BY <2>1, MarkKeeps, CycleTyping
    <2> QED
      BY <1>2, <2>2, <1>0, <1>t, StaffKeeps, CycleTyping DEF addActionWrite
  <1>3. CASE \E overdue \in BOOLEAN : changePriority(overdue)
    <2>1. PICK overdue \in BOOLEAN : changePriority(overdue)
      BY <1>3
    <2>2. cycle' = [k \in Cycles |-> IF IsCurrentCycle(k)
                                     THEN [cycle[k] EXCEPT !.overdue = overdue, !.breached = FALSE]
                                     ELSE cycle[k]]
      BY <2>1 DEF changePriority, WithCurrent
    <2> DEFINE set(c) == [c EXCEPT !.overdue = overdue, !.breached = FALSE]
    <2>5. \A k \in Cycles : set(cycle[k]) \in CycleRow
      BY CycleTyping DEF CycleRow
    <2>3. cycle' \in [Cycles -> CycleRow]
      BY <2>2, <2>5, CycleTyping
    <2>4. \A k \in Cycles : /\ cycle'[k].resolved = cycle[k].resolved
                            /\ cycle'[k].closed = cycle[k].closed
                            /\ cycle'[k].responded = cycle[k].responded
      BY <2>2, CycleTyping DEF CycleRow
    <2> QED
      <3>1. late' \in BOOLEAN /\ UNCHANGED <<lifecycle, responded, current, level, noting, sla>>
        BY <2>1 DEF changePriority, case
      <3> HIDE DEF set
      <3> QED
        BY <3>1, <2>3, <2>4, <1>0, <1>t, StaffKeeps, CycleTyping
  <1>4. CASE resolve
    <2> DEFINE cycles == [k \in Cycles |-> IF IsCurrentCycle(k)
                                           THEN [cycle[k] EXCEPT !.resolved = TRUE] ELSE cycle[k]]
    <2>1. MarkFirstResponse(responded, cycles)
      BY <1>4 DEF resolve, WithCurrent
    <2>2. cycles \in [Cycles -> CycleRow]
      BY CycleTyping DEF CycleRow
    <2>3. \A k \in Cycles : /\ cycles[k].resolved = IF k = current THEN TRUE ELSE cycle[k].resolved
                            /\ cycles[k].closed = cycle[k].closed
      BY <1>4, CurrentRuns, CycleTyping DEF resolve, CycleRow
    <2> HIDE DEF cycles
    <2>4. /\ responded' \in BOOLEAN /\ cycle' \in [Cycles -> CycleRow]
          /\ \A k \in Cycles : /\ cycle'[k].resolved = cycles[k].resolved
                               /\ cycle'[k].closed = cycles[k].closed
      BY <2>1, <2>2, <1>0, MarkKeeps
    <2> QED
      BY <1>4, <1>0, <1>t, <2>3, <2>4, StaffKeeps, CycleTyping DEF resolve
  <1>5. CASE close
    <2>1. cycle' = [k \in Cycles |-> IF IsCurrentCycle(k)
                                     THEN [cycle[k] EXCEPT !.closed = TRUE, !.resolved = TRUE]
                                     ELSE cycle[k]]
      BY <1>5 DEF close, WithCurrent
    <2>2. cycle' \in [Cycles -> CycleRow]
      BY <2>1, CycleTyping DEF CycleRow
    <2>3. \A k \in Cycles : cycle'[k] = IF k = current
                                        THEN [cycle[k] EXCEPT !.closed = TRUE, !.resolved = TRUE]
                                        ELSE cycle[k]
      BY <1>5, <2>1, CurrentRuns DEF close
    <2>4. cycle'[current].closed /\ cycle'[current].resolved
      BY <2>3, CycleTyping DEF CycleRow
    <2> QED
      BY <1>5, <1>0, <1>t, <2>2, <2>3, <2>4, StaffKeeps, CycleTyping DEF close
  <1>6. CASE reopen
    <2>1. current' = current + 1 /\ current' \in Cycles
      BY <1>6, CycleTyping, ComplaintConstants DEF reopen, Cycles
    <2>2. /\ \A k \in Cycles : k # current' => cycle'[k] = cycle[k]
          /\ cycle'[current'] = NewCycle
          /\ cycle' \in [Cycles -> CycleRow]
      BY <1>6, <2>1, CycleTyping DEF reopen, NewCycle, CycleRow
    <2>3. ComplaintTypeOK'
      BY <1>6, <2>1, <2>2 DEF reopen, CaseInvariant, ComplaintTypeOK
    <2>4. \A k \in 1..current' : cycle'[k].resolved <=> k < current'
      <3> SUFFICES ASSUME NEW k \in 1..current' PROVE cycle'[k].resolved <=> k < current'
        OBVIOUS
      <3>1. CASE k = current'
        BY <3>1, <2>1, <2>2 DEF NewCycle, Cycles
      <3>2. CASE k # current'
        <4>1. k \in 1..current /\ k \in Cycles /\ k < current'
          BY <3>2, <2>1, CycleTyping, ComplaintConstants DEF Cycles
        <4> QED
          BY <4>1, <3>2, <2>2, <1>6, <1>t DEF reopen
      <3> QED
        BY <3>1, <3>2
    <2> QED
      BY <1>6, <2>1, <2>2, <2>3, <2>4
         DEF reopen, NewCycle, CaseInvariant, OneClockRuns, FirstResponseAgrees
  <1>7. CASE escalate
    BY <1>7, ComplaintConstants
       DEF escalate, case, CaseInvariant, ComplaintTypeOK, OneClockRuns, FirstResponseAgrees
  <1>8. CASE addActionRead
    BY <1>8 DEF addActionRead, case, CaseInvariant, ComplaintTypeOK, OneClockRuns, FirstResponseAgrees
  <1>9. ASSUME NEW k \in Cycles, deadline(k) PROVE CaseInvariant'
    <2>1. /\ cycle' \in [Cycles -> CycleRow]
          /\ \A j \in Cycles : /\ cycle'[j].resolved = cycle[j].resolved
                               /\ cycle'[j].closed = cycle[j].closed
                               /\ cycle'[j].responded = cycle[j].responded
      BY <1>9, CycleTyping DEF deadline, CycleRow
    <2> QED
      BY <1>9, <2>1, <1>0, <1>t, StaffKeeps, CycleTyping DEF deadline, case
  <1>10. ASSUME NEW k \in Cycles, evaluate(k) PROVE CaseInvariant'
    BY <1>10, ComplaintConstants
       DEF evaluate, Rest, case, CaseInvariant, ComplaintTypeOK, OneClockRuns, FirstResponseAgrees
  <1>11. CASE recordBreach
    <2>1. sla.k \in Cycles /\ sla.new \in BOOLEAN
      BY DEF CaseInvariant, ComplaintTypeOK
    <2>2. /\ cycle' \in [Cycles -> CycleRow]
          /\ \A j \in Cycles : /\ cycle'[j].resolved = cycle[j].resolved
                               /\ cycle'[j].closed = cycle[j].closed
                               /\ cycle'[j].responded = cycle[j].responded
      <3>1. CASE sla.new
        <4>1. cycle' = [cycle EXCEPT ![sla.k].breached = TRUE]
          BY <1>11, <3>1 DEF recordBreach
        <4> QED
          BY <4>1, <2>1, CycleTyping DEF CycleRow
      <3>2. CASE ~sla.new
        <4>1. cycle' = [cycle EXCEPT ![sla.k].escalated = TRUE]
          BY <1>11, <3>2 DEF recordBreach
        <4> QED
          BY <4>1, <2>1, CycleTyping DEF CycleRow
      <3> QED
        BY <3>1, <3>2
    <2>3. sla' = [next |-> "escalate", k |-> 1, new |-> sla.new, level |-> 0]
      BY <1>11 DEF recordBreach, Rest
    <2>4. ComplaintTypeOK'
      BY <1>11, <2>1, <2>2, <2>3, ComplaintConstants
         DEF recordBreach, case, CaseInvariant, ComplaintTypeOK, Cycles
    <2>5. OneClockRuns' /\ FirstResponseAgrees'
      BY <1>11, <2>2, <1>t, CycleTyping DEF recordBreach, case, OneClockRuns, FirstResponseAgrees
    <2> QED
      BY <2>3, <2>4, <2>5 DEF CaseInvariant
  <1>12. CASE autoEscalateRead \/ autoEscalateWrite \/ markLate \/ crashEvaluation
    <2> DEFINE Sla == [next : {"none", "record", "escalate", "level", "late"}, k : Cycles,
                       new : BOOLEAN, level : 0..MaxLevel]
    <2>1. sla \in Sla /\ level \in 0..MaxLevel /\ (sla.next = "level" => sla.level < MaxLevel)
      BY DEF CaseInvariant, ComplaintTypeOK
    <2>2. UNCHANGED <<case, cycle, noting>>
      BY <1>12 DEF autoEscalateRead, autoEscalateWrite, markLate, crashEvaluation
    <2>3. sla' \in Sla /\ level' \in 0..MaxLevel /\ (sla'.next = "level" => sla'.level < MaxLevel)
      <3>1. CASE autoEscalateRead
        <4>1. sla' \in {[sla EXCEPT !.next = "level", !.level = level], [sla EXCEPT !.next = "late"]}
          BY <3>1 DEF autoEscalateRead
        <4>2. sla' = [sla EXCEPT !.next = "level", !.level = level] => level < MaxLevel
          BY <3>1, <2>1 DEF autoEscalateRead
        <4> QED
          BY <3>1, <4>1, <4>2, <2>1 DEF autoEscalateRead
      <3>2. CASE autoEscalateWrite
        <4>1. sla' = [sla EXCEPT !.next = "late", !.level = 0] /\ level' = sla.level + 1
          BY <3>2 DEF autoEscalateWrite
        <4>2. sla.level < MaxLevel /\ sla.level \in 0..MaxLevel
          BY <3>2, <2>1 DEF autoEscalateWrite
        <4>0. 0 \in 0..MaxLevel
          BY ComplaintConstants
        <4>3. sla' = [next |-> "late", k |-> sla.k, new |-> sla.new, level |-> 0]
          BY <4>1, <2>1
        <4>4. sla' \in Sla /\ sla'.next # "level"
          BY <4>0, <4>3, <2>1
        <4> QED
          BY <4>1, <4>2, <4>4, ComplaintConstants
      <3>3. CASE markLate \/ crashEvaluation
        <4>1. Rest \in Sla /\ Rest.next # "level"
          BY ComplaintConstants DEF Rest, Cycles
        <4>2. sla' = Rest /\ level' = level
          BY <3>3 DEF markLate, crashEvaluation
        <4> QED
          BY <4>1, <4>2, <2>1
      <3> QED
        BY <1>12, <3>1, <3>2, <3>3
    <2>4. late' \in BOOLEAN
      BY <1>12, <1>0 DEF autoEscalateRead, autoEscalateWrite, markLate, crashEvaluation
    <2> QED
      BY <2>2, <2>3, <2>4
         DEF case, CaseInvariant, ComplaintTypeOK, OneClockRuns, FirstResponseAgrees
  <1>13. CASE UNCHANGED complaintVars
    BY <1>13 DEF complaintVars, CaseInvariant, ComplaintTypeOK, OneClockRuns, FirstResponseAgrees
  <1> QED
    BY <1>1, <1>2, <1>3, <1>4, <1>5, <1>6, <1>7, <1>8, <1>9, <1>10, <1>11, <1>12, <1>13
       DEF ComplaintNext, Staff, Evaluation

\* A complaint starts with one open cycle.
LEMMA CaseStart == ComplaintInit => CaseInvariant
  <1> SUFFICES ASSUME ComplaintInit PROVE CaseInvariant
    OBVIOUS
  <1>1. /\ lifecycle = "OPEN" /\ responded = FALSE /\ late = FALSE /\ level = 0 /\ current = 1
        /\ cycle = [k \in Cycles |-> NewCycle] /\ noting = "none" /\ sla = Rest
    BY DEF ComplaintInit
  <1>2. 1 \in Cycles /\ 0 \in 0..MaxLevel /\ \A k \in 1..1 : k = 1
    BY ComplaintConstants DEF Cycles
  <1>3. NewCycle \in CycleRow /\ ~NewCycle.resolved /\ ~NewCycle.closed /\ ~NewCycle.responded
    BY DEF NewCycle, CycleRow
  <1>4. cycle \in [Cycles -> CycleRow] /\ cycle[1] = NewCycle
    BY <1>1, <1>2, <1>3
  <1>5. /\ Rest \in [next : {"none", "record", "escalate", "level", "late"}, k : Cycles,
                     new : BOOLEAN, level : 0..MaxLevel]
        /\ Rest.next = "none"
    BY <1>2 DEF Rest
  <1>6. ComplaintTypeOK
    BY <1>1, <1>2, <1>4, <1>5 DEF ComplaintTypeOK
  <1>7. OneClockRuns /\ FirstResponseAgrees
    BY <1>1, <1>2, <1>3, <1>4 DEF OneClockRuns, FirstResponseAgrees
  <1> QED
    BY <1>1, <1>5, <1>6, <1>7 DEF CaseInvariant

\* The invariant of a complaint holds, its typing included.
THEOREM CaseIsInvariant == ComplaintSpec => []CaseInvariant
  BY CaseStart, CaseStep, PTL DEF ComplaintSpec

\* However the staff's work, the customer's returns and the evaluation of the
\* deadlines interleave, only the clock of the current cycle runs.
THEOREM OneCycleRuns == ComplaintSpec => []OneClockRuns
  <1>1. CaseInvariant => OneClockRuns
    BY DEF CaseInvariant
  <1> QED
    BY <1>1, CaseIsInvariant, PTL

\* The complaint and its current cycle agree on whether it was answered.
THEOREM ResponseAgrees == ComplaintSpec => []FirstResponseAgrees
  <1>1. CaseInvariant => FirstResponseAgrees
    BY DEF CaseInvariant
  <1> QED
    BY <1>1, CaseIsInvariant, PTL

-----------------------------------------------------------------------------
\* The send of a message has stored its id, and no other echo took its row.
Named(m) == request[m].next \in {"reconciling", "applying", "reconciled"} /\ m \notin renamed
Settling(m) == Named(m) /\ request[m].next # "reconciling"

\* What the reconciliation of a message has yet to apply, or has written, makes
\* its status shown, unless it is shown already.
Settled(m) ==
  \/ row[m].status # "none"
  \/ request[m].next = "applying" /\ (request[m].events # {} \/ request[m].written[m] # "none")

Webhooks(m) == {h \in Handlers : handler[h].message = m /\ handler[h].next \in {"status", "apply"}}

WebhooksAgree ==
  \A h \in Handlers :
    /\ handler[h].next = "none" => handler[h] = NoJob
    /\ handler[h].next # "none" => handler[h].message \in Messages
    /\ handler[h].next \in {"status", "apply"} =>
         handler[h].incoming \in Reports /\ reported[handler[h].message] # {}
    /\ handler[h].next = "apply" => handler[h].row \in Messages

IdsAreUnique == \A n, k \in Messages : row[n].id = row[k].id /\ row[n].id # 0 => n = k

\* Once its send has stored the id of a message, a webhook finds its row; and one
\* that found another row came before, so that the send applies its status.
DeliveryInvariant ==
  /\ DeliveryTypeOK
  /\ WebhooksAgree
  /\ IdsAreUnique
  /\ \A m \in Messages : Named(m) => row[m].id = m
  /\ \A m \in Messages : Settling(m) =>
       reported[m] = {} \/ m \in dropped \/ Webhooks(m) # {} \/ Settled(m)
  /\ \A m \in Messages, h \in Handlers :
       Settling(m) /\ handler[h].next = "apply" /\ handler[h].message = m /\ handler[h].row # m
         => Settled(m)

-----------------------------------------------------------------------------
\* What a row shows is "none" or one of the statuses the provider reports.
LEMMA ProviderStatuses == "none" \notin ProviderStatus /\ "FAILED" \in ProviderStatus /\ Reports \subseteq ProviderStatus
  <1>1. \A k \in DOMAIN Ranked : Ranked[k] \in {"PENDING", "SENT", "DELIVERED", "READ"}
    BY DEF Ranked
  <1> QED
    BY <1>1, DeliveryConstants DEF ProviderStatus

\* nextProviderStatus is a status, whatever was read.
LEMMA NextIsStatus ==
  ASSUME NEW read \in RowStatus, NEW incoming \in ProviderStatus
  PROVE  nextProviderStatus(read, incoming) \in ProviderStatus
  BY ProviderStatuses DEF nextProviderStatus, RowStatus

\* What the rows and the requests are made of.
LEMMA MessageRows == ASSUME DeliveryInvariant
  PROVE  /\ \A n \in Messages : row[n] \in MessageRow /\ row[n].status \in RowStatus
         /\ \A m \in Messages : /\ request[m] \in SendRequest
                                /\ request[m].events \subseteq ProviderStatus
                                /\ \A n \in Messages : request[m].written[n] \in RowStatus
                                /\ \A n \in Messages : Seen(m, n) \in RowStatus
         /\ \A m \in Messages : Named(m) => RowOf(m) = {m}
         /\ 0 \notin Messages
  <1>1. 0 \notin Messages
    BY DeliveryConstants DEF Messages
  <1>2. \A m \in Messages : Named(m) => RowOf(m) = {m}
    BY <1>1 DEF DeliveryInvariant, IdsAreUnique, RowOf
  <1>3. /\ \A n \in Messages : row[n] \in MessageRow /\ row[n].status \in RowStatus
        /\ \A m \in Messages : /\ request[m] \in SendRequest
                               /\ request[m].events \subseteq ProviderStatus
                               /\ \A n \in Messages : request[m].written[n] \in RowStatus
    BY ProviderStatuses DEF DeliveryInvariant, DeliveryTypeOK, MessageRow, SendRequest
  <1> QED
    BY <1>1, <1>2, <1>3 DEF Seen

\* A step of one send that writes no row.
LEMMA RequestKeeps ==
  ASSUME DeliveryInvariant, NEW m \in Messages, NEW r \in SendRequest,
         request' = [request EXCEPT ![m] = r],
         UNCHANGED <<atProvider, row, echoed, reported, handler, dropped, renamed>>,
         Named(m)' => Named(m),
         Settling(m)' => reported[m] = {} \/ Settled(m)',
         \A h \in Handlers :
           Settling(m)' /\ handler[h].next = "apply" /\ handler[h].message = m /\ handler[h].row # m
             => Settled(m)'
  PROVE  DeliveryInvariant'
  <1>1. \A k \in Messages \ {m} : request'[k] = request[k]
    BY DEF DeliveryInvariant, DeliveryTypeOK
  <1>2. \A k \in Messages \ {m} : /\ Named(k)' = Named(k) /\ Settling(k)' = Settling(k)
                                  /\ Settled(k)' = Settled(k)
    BY <1>1 DEF Named, Settling, Settled
  <1>3. \A k \in Messages : Webhooks(k)' = Webhooks(k)
    BY DEF Webhooks
  <1>4. DeliveryTypeOK'
    BY DEF DeliveryInvariant, DeliveryTypeOK
  <1>5. WebhooksAgree' /\ IdsAreUnique'
    BY DEF DeliveryInvariant, WebhooksAgree, IdsAreUnique
  <1> QED
    BY <1>2, <1>3, <1>4, <1>5 DEF DeliveryInvariant

\* An event is applied to the row of its message, and what it writes is kept.
LEMMA ReconcileApplyKeeps ==
  ASSUME DeliveryInvariant, NEW m \in Messages, reconcileApply(m) PROVE DeliveryInvariant'
  <1>0. request[m].next = "applying"
    BY DEF reconcileApply
  <1>1. PICK event \in request[m].events :
          request' = [request EXCEPT
            ![m].events = @ \ {event},
            ![m].written = [n \in Messages |-> IF n \in NewTo(m, event)
                                               THEN nextProviderStatus(Seen(m, n), event)
                                               ELSE @[n]]]
    BY DEF reconcileApply
  <1> DEFINE writes == [n \in Messages |-> IF n \in NewTo(m, event)
                                           THEN nextProviderStatus(Seen(m, n), event)
                                           ELSE request[m].written[n]]
             r == [next |-> "applying", events |-> request[m].events \ {event}, written |-> writes]
  <1>2. request' = [request EXCEPT ![m] = r]
    <2> HIDE DEF writes
    <2>1. request[m] \in SendRequest /\ request \in [Messages -> SendRequest]
      BY DEF DeliveryInvariant, DeliveryTypeOK
    <2>2. request' = [request EXCEPT ![m].events = request[m].events \ {event}, ![m].written = writes]
      BY <1>1, <2>1 DEF writes, SendRequest
    <2>3. request'[m] = r
      BY <1>0, <2>1, <2>2 DEF SendRequest
    <2> QED
      BY <2>1, <2>2, <2>3 DEF SendRequest
  <1>3. event \in ProviderStatus /\ \A n \in Messages : nextProviderStatus(Seen(m, n), event) \in ProviderStatus
    BY MessageRows, NextIsStatus
  <1>4. writes \in [Messages -> RowStatus]
    BY <1>3, MessageRows DEF RowStatus
  <1>5. r \in SendRequest
    BY <1>4, MessageRows DEF SendRequest
  <1>6. ASSUME Named(m) PROVE writes[m] # "none" \/ row[m].status # "none"
    <2>1. CASE m \in NewTo(m, event)
      BY <2>1, <1>3, ProviderStatuses
    <2>2. CASE m \notin NewTo(m, event)
      BY <2>2, <1>3, <1>6, MessageRows, ProviderStatuses DEF NewTo, Seen
    <2> QED
      BY <2>1, <2>2
  <1>7. request'[m] = r
    BY <1>2 DEF DeliveryInvariant, DeliveryTypeOK
  <1>8. UNCHANGED <<atProvider, row, echoed, reported, handler, dropped, renamed>>
    BY DEF reconcileApply
  <1>9. Named(m)' => Named(m)
    BY <1>0, <1>8 DEF Named
  <1>10. Named(m) => Settled(m)'
    BY <1>6, <1>7, <1>8 DEF Settled
  <1> HIDE DEF r
  <1> QED
    BY <1>2, <1>5, <1>8, <1>9, <1>10, RequestKeeps DEF Settling
\* The steps of a send: the answer, its id, and the reconciliation.
LEMMA RequestSteps ==
  ASSUME DeliveryInvariant, NEW m \in Messages, requestLost(m) \/ reconcileRead(m)
  PROVE  DeliveryInvariant'
  <1>1. CASE requestLost(m)
    <2>1. Request("ended", {}, Nothing) \in SendRequest
      BY DEF Request, Nothing, SendRequest, RowStatus
    <2>2. request'[m].next = "ended"
      BY <1>1 DEF requestLost, Request, DeliveryInvariant, DeliveryTypeOK
    <2> QED
      BY <1>1, <2>1, <2>2, RequestKeeps DEF requestLost, Named, Settling
  <1>2. CASE reconcileRead(m)
    <2> DEFINE r == Request("applying", reported[m], Nothing)
    <2>1. r \in SendRequest
      BY DEF Request, Nothing, SendRequest, RowStatus, DeliveryInvariant, DeliveryTypeOK
    <2>2. request'[m] = r /\ request[m].next = "reconciling"
      BY <1>2 DEF reconcileRead, DeliveryInvariant, DeliveryTypeOK
    <2>3. request'[m].next = "applying" /\ request'[m].events = reported[m]
      BY <2>2 DEF Request
    <2>4. UNCHANGED <<atProvider, row, echoed, reported, handler, dropped, renamed>>
      BY <1>2 DEF reconcileRead
    <2>5. Named(m)' => Named(m)
      BY <2>2, <2>4 DEF Named
    <2>6. reported[m] = {} \/ Settled(m)'
      BY <2>3 DEF Settled
    <2>7. ASSUME NEW h \in Handlers, handler[h].next = "apply", handler[h].message = m
          PROVE  Settled(m)'
      BY <2>6, <2>7 DEF DeliveryInvariant, WebhooksAgree
    <2> HIDE DEF r
    <2> QED
      BY <1>2, <2>1, <2>4, <2>5, <2>6, <2>7, RequestKeeps DEF reconcileRead, r
  <1> QED
    BY <1>1, <1>2

\* What a message needs is kept by a step that leaves its row's id and its request
\* alone, loses no status, and ends no webhook of it that was to write one.
LEMMA MessageKeeps ==
  ASSUME DeliveryInvariant, NEW m \in Messages,
         request'[m] = request[m], m \in renamed => m \in renamed',
         row'[m].status = row[m].status \/ row'[m].status # "none"
  PROVE  /\ Named(m)' => Named(m)
         /\ Settling(m)' => Settling(m)
         /\ Settled(m) => Settled(m)'
  BY DEF Named, Settling, Settled

\* A step of one webhook that writes no row.
LEMMA WebhookKeeps ==
  ASSUME DeliveryInvariant, NEW h \in Handlers, NEW j \in WebhookJob,
         handler' = [handler EXCEPT ![h] = j],
         UNCHANGED <<row, request, renamed>>,
         atProvider' \subseteq Messages, echoed' \subseteq Messages, dropped' \subseteq Messages,
         dropped \subseteq dropped',
         reported' \in [Messages -> SUBSET Reports],
         \A m \in Messages : reported[m] \subseteq reported'[m],
         j.next = "none" => j = NoJob,
         j.next # "none" => j.message \in Messages,
         j.next \in {"status", "apply"} => j.incoming \in Reports /\ reported'[j.message] # {},
         j.next = "apply" => j.row \in RowOf(j.message),
         \A m \in Messages : Settling(m) =>
           \/ reported'[m] = reported[m] /\ (h \in Webhooks(m) =>
                m \in dropped' \/ Settled(m) \/ (j.message = m /\ j.next \in {"status", "apply"}))
           \/ j.message = m /\ j.next \in {"status", "apply"}
  PROVE  DeliveryInvariant'
  <1>1. DeliveryTypeOK'
    BY DEF DeliveryInvariant, DeliveryTypeOK
  <1>2. handler'[h] = j /\ \A g \in Handlers \ {h} : handler'[g] = handler[g]
    BY DEF DeliveryInvariant, DeliveryTypeOK
  <1>3. WebhooksAgree'
    <2> SUFFICES ASSUME NEW g \in Handlers
                 PROVE  /\ handler'[g].next = "none" => handler'[g] = NoJob
                        /\ handler'[g].next # "none" => handler'[g].message \in Messages
                        /\ handler'[g].next \in {"status", "apply"} =>
                             handler'[g].incoming \in Reports /\ reported'[handler'[g].message] # {}
                        /\ handler'[g].next = "apply" => handler'[g].row \in Messages
      BY DEF WebhooksAgree
    <2>1. CASE g = h
      BY <2>1, <1>2 DEF RowOf
    <2>2. CASE g # h
      <3>1. /\ handler'[g] = handler[g]
            /\ handler[g].next \in {"status", "apply"} =>
                 reported[handler[g].message] # {} /\ handler[g].message \in Messages
        BY <2>2, <1>2 DEF DeliveryInvariant, WebhooksAgree
      <3>2. handler[g].next \in {"status", "apply"} => reported'[handler[g].message] # {}
        BY <3>1
      <3> QED
        BY <3>1, <3>2 DEF DeliveryInvariant, WebhooksAgree
    <2> QED
      BY <2>1, <2>2
  <1>4. \A m \in Messages : /\ Named(m)' = Named(m) /\ Settling(m)' = Settling(m)
                            /\ Settled(m)' = Settled(m)
    BY DEF Named, Settling, Settled
  <1>5. IdsAreUnique' /\ \A m \in Messages : Named(m)' => row'[m].id = m
    BY <1>4 DEF DeliveryInvariant, IdsAreUnique
  <1>6. ASSUME NEW m \in Messages, Settling(m)
        PROVE  reported'[m] = {} \/ m \in dropped' \/ Webhooks(m)' # {} \/ Settled(m)
    <2>1. CASE j.message = m /\ j.next \in {"status", "apply"}
      BY <2>1, <1>2 DEF Webhooks
    <2>2. CASE /\ reported'[m] = reported[m]
               /\ h \in Webhooks(m) => m \in dropped' \/ Settled(m)
      <3>1. \A g \in Webhooks(m) \ {h} : g \in Webhooks(m)'
        BY <1>2 DEF Webhooks
      <3> QED
        BY <1>6, <2>2, <3>1 DEF DeliveryInvariant
    <2> QED
      BY <1>6, <2>1, <2>2
  <1>7. ASSUME NEW m \in Messages, NEW g \in Handlers, Settling(m),
               handler'[g].next = "apply", handler'[g].message = m, handler'[g].row # m
        PROVE  Settled(m)
    <2>1. CASE g = h
      BY <2>1, <1>2, <1>7, MessageRows DEF Settling
    <2>2. CASE g # h
      BY <2>2, <1>2, <1>7 DEF DeliveryInvariant
    <2> QED
      BY <2>1, <2>2
  <1> QED
    BY <1>1, <1>3, <1>4, <1>5, <1>6, <1>7 DEF DeliveryInvariant

\* A webhook is received, and reads the row of its message.
LEMMA WebhookSteps ==
  ASSUME DeliveryInvariant, NEW h \in Handlers,
         \/ \E m \in Messages, status \in Reports : storeStatus(h, m, status)
         \/ statusRead(h)
         \/ \E m \in Messages : echoRead(h, m)
         \/ handlerLost(h)
  PROVE  DeliveryInvariant'
  <1>t. /\ handler[h] \in WebhookJob /\ handler \in [Handlers -> WebhookJob]
        /\ reported \in [Messages -> SUBSET Reports]
        /\ atProvider \subseteq Messages /\ echoed \subseteq Messages /\ dropped \subseteq Messages
    BY DEF DeliveryInvariant, DeliveryTypeOK
  <1>n. NoJob \in WebhookJob /\ NoJob.next = "none"
    BY DEF NoJob, WebhookJob, RowStatus
  <1>1. ASSUME NEW m \in Messages, NEW status \in Reports, storeStatus(h, m, status)
        PROVE  DeliveryInvariant'
    <2> DEFINE j == StatusJob(m, status)
    <2>1. /\ j \in WebhookJob /\ j.next = "status" /\ j.message = m /\ j.incoming = status
      BY DEF StatusJob, WebhookJob, RowStatus
    <2>2. /\ reported' = [reported EXCEPT ![m] = @ \union {status}]
          /\ handler' = [handler EXCEPT ![h] = j]
          /\ handler[h] = NoJob
          /\ UNCHANGED <<atProvider, row, echoed, request, dropped, renamed>>
      BY <1>1 DEF storeStatus
    <2>3. /\ reported' \in [Messages -> SUBSET Reports]
          /\ reported'[m] # {}
          /\ \A k \in Messages : reported[k] \subseteq reported'[k]
          /\ \A k \in Messages \ {m} : reported'[k] = reported[k]
      BY <2>2, <1>t
    <2>4. \A k \in Messages : h \notin Webhooks(k)
      BY <2>2, <1>n DEF Webhooks
    <2> HIDE DEF j
    <2> QED
      BY <2>1, <2>2, <2>3, <2>4, <1>t, WebhookKeeps
  <1>2. CASE statusRead(h)
    <2> DEFINE m == handler[h].message
               new == {n \in RowOf(m) : nextProviderStatus(row[n].status, handler[h].incoming) # row[n].status}
    <2>1. /\ handler[h].next = "status" /\ m \in Messages
          /\ handler[h].incoming \in Reports /\ reported[m] # {}
      BY <1>2 DEF statusRead, DeliveryInvariant, WebhooksAgree
    <2>2. UNCHANGED <<atProvider, row, echoed, request, reported, dropped, renamed>>
      BY <1>2 DEF statusRead
    <2>3. CASE new = {} /\ handler' = [handler EXCEPT ![h] = NoJob]
      <3>1. ASSUME Settling(m) PROVE Settled(m)
        <4>1. nextProviderStatus(row[m].status, handler[h].incoming) = row[m].status
          BY <2>1, <2>3, <3>1, MessageRows DEF Settling
        <4>2. row[m].status # "none"
          BY <4>1, <2>1, NextIsStatus, MessageRows, ProviderStatuses
        <4> QED
          BY <4>2 DEF Settled
      <3>2. \A k \in Messages : h \in Webhooks(k) => k = m
        BY DEF Webhooks
      <3> HIDE DEF m, new
      <3> QED
        BY <2>2, <2>3, <3>1, <3>2, <1>t, <1>n, WebhookKeeps
    <2>4. ASSUME NEW n \in new,
                 handler' = [handler EXCEPT ![h].next = "apply", ![h].row = n, ![h].read = row[n].status]
          PROVE  DeliveryInvariant'
      <3> DEFINE j == [handler[h] EXCEPT !.next = "apply", !.row = n, !.read = row[n].status]
      <3>1. n \in Messages /\ n \in RowOf(m)
        BY DEF RowOf
      <3>2. /\ j \in WebhookJob /\ j.next = "apply" /\ j.message = m /\ j.row = n
            /\ j.incoming = handler[h].incoming
        BY <3>1, <1>t, MessageRows DEF WebhookJob
      <3>3. handler' = [handler EXCEPT ![h] = j]
        BY <2>4, <1>t
      <3>4. \A k \in Messages : h \in Webhooks(k) => k = m
        BY DEF Webhooks
      <3> HIDE DEF m, new, j
      <3> QED
        BY <2>1, <2>2, <3>1, <3>2, <3>3, <3>4, <1>t, WebhookKeeps
    <2> QED
      BY <1>2, <2>3, <2>4 DEF statusRead
  <1>3. ASSUME NEW m \in Messages, echoRead(h, m) PROVE DeliveryInvariant'
    <2>1. PICK n \in {0} \union Messages : handler' = [handler EXCEPT ![h] = EchoJob(m, n)]
      BY <1>3 DEF echoRead, Candidates
    <2> DEFINE j == EchoJob(m, n)
    <2>2. j \in WebhookJob /\ j.next = "echo" /\ j.message = m
      BY DEF EchoJob, WebhookJob, RowStatus
    <2>3. \A k \in Messages : h \notin Webhooks(k)
      BY <1>3, <1>n DEF echoRead, Webhooks
    <2>4. UNCHANGED <<atProvider, row, echoed, request, reported, dropped, renamed>>
      BY <1>3 DEF echoRead
    <2> HIDE DEF j
    <2> QED
      BY <2>1, <2>2, <2>3, <2>4, <1>t, WebhookKeeps DEF j
  <1>4. CASE handlerLost(h)
    <2>1. handler[h].next # "none" /\ handler[h].message \in Messages
      BY <1>4 DEF handlerLost, DeliveryInvariant, WebhooksAgree
    <2>2. /\ handler' = [handler EXCEPT ![h] = NoJob]
          /\ UNCHANGED <<atProvider, row, echoed, request, reported, renamed>>
          /\ dropped' \subseteq Messages /\ dropped \subseteq dropped'
      BY <1>4, <2>1, <1>t DEF handlerLost
    <2>3. \A k \in Messages : h \in Webhooks(k) => k \in dropped'
      BY <1>4 DEF handlerLost, Webhooks
    <2> QED
      BY <2>2, <2>3, <1>t, <1>n, WebhookKeeps
  <1> QED
    BY <1>1, <1>2, <1>3, <1>4

\* A webhook writes to the row it has read.
LEMMA StatusWriteKeeps ==
  ASSUME DeliveryInvariant, NEW h \in Handlers, statusWrite(h) PROVE DeliveryInvariant'
  <1> DEFINE n == handler[h].row
             s == nextProviderStatus(handler[h].read, handler[h].incoming)
  <1>1. /\ row' = [row EXCEPT ![n].status = s]
        /\ handler' = [handler EXCEPT ![h] = NoJob]
        /\ handler[h].next = "apply"
        /\ UNCHANGED <<atProvider, echoed, request, reported, dropped, renamed>>
    BY DEF statusWrite
  <1>2. n \in Messages /\ handler[h].incoming \in ProviderStatus /\ handler[h].read \in RowStatus
    BY <1>1, ProviderStatuses DEF DeliveryInvariant, WebhooksAgree, DeliveryTypeOK, WebhookJob
  <1>3. s \in ProviderStatus
    BY <1>2, NextIsStatus
  <1> HIDE DEF n, s
  <1>4. /\ row' \in [Messages -> MessageRow]
        /\ row'[n].status = s
        /\ \A k \in Messages : row'[k].id = row[k].id
        /\ \A k \in Messages \ {n} : row'[k] = row[k]
    BY <1>1, <1>2, <1>3 DEF DeliveryInvariant, DeliveryTypeOK, MessageRow, RowStatus
  <1>5. NoJob \in WebhookJob /\ NoJob.next = "none"
    BY DEF NoJob, WebhookJob, RowStatus
  <1>6. /\ handler' \in [Handlers -> WebhookJob]
        /\ handler'[h] = NoJob /\ \A g \in Handlers \ {h} : handler'[g] = handler[g]
    BY <1>1, <1>5 DEF DeliveryInvariant, DeliveryTypeOK
  <1>7. DeliveryTypeOK'
    BY <1>1, <1>4, <1>6 DEF DeliveryInvariant, DeliveryTypeOK
  <1>8. WebhooksAgree' /\ IdsAreUnique'
    <2>1. WebhooksAgree /\ IdsAreUnique
      BY DEF DeliveryInvariant
    <2>2. IdsAreUnique'
      BY <2>1, <1>4 DEF IdsAreUnique
    <2>3. \A g \in Handlers : handler'[g] = NoJob \/ handler'[g] = handler[g]
      BY <1>6
    <2>4. reported' = reported
      BY <1>1
    <2> QED
      BY <2>1, <2>2, <2>3, <2>4, <1>5 DEF WebhooksAgree
  <1>9. \A m \in Messages : /\ Named(m)' => Named(m)
                            /\ Settling(m)' => Settling(m)
                            /\ Settled(m) => Settled(m)'
    BY <1>1, <1>3, <1>4, MessageKeeps, ProviderStatuses
  <1>10. \A m \in Messages : Named(m)' => row'[m].id = m
    BY <1>4, <1>9 DEF DeliveryInvariant
  <1>11. ASSUME NEW m \in Messages, Settling(m), h \in Webhooks(m) PROVE Settled(m)'
    <2>1. CASE n = m
      BY <2>1, <1>3, <1>4, ProviderStatuses DEF Settled
    <2>2. CASE n # m
      BY <2>2, <1>1, <1>9, <1>11 DEF Webhooks, DeliveryInvariant, n
    <2> QED
      BY <2>1, <2>2
  <1>12. ASSUME NEW m \in Messages, Settling(m)'
         PROVE  reported'[m] = {} \/ m \in dropped' \/ Webhooks(m)' # {} \/ Settled(m)'
    <2>1. \A g \in Webhooks(m) \ {h} : g \in Webhooks(m)'
      BY <1>6 DEF Webhooks
    <2> QED
      BY <2>1, <1>1, <1>9, <1>11, <1>12 DEF DeliveryInvariant
  <1>13. ASSUME NEW m \in Messages, NEW g \in Handlers, Settling(m)',
                handler'[g].next = "apply", handler'[g].message = m, handler'[g].row # m
         PROVE  Settled(m)'
    BY <1>5, <1>6, <1>9, <1>13 DEF DeliveryInvariant
  <1> QED
    BY <1>7, <1>8, <1>10, <1>12, <1>13 DEF DeliveryInvariant

\* A step that writes rows but no webhook's: statuses are kept, and an id that
\* changes is new to the rows and belongs to no message that is settling.
LEMMA MessageRowKeeps ==
  ASSUME DeliveryInvariant, row' \in [Messages -> MessageRow], request' \in [Messages -> SendRequest],
         UNCHANGED <<atProvider, echoed, reported, dropped>>,
         handler' \in [Handlers -> WebhookJob], WebhooksAgree', IdsAreUnique',
         renamed \subseteq renamed', renamed' \subseteq Messages,
         \A h \in Handlers : handler'[h] = handler[h] \/ (handler[h].next = "echo" /\ handler'[h] = NoJob),
         \A m \in Messages : Named(m)' => row'[m].id = m,
         \A m \in Messages : Settling(m)' => Settling(m) /\ (Settled(m) => Settled(m)')
  PROVE  DeliveryInvariant'
  <1>1. DeliveryTypeOK'
    BY DEF DeliveryInvariant, DeliveryTypeOK
  <1>2. \A m \in Messages : Webhooks(m) \subseteq Webhooks(m)'
    BY DEF Webhooks
  <1>3. NoJob.next = "none"
    BY DEF NoJob
  <1>4. ASSUME NEW m \in Messages, Settling(m)'
        PROVE  reported'[m] = {} \/ m \in dropped' \/ Webhooks(m)' # {} \/ Settled(m)'
    BY <1>2, <1>4 DEF DeliveryInvariant
  <1>5. ASSUME NEW m \in Messages, NEW g \in Handlers, Settling(m)',
               handler'[g].next = "apply", handler'[g].message = m, handler'[g].row # m
        PROVE  Settled(m)'
    BY <1>3, <1>5 DEF DeliveryInvariant
  <1> QED
    BY <1>1, <1>4, <1>5 DEF DeliveryInvariant

\* The steps that write an id or a status to a row.
LEMMA MessageRowSteps ==
  ASSUME DeliveryInvariant, NEW m \in Messages,
         \/ sendText(m)
         \/ \E answer \in Answers : completeAttempt(m, answer)
         \/ reconcileCommit(m)
         \/ \E h \in Handlers : echoWrite(h) /\ handler[h].message = m
  PROVE  DeliveryInvariant'
  <1>t. /\ row \in [Messages -> MessageRow] /\ request \in [Messages -> SendRequest]
        /\ handler \in [Handlers -> WebhookJob] /\ renamed \subseteq Messages
        /\ WebhooksAgree /\ IdsAreUnique
        /\ \A k \in Messages : Named(k) => row[k].id = k
    BY DEF DeliveryInvariant, DeliveryTypeOK
  <1>1. CASE sendText(m)
    <2>1. /\ row' = [row EXCEPT ![m].state = "PENDING"]
          /\ request' = [request EXCEPT ![m].next = "calling"]
          /\ UNCHANGED <<atProvider, echoed, reported, handler, dropped, renamed>>
      BY <1>1 DEF sendText
    <2>2. /\ row' \in [Messages -> MessageRow]
          /\ \A k \in Messages : row'[k].id = row[k].id /\ row'[k].status = row[k].status
      BY <2>1, <1>t DEF MessageRow
    <2>3. /\ request' \in [Messages -> SendRequest]
          /\ request'[m].next = "calling"
          /\ \A k \in Messages \ {m} : request'[k] = request[k]
      BY <2>1, <1>t DEF SendRequest
    <2>4. IdsAreUnique' /\ WebhooksAgree'
      BY <2>1, <2>2, <1>t DEF IdsAreUnique, WebhooksAgree
    <2>5. \A k \in Messages : Named(k)' => k # m
      BY <2>3 DEF Named
    <2>6. \A k \in Messages \ {m} : /\ Named(k)' => Named(k)
                                    /\ Settling(k)' => Settling(k)
                                    /\ Settled(k) => Settled(k)'
      BY <2>1, <2>2, <2>3, MessageKeeps
    <2>7. \A k \in Messages : Settling(k)' => k # m
      BY <2>5 DEF Settling
    <2> QED
      BY <2>1, <2>2, <2>3, <2>4, <2>5, <2>6, <2>7, <1>t, MessageRowKeeps
  <1>2. ASSUME NEW answer \in Answers, completeAttempt(m, answer) PROVE DeliveryInvariant'
    <2> DEFINE state == CASE answer \in {"accepted", "unnamed"} -> "ACCEPTED"
                          [] answer = "unknown" -> "UNKNOWN"
                          [] answer = "rejected" -> "FAILED"
               next == IF answer = "accepted" THEN "reconciling" ELSE "ended"
               id == IF answer = "accepted" THEN m ELSE row[m].id
    <2>1. /\ row' = [row EXCEPT ![m].state = state, ![m].id = IF answer = "accepted" THEN m ELSE @]
          /\ request' = [request EXCEPT ![m].next = next]
          /\ UNCHANGED <<atProvider, echoed, reported, handler, dropped, renamed>>
          /\ answer = "accepted" => ~IdTaken(m) \/ row[m].id = m
      BY <1>2 DEF completeAttempt, Completed
    <2>2. state \in {"ACCEPTED", "UNKNOWN", "FAILED"}
      BY DEF Answers
    <2>3. next \in {"reconciling", "ended"} /\ (next = "reconciling" => id = m)
      OBVIOUS
    <2> HIDE DEF state, next, id
    <2>0. row' = [row EXCEPT ![m].state = state, ![m].id = id]
      BY <2>1, <1>t DEF id
    <2>13. row[m] \in MessageRow /\ id \in {0} \union Messages
      BY <1>t DEF id, MessageRow
    <2>14. [row[m] EXCEPT !.state = state, !.id = id] \in MessageRow
      BY <2>2, <2>13 DEF MessageRow
    <2>4. /\ row' \in [Messages -> MessageRow]
          /\ row'[m].id = id
          /\ \A k \in Messages \ {m} : row'[k] = row[k]
          /\ \A k \in Messages : row'[k].status = row[k].status
      <3>1. row' \in [Messages -> MessageRow]
        BY <2>0, <2>14, <1>t
      <3>2. row'[m].id = id /\ row'[m].status = row[m].status
        BY <2>0, <2>13, <1>t DEF MessageRow
      <3> QED
        BY <2>0, <3>1, <3>2, <1>t
    <2>5. /\ request' \in [Messages -> SendRequest]
          /\ request'[m].next = next
          /\ \A k \in Messages \ {m} : request'[k] = request[k]
      BY <2>1, <2>3, <1>t DEF SendRequest
    <2>6. answer = "accepted" => \A k \in Messages \ {m} : row[k].id # m
      BY <2>1, <1>t, MessageRows DEF IdTaken, RowOf, IdsAreUnique
    <2>7. IdsAreUnique'
      BY <2>4, <2>6, <1>t DEF IdsAreUnique, id
    <2>8. WebhooksAgree'
      BY <2>1, <1>t DEF WebhooksAgree
    <2>9. Named(m)' => row'[m].id = m
      BY <2>3, <2>4, <2>5 DEF Named
    <2>10. ~Settling(m)'
      BY <2>3, <2>5 DEF Settling, Named
    <2>11. \A k \in Messages \ {m} : /\ Named(k)' => Named(k)
                                     /\ Settling(k)' => Settling(k)
                                     /\ Settled(k) => Settled(k)'
      BY <2>1, <2>4, <2>5, MessageKeeps
    <2>12. \A k \in Messages : Named(k)' => row'[k].id = k
      BY <2>4, <2>9, <2>11, <1>t
    <2> QED
      BY <2>1, <2>4, <2>5, <2>7, <2>8, <2>10, <2>11, <2>12, <1>t, MessageRowKeeps
  <1>3. CASE reconcileCommit(m)
    <2> DEFINE r == Request("reconciled", {}, Nothing)
    <2>1. /\ row' = [n \in Messages |-> [row[n] EXCEPT !.status = Seen(m, n)]]
          /\ request' = [request EXCEPT ![m] = r]
          /\ request[m].next = "applying" /\ request[m].events = {}
          /\ UNCHANGED <<atProvider, echoed, reported, handler, dropped, renamed>>
      BY <1>3 DEF reconcileCommit
    <2>2. r \in SendRequest /\ r.next = "reconciled"
      BY DEF Request, Nothing, SendRequest, RowStatus
    <2> HIDE DEF r
    <2>3. \A k \in Messages : [row[k] EXCEPT !.status = Seen(m, k)] \in MessageRow
      BY MessageRows DEF MessageRow
    <2>4. /\ row' \in [Messages -> MessageRow]
          /\ \A k \in Messages : row'[k].id = row[k].id /\ row'[k].status = Seen(m, k)
      BY <2>1, <2>3, <1>t DEF MessageRow
    <2>5. /\ request' \in [Messages -> SendRequest]
          /\ request'[m].next = "reconciled"
          /\ \A k \in Messages \ {m} : request'[k] = request[k]
      BY <2>1, <2>2, <1>t
    <2>6. \A k \in Messages : row'[k].status = row[k].status \/ row'[k].status # "none"
      BY <2>4 DEF Seen
    <2>7. IdsAreUnique' /\ WebhooksAgree'
      BY <2>1, <2>4, <1>t DEF IdsAreUnique, WebhooksAgree
    <2>8. \A k \in Messages \ {m} : /\ Named(k)' => Named(k)
                                    /\ Settling(k)' => Settling(k)
                                    /\ Settled(k) => Settled(k)'
      BY <2>1, <2>5, <2>6, MessageKeeps
    <2>9. /\ Named(m)' => Named(m)
          /\ Settling(m)' => Settling(m)
      BY <2>1, <2>5 DEF Settling, Named
    <2>10. Settled(m) => Settled(m)'
      BY <2>1, <2>4 DEF Settled, Seen
    <2> QED
      BY <2>1, <2>4, <2>5, <2>7, <2>8, <2>9, <2>10, <1>t, MessageRowKeeps
  <1>4. ASSUME NEW h \in Handlers, echoWrite(h), handler[h].message = m PROVE DeliveryInvariant'
    <2>1. /\ handler' = [handler EXCEPT ![h] = NoJob]
          /\ handler[h].next = "echo"
          /\ UNCHANGED <<atProvider, request, reported, dropped>>
      BY <1>4 DEF echoWrite
    <2>2. /\ NoJob \in WebhookJob /\ NoJob.next = "none"
      BY DEF NoJob, WebhookJob, RowStatus
    <2>3. /\ handler' \in [Handlers -> WebhookJob]
          /\ handler'[h] = NoJob /\ \A g \in Handlers \ {h} : handler'[g] = handler[g]
      BY <2>1, <2>2, <1>t
    <2>4. WebhooksAgree'
      BY <2>1, <2>2, <2>3, <1>t DEF WebhooksAgree
    <2>5. CASE handler[h].row = 0
      <3>1. UNCHANGED <<row, renamed>> /\ echoed' \subseteq Messages
        BY <1>4, <2>5 DEF echoWrite, DeliveryInvariant, DeliveryTypeOK
      <3>2. dropped' \subseteq Messages /\ atProvider' \subseteq Messages /\ reported \in [Messages -> SUBSET Reports]
        BY <2>1 DEF DeliveryInvariant, DeliveryTypeOK
      <3>3. \A k \in Messages : h \notin Webhooks(k)
        BY <2>1 DEF Webhooks
      <3> QED
        BY <2>1, <2>2, <3>1, <3>2, <3>3, WebhookKeeps
    <2>6. CASE handler[h].row # 0
      <3> DEFINE n == handler[h].row
      <3>1. /\ row' = [row EXCEPT ![n].id = m]
            /\ renamed' = renamed \union ({row[n].id} \ {0, m})
            /\ ~IdTaken(m) \/ row[n].id = m
            /\ UNCHANGED echoed
        BY <1>4, <2>6 DEF echoWrite
      <3>2. n \in Messages
        BY <2>6, <1>t DEF WebhookJob
      <3> HIDE DEF n
      <3>3. /\ row' \in [Messages -> MessageRow]
            /\ row'[n].id = m
            /\ \A k \in Messages \ {n} : row'[k] = row[k]
            /\ \A k \in Messages : row'[k].status = row[k].status
        BY <3>1, <3>2, <1>t DEF MessageRow
      <3>4. renamed' \subseteq Messages /\ renamed \subseteq renamed'
        BY <3>1, <3>2, <1>t DEF MessageRow
      <3>5. \A k \in Messages \ {n} : row[k].id # m
        BY <3>1, <3>2, <1>t, MessageRows DEF IdTaken, RowOf, IdsAreUnique
      <3>6. IdsAreUnique'
        BY <3>2, <3>3, <3>5, <1>t DEF IdsAreUnique
      <3>7. \A k \in Messages : /\ Named(k)' => Named(k)
                                /\ Settling(k)' => Settling(k)
                                /\ Settled(k) => Settled(k)'
        BY <2>1, <3>3, <3>4, MessageKeeps
      <3>8. ASSUME NEW k \in Messages, Named(k)' PROVE row'[k].id = k
        <4>1. row[k].id = k /\ k \notin renamed'
          BY <3>7, <3>8, <1>t DEF Named
        <4>2. CASE k = n
          BY <4>1, <4>2, <3>1, <3>3, MessageRows
        <4>3. CASE k # n
          BY <4>1, <4>3, <3>3
        <4> QED
          BY <4>2, <4>3
      <3> QED
        BY <2>1, <2>3, <2>4, <3>1, <3>3, <3>4, <3>6, <3>7, <3>8, <1>t, MessageRowKeeps
    <2> QED
      BY <2>5, <2>6
  <1> QED
    BY <1>1, <1>2, <1>3, <1>4

\* Every step of the sends and the webhooks keeps the invariant.
LEMMA DeliveryStep == DeliveryInvariant /\ [DeliveryNext]_deliveryVars => DeliveryInvariant'
  <1> SUFFICES ASSUME DeliveryInvariant, [DeliveryNext]_deliveryVars PROVE DeliveryInvariant'
    OBVIOUS
  <1>1. ASSUME NEW m \in Messages, providerTakes(m) PROVE DeliveryInvariant'
    <2>1. atProvider' \subseteq Messages /\ UNCHANGED <<row, echoed, request, reported, handler, dropped, renamed>>
      BY <1>1 DEF providerTakes, DeliveryInvariant, DeliveryTypeOK
    <2> QED
      BY <2>1 DEF DeliveryInvariant, DeliveryTypeOK, WebhooksAgree, IdsAreUnique, Named, Settling,
                  Settled, Webhooks
  <1>2. ASSUME NEW h \in Handlers, echoWrite(h) PROVE DeliveryInvariant'
    <2>1. handler[h].message \in Messages
      BY <1>2 DEF echoWrite, DeliveryInvariant, WebhooksAgree
    <2> QED
      BY <1>2, <2>1, MessageRowSteps
  <1>3. CASE UNCHANGED deliveryVars
    BY <1>3 DEF deliveryVars, DeliveryInvariant, DeliveryTypeOK, WebhooksAgree, IdsAreUnique, Named,
                Settling, Settled, Webhooks
  <1> QED
    BY <1>1, <1>2, <1>3, RequestSteps, ReconcileApplyKeeps, WebhookSteps, StatusWriteKeeps, MessageRowSteps
       DEF DeliveryNext, Send, Hook

\* Nothing is sent or reported at first.
LEMMA DeliveryStart == DeliveryInit => DeliveryInvariant
  <1> SUFFICES ASSUME DeliveryInit PROVE DeliveryInvariant
    OBVIOUS
  <1>1. /\ Unsent \in MessageRow /\ NoRequest \in SendRequest /\ NoJob \in WebhookJob
        /\ NoRequest.next = "none" /\ NoJob.next = "none" /\ Unsent.id = 0
    BY DEF Unsent, MessageRow, NoRequest, Request, Nothing, SendRequest, NoJob, WebhookJob, RowStatus
  <1>2. DeliveryTypeOK
    BY <1>1 DEF DeliveryInit, DeliveryTypeOK
  <1>3. WebhooksAgree /\ IdsAreUnique
    BY <1>1 DEF DeliveryInit, WebhooksAgree, IdsAreUnique
  <1>4. \A m \in Messages : ~Named(m) /\ ~Settling(m)
    BY <1>1 DEF DeliveryInit, Named, Settling
  <1> QED
    BY <1>2, <1>3, <1>4 DEF DeliveryInvariant

\* A settled message whose webhooks are done shows a status.
LEMMA DeliveryShows == DeliveryInvariant => ReportsAreShown
  <1> SUFFICES ASSUME DeliveryInvariant, NEW m \in Messages,
                      request[m].next = "reconciled", reported[m] # {},
                      m \notin dropped \union renamed,
                      \A h \in Handlers : handler[h].message = m => handler[h].next = "echo"
               PROVE  row[m].status # "none"
    BY DEF ReportsAreShown
  <1>1. Settling(m) /\ Webhooks(m) = {}
    BY DEF Settling, Named, Webhooks
  <1> QED
    BY <1>1 DEF DeliveryInvariant, Settled

\* The invariant of the deliveries holds, its typing included.
THEOREM DeliveryIsInvariant == DeliverySpec => []DeliveryInvariant
  BY DeliveryStart, DeliveryStep, PTL DEF DeliverySpec

\* A status reported for an accepted message is shown, in whatever order its
\* webhooks and the answer to its send are handled, and whatever other messages
\* are sent and reported at once.
THEOREM ReportsAreKept == DeliverySpec => []ReportsAreShown
  BY DeliveryIsInvariant, DeliveryShows, PTL

-----------------------------------------------------------------------------
Held(kinds) == {r \in CallRequests : callRequest[r].kind \in kinds}
Owned == queueItem.agent \in Agents

RequestRow == [kind : {"none", "complete", "cancel"} \union LockHolders,
               agent : Agents \union {NoAgent}, seen : Item, call : {0} \union Calls,
               cancels : {"none", "scheduled", "cancelled"}]
ItemStatus == {"NEW", "CALLBACK_SCHEDULED", "CLAIMED", "IN_PROGRESS", "CLOSED"}
CallStatus == {"none", "IN_PROGRESS", "COMPLETED", "ABANDONED"}

CallRows ==
  /\ queueItem \in Item
  /\ callSession \in [Calls -> CallStatus]
  /\ callRequest \in [CallRequests -> RequestRow]

\* One request holds the item's lock; who claims for an agent has one; who starts a
\* call found none open and an agent.
CallInvariant ==
  /\ CallRows
  /\ \A p, q \in Held(LockHolders) : p = q
  /\ \A r \in Held({"claim", "reassign"}) : callRequest[r].agent \in Agents
  /\ Held({"start"}) # {} => OpenCalls = {} /\ Owned
  /\ \A c, d \in OpenCalls : c = d
  /\ OpenCalls # {} \/ queueItem.status \in {"CLAIMED", "IN_PROGRESS"} => Owned

\* The initial rows are well typed.
LEMMA Typing == NewItem \in Item /\ NoCallRequest \in RequestRow
  BY CallConstants DEF NewItem, Item, NoCallRequest, RequestRow

\* A request that ends leaves the others alone ...
LEMMA Ends ==
  ASSUME CallInvariant, NEW r \in CallRequests,
         callRequest' = [callRequest EXCEPT ![r] = NoCallRequest]
  PROVE  /\ callRequest' \in [CallRequests -> RequestRow]
         /\ Held(LockHolders)' \subseteq Held(LockHolders) \ {r}
         /\ Held({"start"})' \subseteq Held({"start"}) \ {r}
         /\ \A q \in Held({"claim", "reassign"})' : callRequest'[q].agent \in Agents
  <1>1. callRequest \in [CallRequests -> RequestRow]
    BY DEF CallInvariant, CallRows
  <1>2. /\ callRequest' \in [CallRequests -> RequestRow]
        /\ callRequest'[r] = NoCallRequest
        /\ \A q \in CallRequests \ {r} : callRequest'[q] = callRequest[q]
    BY <1>1, Typing
  <1>3. callRequest'[r].kind = "none"
    BY <1>2 DEF NoCallRequest
  <1>4. \A q \in Held({"claim", "reassign"}) : callRequest[q].agent \in Agents
    BY DEF CallInvariant
  <1> QED
    BY <1>2, <1>3, <1>4 DEF Held, LockHolders

\* ... and keeps the invariant if what it writes does.
LEMMA EndKeeps ==
  ASSUME CallInvariant, NEW r \in CallRequests,
         callRequest' = [callRequest EXCEPT ![r] = NoCallRequest],
         queueItem' \in Item, callSession' \in [Calls -> CallStatus],
         \A c, d \in OpenCalls' : c = d,
         OpenCalls' # {} \/ queueItem'.status \in {"CLAIMED", "IN_PROGRESS"} => Owned',
         Held({"start"})' # {} => OpenCalls' = {} /\ Owned'
  PROVE  CallInvariant'
  <1>1. \A p, q \in Held(LockHolders)' : p = q
    BY Ends DEF CallInvariant
  <1> QED
    BY <1>1, Ends DEF CallInvariant, CallRows

\* A request that takes no lock, or none that starts a call, changes nothing else.
LEMMA SlotKeeps ==
  ASSUME CallInvariant, UNCHANGED <<queueItem, callSession>>,
         callRequest' \in [CallRequests -> RequestRow],
         \A p, q \in Held(LockHolders)' : p = q,
         \A q \in Held({"claim", "reassign"})' : callRequest'[q].agent \in Agents,
         Held({"start"})' # {} => OpenCalls = {} /\ Owned
  PROVE  CallInvariant'
  <1>1. OpenCalls' = OpenCalls /\ Owned' = Owned
    BY DEF OpenCalls, Owned
  <1> QED
    BY <1>1 DEF CallInvariant, CallRows

\* A request that begins without a lock.
LEMMA FreeSlotKeeps ==
  ASSUME CallInvariant, UNCHANGED <<queueItem, callSession>>, NEW r \in CallRequests,
         NEW slot \in RequestRow, slot.kind \in {"complete", "cancel"},
         callRequest' = [callRequest EXCEPT ![r] = slot]
  PROVE  CallInvariant'
  <1>1. /\ callRequest' \in [CallRequests -> RequestRow] /\ callRequest'[r] = slot
        /\ \A q \in CallRequests \ {r} : callRequest'[q] = callRequest[q]
    BY DEF CallInvariant, CallRows
  <1>2. /\ Held(LockHolders)' \subseteq Held(LockHolders)
        /\ Held({"start"})' \subseteq Held({"start"})
        /\ \A q \in Held({"claim", "reassign"})' :
             q \in Held({"claim", "reassign"}) /\ callRequest'[q] = callRequest[q]
    BY <1>1 DEF Held, LockHolders
  <1> QED
    BY <1>1, <1>2, SlotKeeps DEF CallInvariant

\* The handlers that write with the lock held.
LEMMA ClaimSteps ==
  ASSUME CallInvariant, NEW r \in CallRequests,
         claimItemWrite(r) \/ reassignWrite(r) \/ releaseWrite(r)
  PROVE  CallInvariant'
  <1>1. CASE claimItemWrite(r)
    <2>1. /\ callRequest' = [callRequest EXCEPT ![r] = NoCallRequest]
          /\ callRequest[r].kind = "claim" /\ UNCHANGED callSession
          /\ queueItem' = [queueItem EXCEPT !.status = "CLAIMED", !.agent = callRequest[r].agent]
      BY <1>1 DEF claimItemWrite, Commit
    <2>2. callRequest[r].agent \in Agents
      BY <2>1 DEF CallInvariant, Held
    <2>3. queueItem' \in Item /\ Owned'
      BY <2>1, <2>2 DEF CallInvariant, CallRows, Item, Owned
    <2>4. OpenCalls' = OpenCalls
      BY <2>1 DEF OpenCalls
    <2>5. callSession' \in [Calls -> CallStatus] /\ Held({"start"})' \subseteq Held({"start"})
      BY <2>1, Ends DEF CallInvariant, CallRows
    <2> QED
      BY <2>1, <2>3, <2>4, <2>5, EndKeeps DEF CallInvariant
  <1>2. CASE reassignWrite(r)
    <2>1. /\ callRequest' = [callRequest EXCEPT ![r] = NoCallRequest]
          /\ callRequest[r].kind = "reassign" /\ UNCHANGED callSession
      BY <1>2 DEF reassignWrite, Commit
    <2>2. callRequest[r].agent \in Agents /\ callRequest[r].seen.status \in ItemStatus
      <3>1. r \in Held({"claim", "reassign"})
        BY <2>1 DEF Held
      <3>2. callRequest[r].seen \in Item
        BY DEF CallInvariant, CallRows, RequestRow
      <3> QED
        BY <3>1, <3>2 DEF CallInvariant, Item, ItemStatus
    <2>3. queueItem' \in Item /\ Owned'
      BY <1>2, <2>2 DEF CallInvariant, CallRows, Item, ItemStatus, Owned, reassignWrite
    <2>4. OpenCalls' = OpenCalls
      BY <2>1 DEF OpenCalls
    <2>5. callSession' \in [Calls -> CallStatus] /\ Held({"start"})' \subseteq Held({"start"})
      BY <2>1, Ends DEF CallInvariant, CallRows
    <2> QED
      BY <2>1, <2>3, <2>4, <2>5, EndKeeps DEF CallInvariant
  <1>3. CASE releaseWrite(r)
    <2>1. /\ callRequest' = [callRequest EXCEPT ![r] = NoCallRequest]
          /\ callRequest[r].kind = "release"
      BY <1>3 DEF releaseWrite, Commit
    <2>2. /\ callSession' \in [Calls -> CallStatus]
          /\ OpenCalls' = {}
      BY <1>3 DEF CallInvariant, CallRows, CallStatus, OpenCalls, releaseWrite
    <2>3. queueItem' \in Item /\ queueItem'.status \in {"NEW", "CALLBACK_SCHEDULED"}
      BY <1>3 DEF CallInvariant, CallRows, Item, releaseWrite
    <2>4. Held({"start"})' = {}
      <3>1. r \in Held(LockHolders) /\ Held({"start"}) \subseteq Held(LockHolders)
        BY <2>1 DEF Held, LockHolders
      <3> QED
        BY <2>1, <3>1, Ends DEF CallInvariant
    <2> QED
      BY <2>1, <2>2, <2>3, <2>4, EndKeeps
  <1> QED
    BY <1>1, <1>2, <1>3

\* A call starts with the lock held, and its completion reads the item.
LEMMA CallSteps ==
  ASSUME CallInvariant, NEW r \in CallRequests, NEW c \in Calls,
         startCallWrite(r, c) \/ completeCallRead(r, c)
  PROVE  CallInvariant'
  <1>1. CASE startCallWrite(r, c)
    <2>1. /\ callRequest' = [callRequest EXCEPT ![r] = NoCallRequest]
          /\ callRequest[r].kind = "start"
          /\ callSession' = [callSession EXCEPT ![c] = "IN_PROGRESS"]
          /\ queueItem' = [queueItem EXCEPT !.status = "IN_PROGRESS"]
      BY <1>1 DEF startCallWrite, Commit
    <2>2. OpenCalls = {} /\ Owned
      BY <2>1 DEF CallInvariant, Held
    <2>3. OpenCalls' = {c} /\ queueItem' \in Item /\ Owned'
      BY <2>1, <2>2 DEF CallInvariant, CallRows, OpenCalls, Item, Owned
    <2>4. Held({"start"})' = {}
      <3>1. r \in Held(LockHolders) /\ Held({"start"}) \subseteq Held(LockHolders)
        BY <2>1 DEF Held, LockHolders
      <3> QED
        BY <2>1, <3>1, Ends DEF CallInvariant
    <2>5. callSession' \in [Calls -> CallStatus]
      BY <2>1 DEF CallInvariant, CallRows, CallStatus
    <2> QED
      BY <2>1, <2>3, <2>4, <2>5, EndKeeps
  <1>2. CASE completeCallRead(r, c)
    <2>1. [queueItem EXCEPT !.status = "NEW", !.agent = NoAgent] \in Item
      BY DEF CallInvariant, CallRows, Item
    <2> DEFINE slot == [NoCallRequest EXCEPT !.kind = "complete", !.call = c,
                         !.seen = [queueItem EXCEPT !.status = "NEW", !.agent = NoAgent]]
    <2>2. slot \in RequestRow /\ slot.kind = "complete"
      BY <2>1, Typing DEF NoCallRequest, RequestRow
    <2>3. /\ callRequest' = [callRequest EXCEPT ![r] = slot]
          /\ UNCHANGED <<queueItem, callSession>>
      BY <1>2 DEF completeCallRead
    <2> QED
      BY <2>2, <2>3, FreeSlotKeeps
  <1> QED
    BY <1>1, <1>2

\* A completion writes without the lock, but only while no one holds it.
LEMMA CompleteStep ==
  ASSUME CallInvariant, NEW r \in CallRequests, completeCallWrite(r)
  PROVE  CallInvariant'
  <1>1. /\ callRequest' = [callRequest EXCEPT ![r] = NoCallRequest]
        /\ callRequest[r].kind = "complete"
        /\ callSession' = [callSession EXCEPT ![callRequest[r].call] = "COMPLETED"]
    BY DEF completeCallWrite, Commit
  <1>2. OpenCalls' \subseteq OpenCalls /\ callSession' \in [Calls -> CallStatus]
    BY <1>1 DEF CallInvariant, CallRows, CallStatus, OpenCalls
  <1>3. PICK missed \in {0, 1}, further \in BOOLEAN,
             status \in {"CLOSED", "CALLBACK_SCHEDULED"} :
          /\ queueItem.unanswered + missed <= MaxUnanswered
          /\ AfterCall(callRequest[r].seen, missed, further, status)
    BY DEF completeCallWrite
  <1>4. /\ queueItem' \in Item /\ queueItem'.agent = queueItem.agent
        /\ queueItem'.status \in {"CLOSED", "CALLBACK_SCHEDULED"}
    <2>1. queueItem \in Item /\ callRequest[r].seen.due \in {"none", "later", "now"}
      BY DEF CallInvariant, CallRows, RequestRow, Item
    <2>2. queueItem' = [queueItem EXCEPT !.status = status, !.unanswered = @ + missed,
                          !.due = IF further THEN "later" ELSE callRequest[r].seen.due]
      BY <1>3 DEF AfterCall
    <2>3. queueItem.unanswered + missed \in 0..MaxUnanswered
      BY <1>3, <2>1, CallConstants DEF Item
    <2> QED
      BY <2>1, <2>2, <2>3 DEF Item
  <1>5. Held({"start"})' \subseteq Held({"start"}) /\ (Owned' <=> Owned)
    BY <1>1, <1>4, Ends DEF Owned
  <1> QED
    BY <1>1, <1>2, <1>4, <1>5, EndKeeps DEF CallInvariant

\* A request that takes the lock finds it free.
LEMMA ReadSteps ==
  ASSUME CallInvariant, NEW r \in CallRequests, NEW a \in Agents \union {NoAgent},
         \/ a \in Agents /\ (claimItemRead(r, a) \/ reassignRead(r, a) \/ startCallRead(r, a))
         \/ releaseRead(r)
  PROVE  CallInvariant'
  <1>1. /\ NewItem \in Item
        /\ [NewItem EXCEPT !.status = queueItem.status] \in Item
        /\ [NewItem EXCEPT !.status = queueItem.status, !.due = queueItem.due] \in Item
    BY Typing DEF CallInvariant, CallRows, Item
  <1>2. ~CallItemLocked /\ UNCHANGED <<queueItem, callSession>>
    BY DEF claimItemRead, reassignRead, releaseRead, startCallRead
  <1>3. \/ a \in Agents /\ Begin(r, "claim", a, NewItem)
        \/ a \in Agents /\ Begin(r, "reassign", a, [NewItem EXCEPT !.status = queueItem.status])
        \/ Begin(r, "release", NoAgent,
                 [NewItem EXCEPT !.status = queueItem.status, !.due = queueItem.due])
        \/ /\ a \in Agents /\ Begin(r, "start", NoAgent, NewItem)
           /\ OpenCalls = {} /\ queueItem.agent = a
    BY DEF claimItemRead, reassignRead, releaseRead, startCallRead
  <1>4. PICK kind \in LockHolders, b \in Agents \union {NoAgent}, seen \in Item :
          /\ Begin(r, kind, b, seen)
          /\ kind \in {"claim", "reassign"} => b \in Agents
          /\ kind = "start" => OpenCalls = {} /\ Owned
    BY <1>1, <1>3 DEF LockHolders, Owned
  <1> DEFINE slot == [NoCallRequest EXCEPT !.kind = kind, !.agent = b, !.seen = seen]
  <1>5. slot \in RequestRow /\ slot.kind = kind /\ slot.agent = b
    BY DEF NoCallRequest, RequestRow
  <1>6. callRequest' = [callRequest EXCEPT ![r] = slot]
    BY <1>4 DEF Begin
  <1> HIDE DEF slot
  <1>7. /\ callRequest' \in [CallRequests -> RequestRow] /\ callRequest'[r] = slot
        /\ \A q \in CallRequests \ {r} : callRequest'[q] = callRequest[q]
    BY <1>5, <1>6 DEF CallInvariant, CallRows
  <1>8. Held(LockHolders) = {}
    BY <1>2 DEF Held, CallItemLocked
  <1>9. Held(LockHolders)' \subseteq {r}
    BY <1>7, <1>8 DEF Held
  <1>10. /\ \A q \in Held({"claim", "reassign"})' : callRequest'[q].agent \in Agents
         /\ Held({"start"})' # {} => OpenCalls = {} /\ Owned
    BY <1>4, <1>5, <1>7, <1>9 DEF Held, LockHolders, Owned
  <1> QED
    BY <1>2, <1>7, <1>9, <1>10, SlotKeeps

\* A cancelled callback returns the item without its lock, but not its agent.
LEMMA CancelSteps ==
  ASSUME CallInvariant, NEW r \in CallRequests,
         \/ \E old \in {"scheduled", "cancelled"} : cancelCallbackRead(r, old)
         \/ cancelCallbackWrite(r)
         \/ requestFails(r)
  PROVE  CallInvariant'
  <1>1. CASE \E old \in {"scheduled", "cancelled"} : cancelCallbackRead(r, old)
    <2>1. PICK old \in {"scheduled", "cancelled"} : cancelCallbackRead(r, old)
      BY <1>1
    <2>2. UNCHANGED <<queueItem, callSession>>
      BY <2>1 DEF cancelCallbackRead
    <2>3. CASE UNCHANGED callRequest
      BY <2>2, <2>3 DEF CallInvariant, CallRows, Held, OpenCalls, Owned
    <2>4. CASE /\ callRequest[r] = NoCallRequest
               /\ callRequest' = [callRequest EXCEPT ![r] =
                     [NoCallRequest EXCEPT !.kind = "cancel", !.cancels = old]]
      <3> DEFINE slot == [NoCallRequest EXCEPT !.kind = "cancel", !.cancels = old]
      <3>1. slot \in RequestRow /\ slot.kind = "cancel"
        BY Typing DEF NoCallRequest, RequestRow
      <3> QED
        BY <2>2, <2>4, <3>1, FreeSlotKeeps
    <2> QED
      BY <2>1, <2>3, <2>4 DEF cancelCallbackRead
  <1>2. CASE cancelCallbackWrite(r)
    <2>1. /\ callRequest' = [callRequest EXCEPT ![r] = NoCallRequest] /\ UNCHANGED callSession
          /\ queueItem' = [queueItem EXCEPT !.status = "NEW", !.due = "none"]
      BY <1>2 DEF cancelCallbackWrite, Commit
    <2>2. queueItem' \in Item /\ queueItem'.agent = queueItem.agent /\ queueItem'.status = "NEW"
      BY <2>1 DEF CallInvariant, CallRows, Item
    <2>3. /\ OpenCalls' = OpenCalls /\ (Owned' <=> Owned)
          /\ callSession' \in [Calls -> CallStatus] /\ Held({"start"})' \subseteq Held({"start"})
      BY <2>1, <2>2, Ends DEF CallInvariant, CallRows, OpenCalls, Owned
    <2> QED
      BY <2>1, <2>2, <2>3, EndKeeps DEF CallInvariant
  <1>3. CASE requestFails(r)
    <2>1. /\ callRequest' = [callRequest EXCEPT ![r] = NoCallRequest]
          /\ UNCHANGED <<queueItem, callSession>>
      BY <1>3 DEF requestFails
    <2>2. /\ OpenCalls' = OpenCalls /\ (Owned' <=> Owned) /\ queueItem' \in Item
          /\ callSession' \in [Calls -> CallStatus] /\ Held({"start"})' \subseteq Held({"start"})
      BY <2>1, Ends DEF CallInvariant, CallRows, OpenCalls, Owned
    <2> QED
      BY <2>1, <2>2, EndKeeps DEF CallInvariant
  <1> QED
    BY <1>1, <1>2, <1>3

\* Every step of the queue keeps the invariant.
LEMMA CallStep == CallInvariant /\ [CallNext]_callVars => CallInvariant'
  <1> SUFFICES ASSUME CallInvariant, [CallNext]_callVars PROVE CallInvariant'
    OBVIOUS
  <1>1. ASSUME NEW a \in Agents, claimNext(a) PROVE CallInvariant'
    <2>1. /\ queueItem' = [queueItem EXCEPT !.status = "CLAIMED", !.agent = a]
          /\ UNCHANGED <<callSession, callRequest>>
      BY <1>1 DEF claimNext
    <2>2. queueItem' \in Item /\ Owned'
      BY <2>1 DEF CallInvariant, CallRows, Item, Owned
    <2> QED
      BY <2>1, <2>2 DEF CallInvariant, CallRows, Held, OpenCalls
  <1>2. CASE fallDue
    <2>1. /\ queueItem' = [queueItem EXCEPT !.due = "now"]
          /\ UNCHANGED <<callSession, callRequest>>
      BY <1>2 DEF fallDue
    <2>2. /\ queueItem' \in Item
          /\ queueItem'.agent = queueItem.agent /\ queueItem'.status = queueItem.status
      BY <2>1 DEF CallInvariant, CallRows, Item
    <2> QED
      BY <2>1, <2>2 DEF CallInvariant, CallRows, Held, OpenCalls, Owned
  <1>3. CASE UNCHANGED callVars
    BY <1>3 DEF callVars, CallInvariant, CallRows, Held, OpenCalls, Owned
  <1>4. ASSUME NEW r \in CallRequests,
               claimItemWrite(r) \/ reassignWrite(r) \/ releaseWrite(r)
        PROVE  CallInvariant'
    BY <1>4, ClaimSteps
  <1>5. ASSUME NEW r \in CallRequests, NEW c \in Calls,
               startCallWrite(r, c) \/ completeCallRead(r, c)
        PROVE  CallInvariant'
    BY <1>5, CallSteps
  <1>6. ASSUME NEW r \in CallRequests, completeCallWrite(r) PROVE CallInvariant'
    BY <1>6, CompleteStep
  <1>7. ASSUME NEW r \in CallRequests, NEW a \in Agents,
               claimItemRead(r, a) \/ reassignRead(r, a) \/ startCallRead(r, a)
        PROVE  CallInvariant'
    BY <1>7, ReadSteps
  <1>8. ASSUME NEW r \in CallRequests, releaseRead(r) PROVE CallInvariant'
    BY <1>8, ReadSteps
  <1>9. ASSUME NEW r \in CallRequests,
               \/ \E old \in {"scheduled", "cancelled"} : cancelCallbackRead(r, old)
               \/ cancelCallbackWrite(r)
               \/ requestFails(r)
        PROVE  CallInvariant'
    BY <1>9, CancelSteps
  <1> QED
    BY <1>1, <1>2, <1>3, <1>4, <1>5, <1>6, <1>7, <1>8, <1>9 DEF CallNext

\* The item is new and nobody works on it at first.
LEMMA CallStart == CallInit => CallInvariant
  <1> SUFFICES ASSUME CallInit PROVE CallInvariant
    OBVIOUS
  <1>1. /\ queueItem = NewItem /\ callSession = [c \in Calls |-> "none"]
        /\ callRequest = [r \in CallRequests |-> NoCallRequest]
    BY DEF CallInit
  <1>2. CallRows
    BY <1>1, Typing DEF CallRows, CallStatus
  <1>3. OpenCalls = {} /\ \A kinds \in SUBSET LockHolders : Held(kinds) = {}
    BY <1>1 DEF OpenCalls, Held, NoCallRequest, LockHolders
  <1>4. queueItem.status = "NEW"
    BY <1>1 DEF NewItem
  <1> QED
    BY <1>2, <1>3, <1>4 DEF CallInvariant, LockHolders

-----------------------------------------------------------------------------
CallbackRows == {"scheduled", "cancelled"}
Cancels(old) == {r \in CallRequests : callRequest[r].cancels = old}

\* Every request that cancels a callback has one of its status to cancel, whatever
\* was scheduled or cancelled since it read.
CallbacksAgree ==
  /\ callback \in [scheduled : Nat, cancelled : Nat]
  /\ callback.scheduled + callback.cancelled <= MaxCallbacks
  /\ \A r \in CallRequests : callRequest[r].kind = "cancel" <=> callRequest[r].cancels # "none"
  /\ \A old \in CallbackRows : /\ IsFiniteSet(Cancels(old))
                               /\ Cardinality(Cancels(old)) <= callback[old]

CallbackInvariant == CallInvariant /\ CallbacksAgree

\* The invariants give the types of the queue, bounds included.
LEMMA CallbackTypes == CallbackInvariant => CallTypeOK
  <1> SUFFICES ASSUME CallbackInvariant PROVE CallTypeOK
    OBVIOUS
  <1>1. /\ callback \in [scheduled : Nat, cancelled : Nat]
        /\ callback.scheduled + callback.cancelled <= MaxCallbacks
    BY DEF CallbackInvariant, CallbacksAgree
  <1>2. callback \in [scheduled : 0..MaxCallbacks, cancelled : 0..MaxCallbacks]
    BY <1>1, CallConstants
  <1> QED
    BY <1>2 DEF CallbackInvariant, CallInvariant, CallRows, CallTypeOK, CallStatus, RequestRow

\* A step after which no more requests cancel, and no fewer callbacks are there.
LEMMA NoneCancels ==
  ASSUME CallbackInvariant,
         \A q \in CallRequests :
           \/ callRequest'[q] = callRequest[q]
           \/ callRequest'[q].kind # "cancel" /\ callRequest'[q].cancels = "none",
         callback' \in [scheduled : Nat, cancelled : Nat],
         callback'.scheduled + callback'.cancelled <= MaxCallbacks,
         \A old \in CallbackRows : callback[old] <= callback'[old]
  PROVE  CallbacksAgree'
  <1>1. CallbacksAgree
    BY DEF CallbackInvariant
  <1>2. \A q \in CallRequests : callRequest'[q].kind = "cancel" <=> callRequest'[q].cancels # "none"
    BY <1>1 DEF CallbacksAgree
  <1>3. ASSUME NEW old \in CallbackRows
        PROVE  /\ IsFiniteSet(Cancels(old)')
               /\ Cardinality(Cancels(old)') <= callback'[old]
    <2>1. Cancels(old)' \in SUBSET Cancels(old)
      BY <1>3 DEF Cancels, CallbackRows
    <2>2. IsFiniteSet(Cancels(old)) /\ Cardinality(Cancels(old)) <= callback[old]
      BY <1>1, <1>3 DEF CallbacksAgree
    <2>3. IsFiniteSet(Cancels(old)') /\ Cardinality(Cancels(old)') <= Cardinality(Cancels(old))
      BY <2>1, <2>2, FS_Subset
    <2>4. Cardinality(Cancels(old)') \in Nat /\ Cardinality(Cancels(old)) \in Nat
      BY <2>2, <2>3, FS_CardinalityType
    <2>5. callback[old] \in Nat /\ callback'[old] \in Nat
      BY <1>1, <1>3 DEF CallbacksAgree, CallbackRows
    <2> QED
      BY <1>3, <2>2, <2>3, <2>4, <2>5
  <1> QED
    BY <1>2, <1>3 DEF CallbacksAgree

\* One callback is cancelled: of a status that has one more than its requests.
Counted(old) ==
  /\ callback' \in [scheduled : Nat, cancelled : Nat]
  /\ callback'.scheduled + callback'.cancelled <= MaxCallbacks
  /\ \A k \in CallbackRows : k # old => callback[k] <= callback'[k]
  /\ callback[old] - 1 <= callback'[old]

\* The callback that is cancelled was counted.
LEMMA CancelCounts ==
  ASSUME CallbacksAgree, NEW old \in CallbackRows, callback[old] >= 1, CancelOne(old)
  PROVE  Counted(old)
  <1>1. PICK s \in Nat, c \in Nat :
          callback = [scheduled |-> s, cancelled |-> c] /\ s + c <= MaxCallbacks
    <2>1. /\ callback \in [scheduled : Nat, cancelled : Nat]
          /\ callback.scheduled + callback.cancelled <= MaxCallbacks
      BY DEF CallbacksAgree
    <2>2. callback = [scheduled |-> callback.scheduled, cancelled |-> callback.cancelled]
      BY <2>1
    <2> QED
      BY <2>1, <2>2
  <1>2. CASE old = "scheduled"
    <2>1. callback' = [scheduled |-> s - 1, cancelled |-> c + 1]
      BY <1>1, <1>2 DEF CancelOne
    <2>2. s >= 1
      BY <1>1, <1>2
    <2>3. s - 1 \in Nat /\ c + 1 \in Nat /\ (s - 1) + (c + 1) <= MaxCallbacks
      BY <1>1, <2>2, CallConstants
    <2> QED
      BY <1>1, <1>2, <2>1, <2>3 DEF Counted, CallbackRows
  <1>3. CASE old = "cancelled"
    <2>1. callback' = callback
      BY <1>3 DEF CancelOne
    <2> QED
      BY <1>1, <1>3, <2>1, CallConstants DEF Counted, CallbackRows
  <1> QED
    BY <1>2, <1>3 DEF CallbackRows

\* A cancellation that needs no update of the item, or that is still to make it.
LEMMA CancelReadCounts ==
  ASSUME CallbackInvariant, NEW r \in CallRequests, NEW old \in CallbackRows,
         cancelCallbackRead(r, old)
  PROVE  CallbacksAgree'
  <1>1. CallbacksAgree
    BY DEF CallbackInvariant
  <1>2. /\ IsFiniteSet(Cancels(old)) /\ Cardinality(Cancels(old)) \in Nat
        /\ Cardinality(Cancels(old)) < callback[old] /\ callback[old] \in Nat
        /\ callRequest[r] = NoCallRequest
        /\ callback[old] >= 1
    <2>1. IsFiniteSet(Cancels(old)) /\ callback[old] \in Nat
      BY <1>1 DEF CallbacksAgree, CallbackRows
    <2>2. Cardinality(Cancels(old)) \in Nat
      BY <2>1, FS_CardinalityType
    <2>3. Cardinality(Cancels(old)) < callback[old] /\ callRequest[r] = NoCallRequest
      BY DEF cancelCallbackRead, Cancels
    <2> QED
      BY <2>1, <2>2, <2>3
  <1>3. CASE /\ CancelOne(old)
             /\ UNCHANGED callRequest
    <2>1. /\ callback' \in [scheduled : Nat, cancelled : Nat]
          /\ callback'.scheduled + callback'.cancelled <= MaxCallbacks
          /\ \A k \in CallbackRows : k # old => callback[k] <= callback'[k]
          /\ callback[old] - 1 <= callback'[old]
      BY <1>1, <1>2, <1>3, CancelCounts DEF Counted
    <2>2. ASSUME NEW k \in CallbackRows
          PROVE  IsFiniteSet(Cancels(k)') /\ Cardinality(Cancels(k)') <= callback'[k]
      <3>1. Cancels(k)' = Cancels(k)
        BY <1>3 DEF Cancels
      <3>2. IsFiniteSet(Cancels(k)) /\ Cardinality(Cancels(k)) <= callback[k]
        BY <1>1 DEF CallbacksAgree
      <3>3. Cardinality(Cancels(k)) \in Nat /\ callback[k] \in Nat /\ callback'[k] \in Nat
        BY <1>1, <2>1, <3>2, FS_CardinalityType DEF CallbacksAgree, CallbackRows
      <3> QED
        BY <1>2, <2>1, <3>1, <3>2, <3>3
    <2> QED
      BY <1>1, <1>3, <2>1, <2>2 DEF CallbacksAgree
  <1>4. CASE /\ callRequest' = [callRequest EXCEPT ![r] =
                  [NoCallRequest EXCEPT !.kind = "cancel", !.cancels = old]]
             /\ UNCHANGED callback
    <2>1. /\ callRequest'[r].kind = "cancel" /\ callRequest'[r].cancels = old
          /\ \A q \in CallRequests : q # r => callRequest'[q] = callRequest[q]
          /\ callRequest[r].cancels = "none"
      BY <1>2, <1>4 DEF CallbackInvariant, CallInvariant, CallRows, NoCallRequest
    <2>2. \A q \in CallRequests : callRequest'[q].kind = "cancel" <=> callRequest'[q].cancels # "none"
      BY <1>1, <2>1 DEF CallbacksAgree, CallbackRows
    <2>3. ASSUME NEW k \in CallbackRows
          PROVE  IsFiniteSet(Cancels(k)') /\ Cardinality(Cancels(k)') <= callback'[k]
      <3>1. IsFiniteSet(Cancels(k)) /\ Cardinality(Cancels(k)) <= callback[k]
        BY <1>1 DEF CallbacksAgree
      <3>2. CASE k = old
        <4>1. Cancels(k)' = Cancels(k) \union {r}
          BY <2>1, <3>2 DEF Cancels
        <4>2. r \notin Cancels(k)
          BY <2>1 DEF Cancels, CallbackRows
        <4>3. IsFiniteSet(Cancels(k)') /\ Cardinality(Cancels(k)') = Cardinality(Cancels(k)) + 1
          BY <3>1, <4>1, <4>2, FS_AddElement
        <4> QED
          BY <1>2, <1>4, <3>2, <4>3
      <3>3. CASE k # old
        <4>1. Cancels(k)' = Cancels(k)
          BY <2>1, <3>3 DEF Cancels, CallbackRows
        <4> QED
          BY <1>4, <3>1, <4>1
      <3> QED
        BY <3>2, <3>3
    <2> QED
      BY <1>1, <1>4, <2>2, <2>3 DEF CallbacksAgree
  <1> QED
    BY <1>3, <1>4 DEF cancelCallbackRead

\* A cancellation that also returns the item.
LEMMA CancelWriteCounts ==
  ASSUME CallbackInvariant, NEW r \in CallRequests, cancelCallbackWrite(r)
  PROVE  CallbacksAgree'
  <1>1. CallbacksAgree
    BY DEF CallbackInvariant
  <1>2. PICK old : old = callRequest[r].cancels
    OBVIOUS
  <1>3. /\ callRequest[r].kind = "cancel"
        /\ callRequest' = [callRequest EXCEPT ![r] = NoCallRequest]
        /\ CancelOne(old)
    BY <1>2 DEF cancelCallbackWrite, Commit
  <1>4. old \in CallbackRows
    <2>1. callRequest[r] \in RequestRow
      BY DEF CallbackInvariant, CallInvariant, CallRows
    <2> QED
      BY <1>1, <1>2, <1>3, <2>1 DEF CallbacksAgree, RequestRow, CallbackRows
  <1>5. /\ callRequest'[r] = NoCallRequest
        /\ \A q \in CallRequests : q # r => callRequest'[q] = callRequest[q]
    BY <1>3 DEF CallbackInvariant, CallInvariant, CallRows
  <1>6. NoCallRequest.kind # "cancel" /\ NoCallRequest.cancels = "none"
    BY DEF NoCallRequest
  <1>7. \A k \in CallbackRows : /\ IsFiniteSet(Cancels(k)) /\ Cardinality(Cancels(k)) <= callback[k]
                                /\ Cardinality(Cancels(k)) \in Nat /\ callback[k] \in Nat
    BY <1>1, FS_CardinalityType DEF CallbacksAgree, CallbackRows
  <1>8. r \in Cancels(old)
    BY <1>2 DEF Cancels
  <1>9. callback[old] >= 1
    <2>1. Cardinality(Cancels(old)) # 0
      BY <1>4, <1>7, <1>8, FS_EmptySet
    <2> QED
      BY <1>4, <1>7, <2>1
  <1>10. /\ callback' \in [scheduled : Nat, cancelled : Nat]
         /\ callback'.scheduled + callback'.cancelled <= MaxCallbacks
         /\ \A k \in CallbackRows : k # old => callback[k] <= callback'[k]
         /\ callback[old] - 1 <= callback'[old]
    BY <1>1, <1>3, <1>4, <1>9, CancelCounts DEF Counted
  <1>11. ASSUME NEW k \in CallbackRows
         PROVE  IsFiniteSet(Cancels(k)') /\ Cardinality(Cancels(k)') <= callback'[k]
    <2>0. callback'[k] \in Nat
      BY <1>10 DEF CallbackRows
    <2>1. CASE k = old
      <3>1. Cancels(k)' = Cancels(k) \ {r}
        BY <1>4, <1>5, <1>6, <2>1 DEF Cancels, CallbackRows
      <3>2. IsFiniteSet(Cancels(k)') /\ Cardinality(Cancels(k)') = Cardinality(Cancels(k)) - 1
        BY <1>7, <1>8, <2>1, <3>1, FS_RemoveElement
      <3> QED
        BY <1>7, <1>10, <2>0, <2>1, <3>2
    <2>2. CASE k # old
      <3>1. Cancels(k)' = Cancels(k)
        BY <1>2, <1>5, <1>6, <2>2 DEF Cancels, CallbackRows
      <3> QED
        BY <1>7, <1>10, <2>0, <2>2, <3>1
    <2> QED
      BY <2>1, <2>2
  <1>12. \A q \in CallRequests : callRequest'[q].kind = "cancel" <=> callRequest'[q].cancels # "none"
    BY <1>1, <1>5, <1>6 DEF CallbacksAgree
  <1> QED
    BY <1>10, <1>11, <1>12 DEF CallbacksAgree

\* The other steps of a request: it begins something else, or it ends.
LEMMA OthersCount ==
  ASSUME CallbackInvariant, NEW r \in CallRequests, NEW slot, slot.kind # "cancel", slot.cancels = "none",
         callRequest' = [callRequest EXCEPT ![r] = slot], UNCHANGED callback
  PROVE  CallbacksAgree'
  <1>1. \A q \in CallRequests : callRequest'[q] = IF q = r THEN slot ELSE callRequest[q]
    BY DEF CallbackInvariant, CallInvariant, CallRows
  <1>2. /\ callback' \in [scheduled : Nat, cancelled : Nat]
        /\ callback'.scheduled + callback'.cancelled <= MaxCallbacks
        /\ \A old \in CallbackRows : callback[old] <= callback'[old]
    BY DEF CallbackInvariant, CallbacksAgree, CallbackRows
  <1> QED
    BY <1>1, <1>2, NoneCancels

\* A completed call may arrange a further callback.
LEMMA CompleteCounts ==
  ASSUME CallbackInvariant, NEW r \in CallRequests, completeCallWrite(r)
  PROVE  CallbacksAgree'
  <1>1. callRequest' = [callRequest EXCEPT ![r] = NoCallRequest]
    BY DEF completeCallWrite, Commit
  <1>2. \A q \in CallRequests :
          \/ callRequest'[q] = callRequest[q]
          \/ callRequest'[q].kind # "cancel" /\ callRequest'[q].cancels = "none"
    BY <1>1 DEF CallbackInvariant, CallInvariant, CallRows, NoCallRequest
  <1>3. PICK further \in BOOLEAN :
          /\ further => callback.scheduled + callback.cancelled < MaxCallbacks
          /\ callback' = IF further THEN [callback EXCEPT !.scheduled = @ + 1] ELSE callback
    BY DEF completeCallWrite, AfterCall
  <1>4. /\ callback = [scheduled |-> callback.scheduled, cancelled |-> callback.cancelled]
        /\ callback.scheduled \in Nat /\ callback.cancelled \in Nat
        /\ callback.scheduled + callback.cancelled <= MaxCallbacks
    BY DEF CallbackInvariant, CallbacksAgree
  <1>5. CASE further
    <2>1. callback' = [scheduled |-> callback.scheduled + 1, cancelled |-> callback.cancelled]
      BY <1>3, <1>4, <1>5
    <2>2. /\ callback' \in [scheduled : Nat, cancelled : Nat]
          /\ callback'.scheduled + callback'.cancelled <= MaxCallbacks
          /\ \A old \in CallbackRows : callback[old] <= callback'[old]
      BY <1>3, <1>4, <1>5, <2>1, CallConstants DEF CallbackRows
    <2> QED
      BY <1>2, <2>2, NoneCancels
  <1>6. CASE ~further
    <2>1. callback' = callback
      BY <1>3, <1>6
    <2>2. \A old \in CallbackRows : callback[old] <= callback'[old]
      BY <1>4, <2>1 DEF CallbackRows
    <2> QED
      BY <1>2, <1>4, <2>1, <2>2, NoneCancels
  <1> QED
    BY <1>5, <1>6

\* Every step of the queue keeps the callbacks counted.
LEMMA CallbackStep == CallbackInvariant /\ [CallNext]_callVars => CallbackInvariant'
  <1> SUFFICES ASSUME CallbackInvariant, [CallNext]_callVars PROVE CallbacksAgree'
    BY CallStep DEF CallbackInvariant
  <1>1. CASE UNCHANGED callVars \/ fallDue \/ \E a \in Agents : claimNext(a)
    <2>1. callRequest' = callRequest /\ callback' = callback
      BY <1>1 DEF callVars, fallDue, claimNext
    <2> QED
      BY <2>1 DEF CallbackInvariant, CallbacksAgree, Cancels
  <1>2. ASSUME NEW r \in CallRequests,
               \/ claimItemWrite(r) \/ reassignWrite(r) \/ releaseWrite(r) \/ requestFails(r)
               \/ \E c \in Calls : startCallWrite(r, c)
        PROVE  CallbacksAgree'
    <2>1. callRequest' = [callRequest EXCEPT ![r] = NoCallRequest] /\ callback' = callback
      BY <1>2 DEF claimItemWrite, reassignWrite, releaseWrite, requestFails, startCallWrite, Commit
    <2>2. NoCallRequest.kind # "cancel" /\ NoCallRequest.cancels = "none"
      BY DEF NoCallRequest
    <2> QED
      BY <2>1, <2>2, OthersCount
  <1>3. ASSUME NEW r \in CallRequests, NEW kind \in {"claim", "reassign", "release", "start"},
               NEW a, NEW seen, Begin(r, kind, a, seen), callback' = callback
        PROVE  CallbacksAgree'
    <2> DEFINE slot == [NoCallRequest EXCEPT !.kind = kind, !.agent = a, !.seen = seen]
    <2>1. slot.kind = kind /\ slot.cancels = "none"
      BY DEF NoCallRequest
    <2>2. callRequest' = [callRequest EXCEPT ![r] = slot]
      BY <1>3 DEF Begin
    <2> HIDE DEF slot
    <2> QED
      BY <1>3, <2>1, <2>2, OthersCount
  <1>4. ASSUME NEW r \in CallRequests, NEW a \in Agents,
               \/ claimItemRead(r, a) \/ reassignRead(r, a) \/ releaseRead(r) \/ startCallRead(r, a)
        PROVE  CallbacksAgree'
    BY <1>3, <1>4 DEF claimItemRead, reassignRead, releaseRead, startCallRead
  <1>5. ASSUME NEW r \in CallRequests, releaseRead(r) PROVE CallbacksAgree'
    BY <1>3, <1>5 DEF releaseRead
  <1>6. ASSUME NEW r \in CallRequests, NEW c \in Calls, completeCallRead(r, c) PROVE CallbacksAgree'
    <2> DEFINE slot == [NoCallRequest EXCEPT !.kind = "complete", !.call = c,
                         !.seen = [queueItem EXCEPT !.status = "NEW", !.agent = NoAgent]]
    <2>1. slot.kind = "complete" /\ slot.cancels = "none"
      BY DEF NoCallRequest
    <2>2. callRequest' = [callRequest EXCEPT ![r] = slot] /\ callback' = callback
      BY <1>6 DEF completeCallRead
    <2> HIDE DEF slot
    <2> QED
      BY <2>1, <2>2, OthersCount
  <1> QED
    BY <1>1, <1>2, <1>4, <1>5, <1>6, CompleteCounts, CancelReadCounts, CancelWriteCounts
       DEF CallNext, CallbackRows

\* No callback is there at first.
LEMMA CallbackStart == CallInit => CallbackInvariant
  <1> SUFFICES ASSUME CallInit PROVE CallbacksAgree
    BY CallStart DEF CallbackInvariant
  <1>1. callRequest = [r \in CallRequests |-> NoCallRequest] /\ callback = [scheduled |-> 0, cancelled |-> 0]
    BY DEF CallInit
  <1>2. \A r \in CallRequests : callRequest[r].kind = "none" /\ callRequest[r].cancels = "none"
    BY <1>1 DEF NoCallRequest
  <1>3. \A old \in CallbackRows : Cancels(old) = {}
    BY <1>2 DEF Cancels, CallbackRows
  <1> QED
    BY <1>1, <1>2, <1>3, FS_EmptySet, CallConstants DEF CallbacksAgree, CallbackRows

\* The invariant of the queue holds, its typing included: the callbacks it counts
\* are neither negative nor more than there are.
THEOREM CallsAreInvariant == CallSpec => []CallbackInvariant
  BY CallbackStart, CallbackStep, PTL DEF CallSpec

\* A customer is on one call at a time, and an item that is worked on has an agent.
THEOREM OneCallAtATime == CallSpec => []OneCallPerItem
  <1>1. CallbackInvariant => OneCallPerItem
    BY CallConstants DEF CallbackInvariant, CallInvariant, OneCallPerItem, Owned
  <1> QED
    BY <1>1, CallsAreInvariant, PTL
=============================================================================
