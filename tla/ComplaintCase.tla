----------------------------- MODULE ComplaintCase -----------------------------
(***************************************************************************)
(* One complaint: its lifecycle, its SLA cycles, the first response, and   *)
(* the background evaluation of its deadlines.                             *)
(*                                                                         *)
(* An operation of the staff holds the advisory lock of the complaint and  *)
(* checks its revision, so it is one action; an action recorded with the   *)
(* customer reads the complaint before it takes the lock.  The evaluation  *)
(* takes no lock: it reads a cycle, then writes statement by statement.    *)
(* What nothing else depends on is left out: the operational stage, and    *)
(* the notices of a warning or of a late first response.                   *)
(***************************************************************************)
EXTENDS Naturals

CONSTANTS
  MaxCycles,  \* bound on SLA cycles, i.e. on reopenings
  MaxLevel    \* bound on the escalation level

ASSUME ComplaintConstants == MaxCycles \in Nat \ {0} /\ MaxLevel \in Nat

Cycles == 1..MaxCycles

VARIABLES
  lifecycle,  \* Complaint.lifecycleStatus
  responded,  \* its firstRespondedAt is set
  late,       \* its isLate
  level,      \* its escalationLevel
  current,    \* its slaCurrentCycleNumber
  cycle,      \* ComplaintSlaCycle rows up to the current one
  noting,     \* an action read the complaint: firstRespondedAt was set or not
  sla         \* the evaluation: its next statement, the cycle it is about,
              \* whether the breach is new, and the level it read

case == <<lifecycle, responded, current>>
complaintVars == <<lifecycle, responded, late, level, current, cycle, noting, sla>>

NewCycle == [responded |-> FALSE, resolved |-> FALSE, closed |-> FALSE,
             overdue |-> FALSE, breached |-> FALSE, escalated |-> FALSE]
Rest == [next |-> "none", k |-> 1, new |-> FALSE, level |-> 0]

\* currentCycle: the latest cycle that is not closed.
OpenCycles == {k \in 1..current : ~cycle[k].closed}
IsCurrentCycle(k) == k \in OpenCycles /\ \A j \in OpenCycles : j <= k

\* The cycles with these fields of the current cycle set.
WithCurrent(update(_)) == [k \in Cycles |-> IF IsCurrentCycle(k) THEN update(cycle[k]) ELSE cycle[k]]

\* markFirstResponse, given what the caller knows of firstRespondedAt.
faultyMarkFirstResponse(known, cycles) ==
  /\ responded' = TRUE
  /\ cycle' = cycles
MarkFirstResponse(known, cycles) ==
  /\ responded' = (responded \/ ~known)
  /\ cycle' = [k \in Cycles |->
                 IF IsCurrentCycle(k) /\ ~known
                 THEN [cycles[k] EXCEPT !.responded = TRUE] ELSE cycles[k]]

-----------------------------------------------------------------------------
\* transition out of NEW, and assign whatever the lifecycle status: the case is
\* being handled, which is a first response.
transition ==
  /\ lifecycle = "OPEN"
  /\ MarkFirstResponse(responded, cycle)
  /\ UNCHANGED <<lifecycle, late, level, current, noting, sla>>

assign ==
  /\ MarkFirstResponse(responded, cycle)
  /\ UNCHANGED <<lifecycle, late, level, current, noting, sla>>

\* changePriority: the deadlines of an open case are computed again.
changePriority(overdue) ==
  /\ lifecycle = "OPEN"
  /\ late' = FALSE
  /\ cycle' = WithCurrent(LAMBDA c : [c EXCEPT !.overdue = overdue, !.breached = FALSE])
  /\ UNCHANGED <<case, level, noting, sla>>

resolve ==
  /\ lifecycle = "OPEN"
  /\ lifecycle' = "RESOLVED"
  /\ MarkFirstResponse(responded, WithCurrent(LAMBDA c : [c EXCEPT !.resolved = TRUE]))
  /\ UNCHANGED <<late, level, current, noting, sla>>

faultyClose ==
  /\ lifecycle = "OPEN"
  /\ lifecycle' = "CLOSED"
  /\ cycle' = WithCurrent(LAMBDA c : [c EXCEPT !.closed = TRUE])
  /\ UNCHANGED <<responded, late, level, current, noting, sla>>
close ==
  /\ lifecycle # "CLOSED"
  /\ lifecycle' = "CLOSED"
  /\ cycle' = WithCurrent(LAMBDA c : [c EXCEPT !.closed = TRUE, !.resolved = TRUE])
  /\ UNCHANGED <<responded, late, level, current, noting, sla>>

\* reopen: a new cycle; the previous one keeps its closedAt, set or not.
reopen ==
  /\ lifecycle \in {"RESOLVED", "CLOSED"}
  /\ current < MaxCycles
  /\ lifecycle' = "OPEN"
  /\ current' = current + 1
  /\ cycle' = [cycle EXCEPT ![current + 1] = NewCycle]
  /\ responded' = FALSE
  /\ late' = FALSE
  /\ UNCHANGED <<level, noting, sla>>

\* escalate, to another department or employee.
faultyEscalate ==
  /\ lifecycle = "OPEN"
  /\ level' = level + 1
  /\ UNCHANGED <<case, late, cycle, noting, sla>>
escalate ==
  /\ lifecycle = "OPEN"
  /\ level < MaxLevel
  /\ level' = level + 1
  /\ UNCHANGED <<case, late, cycle, noting, sla>>

\* addAction: the complaint is read, ...
addActionRead ==
  /\ noting = "none"
  /\ noting' = IF responded THEN "answered" ELSE "unanswered"
  /\ UNCHANGED <<case, late, level, cycle, sla>>

\* ... and a message to the customer is a first response unless it had one.
addActionWrite ==
  /\ noting # "none"
  /\ noting' = "none"
  /\ MarkFirstResponse(noting = "answered", cycle)
  /\ UNCHANGED <<lifecycle, late, level, current, sla>>

-----------------------------------------------------------------------------
\* The deadline for the resolution passes; it says nothing of a resolved cycle.
deadline(k) ==
  /\ k <= current
  /\ ~cycle[k].resolved
  /\ cycle' = [cycle EXCEPT ![k].overdue = TRUE]
  /\ UNCHANGED <<case, late, level, noting, sla>>

\* evaluateSla: the cycles that are not closed, of open complaints.
faultyToEvaluate == IF lifecycle = "OPEN" /\ ~late THEN OpenCycles ELSE {}
ToEvaluate == IF lifecycle = "OPEN" THEN OpenCycles ELSE {}

\* A cycle is read with the time.  A breach of the resolution is recorded and
\* escalated; one recorded before is escalated again after the policy's delay.
evaluate(k) ==
  /\ sla = Rest
  /\ k \in ToEvaluate
  /\ \/ /\ cycle[k].overdue /\ ~cycle[k].breached /\ ~cycle[k].resolved
        /\ sla' = [Rest EXCEPT !.next = "record", !.k = k, !.new = TRUE]
     \/ /\ cycle[k].breached /\ ~cycle[k].escalated
        /\ sla' = [Rest EXCEPT !.next = "record", !.k = k]
  /\ UNCHANGED <<case, late, level, cycle, noting>>

recordBreach ==
  /\ sla.next = "record"
  /\ cycle' = IF sla.new THEN [cycle EXCEPT ![sla.k].breached = TRUE]
              ELSE [cycle EXCEPT ![sla.k].escalated = TRUE]
  /\ sla' = [Rest EXCEPT !.next = "escalate", !.new = sla.new]
  /\ UNCHANGED <<case, late, level, noting>>

\* autoEscalate reads the level of an open complaint ...
autoEscalateRead ==
  /\ sla.next = "escalate"
  /\ sla' = IF lifecycle = "OPEN" /\ level < MaxLevel
            THEN [sla EXCEPT !.next = "level", !.level = level]
            ELSE [sla EXCEPT !.next = "late"]
  /\ UNCHANGED <<case, late, level, cycle, noting>>

\* ... and writes the next one, whatever it is by now.
autoEscalateWrite ==
  /\ sla.next = "level"
  /\ level' = sla.level + 1
  /\ sla' = [sla EXCEPT !.next = "late", !.level = 0]
  /\ UNCHANGED <<case, late, cycle, noting>>

markLate ==
  /\ sla.next = "late"
  /\ late' = (late \/ sla.new)
  /\ sla' = Rest
  /\ UNCHANGED <<case, level, cycle, noting>>

\* The worker stops between two statements.
crashEvaluation ==
  /\ sla # Rest
  /\ sla' = Rest
  /\ UNCHANGED <<case, late, level, cycle, noting>>

-----------------------------------------------------------------------------
\* createCore; a complaint routed to a department starts in progress.
ComplaintInit ==
  /\ lifecycle = "OPEN"
  /\ responded = FALSE
  /\ late = FALSE
  /\ level = 0
  /\ current = 1
  /\ cycle = [k \in Cycles |-> NewCycle]
  /\ noting = "none"
  /\ sla = Rest

Staff ==
  \/ transition
  \/ assign
  \/ \E overdue \in BOOLEAN : changePriority(overdue)
  \/ resolve
  \/ close
  \/ reopen
  \/ escalate
  \/ addActionRead
  \/ addActionWrite

Evaluation ==
  \/ recordBreach
  \/ autoEscalateRead
  \/ autoEscalateWrite
  \/ markLate

ComplaintNext ==
  \/ Staff
  \/ \E k \in Cycles : deadline(k)
  \/ \E k \in Cycles : evaluate(k)
  \/ Evaluation
  \/ crashEvaluation

\* The worker runs again and again, evaluates every cycle it finds, and is not
\* stopped each time at the same statement.
ComplaintFairness ==
  /\ WF_complaintVars(Evaluation)
  /\ SF_complaintVars(recordBreach)
  /\ \A k \in Cycles : SF_complaintVars(evaluate(k))

ComplaintSpec == ComplaintInit /\ [][ComplaintNext]_complaintVars /\ ComplaintFairness

-----------------------------------------------------------------------------
CycleRow == [responded : BOOLEAN, resolved : BOOLEAN, closed : BOOLEAN,
             overdue : BOOLEAN, breached : BOOLEAN, escalated : BOOLEAN]

ComplaintTypeOK ==
  /\ lifecycle \in {"OPEN", "RESOLVED", "CLOSED"}
  /\ responded \in BOOLEAN /\ late \in BOOLEAN
  /\ level \in 0..MaxLevel
  /\ current \in Cycles
  /\ cycle \in [Cycles -> CycleRow]
  /\ noting \in {"none", "answered", "unanswered"}
  /\ sla \in [next : {"none", "record", "escalate", "level", "late"}, k : Cycles,
              new : BOOLEAN, level : 0..MaxLevel]

\* One resolution clock runs at most: the current cycle is open and unresolved
\* exactly while the complaint is open, and every earlier cycle is resolved.
OneClockRuns ==
  /\ \A k \in 1..current : cycle[k].resolved <=> k < current \/ lifecycle # "OPEN"
  /\ cycle[current].closed <=> lifecycle = "CLOSED"

\* An open complaint and its current cycle agree on the first response, although
\* an action may answer a complaint that was closed and reopened meanwhile.
FirstResponseAgrees == lifecycle = "OPEN" => (responded <=> cycle[current].responded)

\* An open complaint that runs over its deadline is found by the evaluation.
OverdueIsRecorded ==
  lifecycle = "OPEN" /\ cycle[current].overdue
    ~> cycle[current].breached \/ cycle[current].resolved \/ ~cycle[current].overdue
=============================================================================
