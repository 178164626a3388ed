------------------------------- MODULE CallQueue -------------------------------
(***************************************************************************)
(* One item of the call center's queue: agents claim it, call the customer *)
(* and record how the call ended.  The handlers that start from the item   *)
(* hold its advisory lock; claimNext locks its row, completeCall reads     *)
(* before it takes the lock, and cancelCallback takes none.                *)
(***************************************************************************)
EXTENDS Naturals, FiniteSets

CONSTANTS
  Agents,
  NoAgent,
  CallRequests,   \* requests in flight at the same time
  MaxCalls,       \* bound on CallSession rows
  MaxCallbacks,   \* bound on CallCallback rows
  MaxUnanswered   \* CALL_CENTER_CONFIG.maxUnansweredAttempts

ASSUME CallConstants ==
  /\ NoAgent \notin Agents
  /\ MaxCalls \in Nat /\ MaxCallbacks \in Nat /\ MaxUnanswered \in Nat

Calls == 1..MaxCalls
LockHolders == {"claim", "reassign", "release", "start"}

VARIABLES
  queueItem,    \* the CallCenterQueueItem row; CLOSED stands for its terminal statuses
  callSession,  \* CallSession.status; only its own agent completes a call
  callback,     \* how many CallCallback rows there are, by status
  callRequest   \* the requests in flight, with the row each has read

callVars == <<queueItem, callSession, callback, callRequest>>

NewItem == [status |-> "NEW", agent |-> NoAgent, due |-> "none", unanswered |-> 0]
NoCallRequest == [kind |-> "none", agent |-> NoAgent, seen |-> NewItem, call |-> 0,
                  cancels |-> "none"]

OpenCalls == {c \in Calls : callSession[c] = "IN_PROGRESS"}
CallItemLocked == \E r \in CallRequests : callRequest[r].kind \in LockHolders

\* Of the row read, what the write uses.
Begin(r, kind, a, seen) ==
  /\ callRequest[r] = NoCallRequest
  /\ callRequest' = [callRequest EXCEPT ![r] =
       [NoCallRequest EXCEPT !.kind = kind, !.agent = a, !.seen = seen]]
Commit(r, kind) ==
  /\ callRequest[r].kind = kind
  /\ callRequest' = [callRequest EXCEPT ![r] = NoCallRequest]

-----------------------------------------------------------------------------
\* "Start next call": one statement that skips locked rows.
claimNext(a) ==
  /\ \/ queueItem.status = "NEW"
     \/ queueItem.status = "CALLBACK_SCHEDULED" /\ queueItem.due = "now"
  /\ queueItem' = [queueItem EXCEPT !.status = "CLAIMED", !.agent = a]
  /\ UNCHANGED <<callSession, callback, callRequest>>

claimItemRead(r, a) ==
  /\ ~CallItemLocked
  /\ queueItem.status # "CLOSED"
  /\ queueItem.status \in {"CLAIMED", "IN_PROGRESS"} => queueItem.agent \in {NoAgent, a}
  /\ Begin(r, "claim", a, NewItem)
  /\ UNCHANGED <<queueItem, callSession, callback>>
claimItemWrite(r) ==
  /\ queueItem' = [queueItem EXCEPT !.status = "CLAIMED", !.agent = callRequest[r].agent]
  /\ Commit(r, "claim")
  /\ UNCHANGED <<callSession, callback>>

reassignRead(r, a) ==
  /\ ~CallItemLocked
  /\ queueItem.status # "CLOSED"
  /\ Begin(r, "reassign", a, [NewItem EXCEPT !.status = queueItem.status])
  /\ UNCHANGED <<queueItem, callSession, callback>>
reassignWrite(r) ==
  LET seen == callRequest[r].seen.status IN
  /\ queueItem' = [queueItem EXCEPT !.agent = callRequest[r].agent,
       !.status = IF seen \in {"NEW", "CALLBACK_SCHEDULED"} THEN "CLAIMED" ELSE seen]
  /\ Commit(r, "reassign")
  /\ UNCHANGED <<callSession, callback>>

\* By its agent, or by anybody who may reassign.
releaseRead(r) ==
  /\ ~CallItemLocked
  /\ Begin(r, "release", NoAgent,
           [NewItem EXCEPT !.status = queueItem.status, !.due = queueItem.due])
  /\ UNCHANGED <<queueItem, callSession, callback>>
releaseWrite(r) ==
  LET seen == callRequest[r].seen IN
  /\ callSession' = [c \in Calls |-> IF c \in OpenCalls
                                     THEN "ABANDONED" ELSE callSession[c]]
  /\ queueItem' = [queueItem EXCEPT !.agent = NoAgent,
       !.status = IF seen.status = "CALLBACK_SCHEDULED" /\ seen.due # "none"
                  THEN "CALLBACK_SCHEDULED" ELSE "NEW"]
  /\ Commit(r, "release")
  /\ UNCHANGED callback

-----------------------------------------------------------------------------
faultyStartCallRead(r, a) ==
  /\ ~CallItemLocked
  /\ queueItem.status # "CLOSED" /\ queueItem.agent = a
  /\ Begin(r, "start", NoAgent, NewItem)
  /\ UNCHANGED <<queueItem, callSession, callback>>
startCallRead(r, a) ==
  /\ ~CallItemLocked
  /\ queueItem.status # "CLOSED" /\ queueItem.agent = a
  /\ OpenCalls = {}
  /\ Begin(r, "start", NoAgent, NewItem)
  /\ UNCHANGED <<queueItem, callSession, callback>>
startCallWrite(r, c) ==
  /\ callSession[c] = "none" /\ \A d \in Calls : d < c => callSession[d] # "none"
  /\ callSession' = [callSession EXCEPT ![c] = "IN_PROGRESS"]
  /\ queueItem' = [queueItem EXCEPT !.status = "IN_PROGRESS"]
  /\ Commit(r, "start")
  /\ UNCHANGED callback

completeCallRead(r, c) ==
  /\ c \in OpenCalls
  /\ callRequest[r] = NoCallRequest
  /\ callRequest' = [callRequest EXCEPT ![r] =
       [NoCallRequest EXCEPT !.kind = "complete", !.call = c,
          !.seen = [queueItem EXCEPT !.status = "NEW", !.agent = NoAgent]]]
  /\ UNCHANGED <<queueItem, callSession, callback>>

\* The call was answered or missed, and a further one is arranged or not.
AfterCall(seen, missed, further, status) ==
  /\ status = "CALLBACK_SCHEDULED" =>
       further /\ (missed = 1 => seen.unanswered + 1 < MaxUnanswered)
  /\ status = "CLOSED" /\ missed = 1 => further \/ seen.unanswered + 1 >= MaxUnanswered
  /\ queueItem' = [queueItem EXCEPT !.status = status, !.unanswered = @ + missed,
                                    !.due = IF further THEN "later" ELSE seen.due]
  /\ callback' = IF further THEN [callback EXCEPT !.scheduled = @ + 1] ELSE callback
completeCallWrite(r) ==
  /\ ~CallItemLocked
  /\ Commit(r, "complete")
  /\ callSession' = [callSession EXCEPT ![callRequest[r].call] = "COMPLETED"]
  /\ \E missed \in {0, 1}, further \in BOOLEAN, status \in {"CLOSED", "CALLBACK_SCHEDULED"} :
       /\ queueItem.unanswered + missed <= MaxUnanswered
       /\ further => callback.scheduled + callback.cancelled < MaxCallbacks
       /\ AfterCall(callRequest[r].seen, missed, further, status)

-----------------------------------------------------------------------------
\* A callback of either status is set to CANCELLED ...
CancelOne(old) ==
  callback' = IF old = "scheduled"
              THEN [callback EXCEPT !.scheduled = @ - 1, !.cancelled = @ + 1]
              ELSE callback

\* ... and, unless it was the last one of an item that waits for it, that is all.
cancelCallbackRead(r, old) ==
  LET working == {q \in CallRequests : callRequest[q].cancels = old}
      rest == callback.scheduled - (IF old = "scheduled" THEN 1 ELSE 0) IN
  /\ Cardinality(working) < callback[old]
  /\ callRequest[r] = NoCallRequest
  /\ \/ /\ rest > 0 \/ queueItem.status # "CALLBACK_SCHEDULED"
        /\ CancelOne(old)
        /\ UNCHANGED callRequest
     \/ /\ rest = 0 /\ queueItem.status = "CALLBACK_SCHEDULED"
        /\ callRequest' = [callRequest EXCEPT ![r] =
                             [NoCallRequest EXCEPT !.kind = "cancel", !.cancels = old]]
        /\ UNCHANGED callback
  /\ UNCHANGED <<queueItem, callSession>>
cancelCallbackWrite(r) ==
  LET old == callRequest[r].cancels IN
  /\ Commit(r, "cancel")
  /\ CancelOne(old)
  /\ queueItem' = [queueItem EXCEPT !.status = "NEW", !.due = "none"]
  /\ UNCHANGED callSession

\* The time of the callback.
fallDue ==
  /\ queueItem.due = "later"
  /\ queueItem' = [queueItem EXCEPT !.due = "now"]
  /\ UNCHANGED <<callSession, callback, callRequest>>

\* A request fails: its transaction leaves nothing.
requestFails(r) ==
  /\ callRequest[r] # NoCallRequest
  /\ callRequest' = [callRequest EXCEPT ![r] = NoCallRequest]
  /\ UNCHANGED <<queueItem, callSession, callback>>

-----------------------------------------------------------------------------
CallInit ==
  /\ queueItem = NewItem
  /\ callSession = [c \in Calls |-> "none"]
  /\ callback = [scheduled |-> 0, cancelled |-> 0]
  /\ callRequest = [r \in CallRequests |-> NoCallRequest]

CallNext ==
  \/ \E a \in Agents : claimNext(a)
  \/ \E r \in CallRequests, a \in Agents : claimItemRead(r, a)
  \/ \E r \in CallRequests : claimItemWrite(r)
  \/ \E r \in CallRequests, a \in Agents : reassignRead(r, a)
  \/ \E r \in CallRequests : reassignWrite(r)
  \/ \E r \in CallRequests : releaseRead(r)
  \/ \E r \in CallRequests : releaseWrite(r)
  \/ \E r \in CallRequests, a \in Agents : startCallRead(r, a)
  \/ \E r \in CallRequests, c \in Calls : startCallWrite(r, c)
  \/ \E r \in CallRequests, c \in Calls : completeCallRead(r, c)
  \/ \E r \in CallRequests : completeCallWrite(r)
  \/ \E r \in CallRequests, st \in {"scheduled", "cancelled"} : cancelCallbackRead(r, st)
  \/ \E r \in CallRequests : cancelCallbackWrite(r)
  \/ fallDue
  \/ \E r \in CallRequests : requestFails(r)

CallSpec == CallInit /\ [][CallNext]_callVars

-----------------------------------------------------------------------------
Item == [status : {"NEW", "CALLBACK_SCHEDULED", "CLAIMED", "IN_PROGRESS", "CLOSED"},
         agent : Agents \union {NoAgent}, due : {"none", "later", "now"},
         unanswered : 0..MaxUnanswered]

CallTypeOK ==
  /\ queueItem \in Item
  /\ callSession \in [Calls -> {"none", "IN_PROGRESS", "COMPLETED", "ABANDONED"}]
  /\ callback \in [scheduled : 0..MaxCallbacks, cancelled : 0..MaxCallbacks]
  /\ callRequest \in [CallRequests ->
       [kind : {"none", "complete", "cancel"} \union LockHolders,
        agent : Agents \union {NoAgent}, seen : Item, call : {0} \union Calls,
        cancels : {"none", "scheduled", "cancelled"}]]

\* A customer is on one call at a time, and an item that is worked on has an agent,
\* although claimNext, completeCall and cancelCallback ignore the item's lock.
OneCallPerItem ==
  /\ \A c, d \in OpenCalls : c = d
  /\ OpenCalls # {} \/ queueItem.status \in {"CLAIMED", "IN_PROGRESS"} =>
       queueItem.agent # NoAgent
=============================================================================
