---------------------------- MODULE MessageDelivery ----------------------------
(***************************************************************************)
(* The outbound messages of one WhatsApp conversation: the office's sends, *)
(* and the webhooks of the provider (Whapi) that echo a message or report  *)
(* its status, which may arrive before the answer to the send.             *)
(*                                                                         *)
(* The provider's id of a message is the message itself.  A webhook reads  *)
(* without a lock, and another may write before it does; what a            *)
(* transaction wrote is seen by the others when it commits, and a row it   *)
(* wrote is locked till then, so that its writes are one step at the end.  *)
(***************************************************************************)
EXTENDS Naturals

CONSTANTS
  MaxMessages,  \* bound on messages, of the office or typed on the phone
  Reports,      \* the statuses the provider reports, each once per message
  Handlers      \* webhook requests at work at the same time

Ranked == <<"PENDING", "SENT", "DELIVERED", "READ">>
ProviderStatus == {Ranked[k] : k \in DOMAIN Ranked} \union {"FAILED"}

ASSUME DeliveryConstants == MaxMessages \in Nat /\ Reports \subseteq ProviderStatus

Messages == 1..MaxMessages

VARIABLES
  atProvider,  \* messages the provider has
  row,         \* the office's WhatsAppMessage rows: sendState, providerMessageId
               \* (0: not set) and providerStatus
  echoed,      \* messages with a row made from their echo
  request,     \* what the send request of a message does, the events it has yet to
               \* apply, and the statuses its transaction wrote ("none": not written)
  reported,    \* MESSAGE_STATUS events stored for a message
  handler,     \* what each webhook request does, and what it has read
  dropped,     \* messages a status webhook of which stopped half way
  renamed      \* messages whose row was given to the echo of another message

deliveryVars == <<atProvider, row, echoed, request, reported, handler, dropped, renamed>>

Unsent == [state |-> "NONE", id |-> 0, status |-> "none"]
Nothing == [n \in Messages |-> "none"]
Request(next, events, written) == [next |-> next, events |-> events, written |-> written]
NoRequest == Request("none", {}, Nothing)
StatusJob(m, status) == [next |-> "status", message |-> m, row |-> 0, incoming |-> status,
                         read |-> "none"]
EchoJob(m, n) == [next |-> "echo", message |-> m, row |-> n, incoming |-> "none", read |-> "none"]
NoJob == [next |-> "none", message |-> 0, row |-> 0, incoming |-> "none", read |-> "none"]

\* (connectionId, providerMessageId) is unique.
RowOf(m) == {n \in Messages : row[n].id = m}
IdTaken(m) == m \in echoed \/ RowOf(m) # {}

\* nextProviderStatus
Rank(status) == CHOOSE k \in DOMAIN Ranked : Ranked[k] = status
nextProviderStatus(read, incoming) ==
  CASE read = "none"       -> incoming
    [] read = "FAILED"     -> "FAILED"
    [] incoming = "FAILED" -> IF read \in {"DELIVERED", "READ"} THEN read ELSE "FAILED"
    [] OTHER               -> IF Rank(incoming) >= Rank(read) THEN incoming ELSE read

-----------------------------------------------------------------------------
\* sendText: the message and its attempt are created in one transaction.
sendText(m) ==
  /\ row[m].state = "NONE" /\ m \notin atProvider
  /\ row' = [row EXCEPT ![m].state = "PENDING"]
  /\ request' = [request EXCEPT ![m].next = "calling"]
  /\ UNCHANGED <<atProvider, echoed, reported, handler, dropped, renamed>>

\* The provider takes the message of a send, or one typed on the phone.
providerTakes(m) ==
  /\ m \notin atProvider
  /\ request[m].next = "calling" \/ row[m].state = "NONE"
  /\ atProvider' = atProvider \union {m}
  /\ UNCHANGED <<row, echoed, request, reported, handler, dropped, renamed>>

\* sendTextMessage answers: accepted, perhaps without an id; rejected; or it is
\* not known what became of it.
Answers == {"accepted", "unnamed", "unknown", "rejected"}
sendTextMessage(m) ==
  {answer \in Answers : /\ answer \in {"accepted", "unnamed"} => m \in atProvider
                        /\ answer = "rejected" => m \notin atProvider}

\* completeAttempt stores the answer; another row with the id is a unique
\* violation, and fails the request.
Completed(m, answer, next) ==
  /\ request[m].next = "calling"
  /\ answer \in sendTextMessage(m)
  /\ answer = "accepted" => ~IdTaken(m) \/ row[m].id = m
  /\ row' = [row EXCEPT
       ![m].state = CASE answer \in {"accepted", "unnamed"} -> "ACCEPTED"
                      [] answer = "unknown" -> "UNKNOWN"
                      [] answer = "rejected" -> "FAILED",
       ![m].id = IF answer = "accepted" THEN m ELSE @]
  /\ request' = [request EXCEPT ![m].next = IF answer = "accepted" THEN next ELSE "ended"]
  /\ UNCHANGED <<atProvider, echoed, reported, handler, dropped, renamed>>
faultyCompleteAttempt(m, answer) == Completed(m, answer, "reconciled")
completeAttempt(m, answer) == Completed(m, answer, "reconciling")

\* The request fails, or its process stops.
requestLost(m) ==
  /\ request[m].next \notin {"none", "reconciled", "ended"}
  /\ request' = [request EXCEPT ![m] = Request("ended", {}, Nothing)]
  /\ UNCHANGED <<atProvider, row, echoed, reported, handler, dropped, renamed>>

\* reconcileOutboundStatusEvents: the events stored by now are read, ...
reconcileRead(m) ==
  /\ request[m].next = "reconciling"
  /\ request' = [request EXCEPT ![m] = Request("applying", reported[m], Nothing)]
  /\ UNCHANGED <<atProvider, row, echoed, reported, handler, dropped, renamed>>

\* ... and, in a transaction and in the order they occurred, each is applied to
\* the row with the id, if there is one and the status is new to it.
Seen(m, n) == IF request[m].written[n] # "none" THEN request[m].written[n] ELSE row[n].status
NewTo(m, event) == {n \in RowOf(m) : nextProviderStatus(Seen(m, n), event) # Seen(m, n)}

reconcileApply(m) ==
  /\ request[m].next = "applying"
  /\ \E event \in request[m].events :
       request' = [request EXCEPT
         ![m].events = @ \ {event},
         ![m].written = [n \in Messages |-> IF n \in NewTo(m, event)
                                           THEN nextProviderStatus(Seen(m, n), event)
                                           ELSE @[n]]]
  /\ UNCHANGED <<atProvider, row, echoed, reported, handler, dropped, renamed>>

reconcileCommit(m) ==
  /\ request[m].next = "applying" /\ request[m].events = {}
  /\ row' = [n \in Messages |-> [row[n] EXCEPT !.status = Seen(m, n)]]
  /\ request' = [request EXCEPT ![m] = Request("reconciled", {}, Nothing)]
  /\ UNCHANGED <<atProvider, echoed, reported, handler, dropped, renamed>>

-----------------------------------------------------------------------------
\* ingestStatus: the event is stored, or known already, ...
storeStatus(h, m, status) ==
  /\ handler[h] = NoJob
  /\ m \in atProvider
  /\ status \notin reported[m]
  /\ reported' = [reported EXCEPT ![m] = @ \union {status}]
  /\ handler' = [handler EXCEPT ![h] = StatusJob(m, status)]
  /\ UNCHANGED <<atProvider, row, echoed, request, dropped, renamed>>

\* ... then applyOutboundProviderStatus reads the row with the id, if there is
\* one and the status is new to it, ...
statusRead(h) ==
  LET m == handler[h].message
      new == {n \in RowOf(m) : nextProviderStatus(row[n].status, handler[h].incoming) # row[n].status}
  IN
  /\ handler[h].next = "status"
  /\ \/ /\ new = {}
        /\ handler' = [handler EXCEPT ![h] = NoJob]
     \/ \E n \in new :
          handler' = [handler EXCEPT ![h].next = "apply", ![h].row = n, ![h].read = row[n].status]
  /\ UNCHANGED <<atProvider, row, echoed, request, reported, dropped, renamed>>

\* ... and writes the next status to it, whatever status and id it has by now.
statusWrite(h) ==
  /\ handler[h].next = "apply"
  /\ row' = [row EXCEPT ![handler[h].row].status =
                nextProviderStatus(handler[h].read, handler[h].incoming)]
  /\ handler' = [handler EXCEPT ![h] = NoJob]
  /\ UNCHANGED <<atProvider, echoed, request, reported, dropped, renamed>>

\* ingestOutboundEcho: a message whose id no row has is that of the only send
\* without an id, if there is just one, ...
Candidates == {n \in Messages : row[n].id = 0 /\ row[n].state \in {"PENDING", "ACCEPTED", "UNKNOWN"}}
echoRead(h, m) ==
  /\ handler[h] = NoJob
  /\ m \in atProvider
  /\ ~IdTaken(m)
  /\ \/ \E n \in Candidates : /\ Candidates = {n}
                              /\ handler' = [handler EXCEPT ![h] = EchoJob(m, n)]
     \/ /\ \A n \in Candidates : Candidates # {n}
        /\ handler' = [handler EXCEPT ![h] = EchoJob(m, 0)]
  /\ UNCHANGED <<atProvider, row, echoed, request, reported, dropped, renamed>>

\* ... which gets the id, whatever id it has by now; else
\* materializeOutboundEchoMessage makes a row of the echo.
echoWrite(h) ==
  LET m == handler[h].message IN
  /\ handler[h].next = "echo"
  /\ \/ /\ handler[h].row # 0
        /\ ~IdTaken(m) \/ row[handler[h].row].id = m
        /\ row' = [row EXCEPT ![handler[h].row].id = m]
        /\ renamed' = renamed \union ({row[handler[h].row].id} \ {0, m})
        /\ UNCHANGED echoed
     \/ /\ handler[h].row = 0
        /\ echoed' = IF IdTaken(m) THEN echoed ELSE echoed \union {m}
        /\ UNCHANGED <<row, renamed>>
  /\ handler' = [handler EXCEPT ![h] = NoJob]
  /\ UNCHANGED <<atProvider, request, reported, dropped>>

\* The webhook fails: an echo is delivered again, a stored status is not applied
\* again.
handlerLost(h) ==
  /\ handler[h] # NoJob
  /\ dropped' = IF handler[h].next = "echo" THEN dropped
                ELSE dropped \union {handler[h].message}
  /\ handler' = [handler EXCEPT ![h] = NoJob]
  /\ UNCHANGED <<atProvider, row, echoed, request, reported, renamed>>

-----------------------------------------------------------------------------
DeliveryInit ==
  /\ atProvider = {}
  /\ row = [m \in Messages |-> Unsent]
  /\ echoed = {}
  /\ request = [m \in Messages |-> NoRequest]
  /\ reported = [m \in Messages |-> {}]
  /\ handler = [h \in Handlers |-> NoJob]
  /\ dropped = {}
  /\ renamed = {}

Send(m) ==
  \/ sendText(m)
  \/ providerTakes(m)
  \/ \E answer \in Answers : completeAttempt(m, answer)
  \/ requestLost(m)
  \/ reconcileRead(m)
  \/ reconcileApply(m)
  \/ reconcileCommit(m)

Hook(h) ==
  \/ \E m \in Messages, status \in Reports : storeStatus(h, m, status)
  \/ statusRead(h)
  \/ statusWrite(h)
  \/ \E m \in Messages : echoRead(h, m)
  \/ echoWrite(h)
  \/ handlerLost(h)

DeliveryNext ==
  \/ \E m \in Messages : Send(m)
  \/ \E h \in Handlers : Hook(h)

DeliverySpec == DeliveryInit /\ [][DeliveryNext]_deliveryVars

-----------------------------------------------------------------------------
RowStatus == {"none"} \union ProviderStatus
MessageRow == [state : {"NONE", "PENDING", "ACCEPTED", "UNKNOWN", "FAILED"},
               id : {0} \union Messages, status : RowStatus]
SendRequest == [next : {"none", "calling", "reconciling", "applying", "reconciled", "ended"},
                events : SUBSET Reports, written : [Messages -> RowStatus]]
WebhookJob == [next : {"none", "status", "apply", "echo"}, message : {0} \union Messages,
               row : {0} \union Messages, incoming : {"none"} \union Reports, read : RowStatus]

DeliveryTypeOK ==
  /\ atProvider \subseteq Messages /\ echoed \subseteq Messages
  /\ dropped \subseteq Messages /\ renamed \subseteq Messages
  /\ row \in [Messages -> MessageRow]
  /\ request \in [Messages -> SendRequest]
  /\ reported \in [Messages -> SUBSET Reports]
  /\ handler \in [Handlers -> WebhookJob]

\* A status reported for a message the provider accepted is shown, whether its
\* webhook came before the answer to the send, after it, or in between, and
\* whatever other webhooks do at once, unless the echo of another message was
\* taken for it.
ReportsAreShown ==
  \A m \in Messages :
    /\ request[m].next = "reconciled"
    /\ reported[m] # {}
    /\ m \notin dropped \union renamed
    /\ \A h \in Handlers : handler[h].message = m => handler[h].next = "echo"
    => row[m].status # "none"
=============================================================================
