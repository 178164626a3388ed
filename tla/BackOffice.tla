------------------------------ MODULE BackOffice ------------------------------
(***************************************************************************)
(* The services behind the rental counter: the direct collection of a road *)
(* liability, the outbox and its invoices, complaints, sign-in sessions,   *)
(* the synchronisation of GPS positions, outbound messages and the call    *)
(* center's queue.  They share the database and the worker, but no row of  *)
(* the state modelled here, so a behaviour of all of them is, seen from    *)
(* one, a behaviour of that one with stutters.  The focus is the service   *)
(* whose steps are followed; the others rest in their initial state.       *)
(***************************************************************************)
EXTENDS DirectCollection, InvoiceOutbox, ComplaintCase, SessionRotation,
        GpsSync, MessageDelivery, CallQueue

VARIABLE focus

Services == {"collection", "outbox", "complaint", "session", "gps", "message", "calls"}

backOfficeVars ==
  <<focus, collectionVars, outboxVars, complaintVars, sessionVars, syncVars, deliveryVars,
    callVars>>

\* A service that is not followed rests in one initial state.
BackOfficeInit ==
  /\ focus \in Services
  /\ CollectionInit
  /\ OutboxInit
  /\ ComplaintInit
  /\ SessionInit
  /\ SyncInit
  /\ DeliveryInit
  /\ CallInit
  /\ focus = "collection" \/ ~cashOnly
  /\ focus = "outbox" \/ outbox = Unwritten(CHOOSE history \in Histories : TRUE)

Follow(service, frame) == focus = service /\ UNCHANGED <<focus, frame>>

BackOfficeNext ==
  \/ /\ Follow("collection",
               <<outboxVars, complaintVars, sessionVars, syncVars, deliveryVars, callVars>>)
     /\ CollectionNext
  \/ /\ Follow("outbox",
               <<collectionVars, complaintVars, sessionVars, syncVars, deliveryVars, callVars>>)
     /\ OutboxNext
  \/ /\ Follow("complaint",
               <<collectionVars, outboxVars, sessionVars, syncVars, deliveryVars, callVars>>)
     /\ ComplaintNext
  \/ /\ Follow("session",
               <<collectionVars, outboxVars, complaintVars, syncVars, deliveryVars, callVars>>)
     /\ SessionNext
  \/ /\ Follow("gps",
               <<collectionVars, outboxVars, complaintVars, sessionVars, deliveryVars, callVars>>)
     /\ SyncNext
  \/ /\ Follow("message",
               <<collectionVars, outboxVars, complaintVars, sessionVars, syncVars, callVars>>)
     /\ DeliveryNext
  \/ /\ Follow("calls",
               <<collectionVars, outboxVars, complaintVars, sessionVars, syncVars, deliveryVars>>)
     /\ CallNext

BackOfficeSpec ==
  /\ BackOfficeInit /\ [][BackOfficeNext]_backOfficeVars
  /\ CollectionFairness /\ OutboxFairness /\ ComplaintFairness

BackOfficeTypeOK ==
  /\ focus \in Services
  /\ CollectionTypeOK
  /\ OutboxTypeOK
  /\ ComplaintTypeOK
  /\ SessionTypeOK
  /\ SyncTypeOK
  /\ DeliveryTypeOK
  /\ CallTypeOK
=============================================================================
