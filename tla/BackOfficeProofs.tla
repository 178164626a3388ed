--------------------------- MODULE BackOfficeProofs ---------------------------
(***************************************************************************)
(* A behaviour of the back office is, seen from each of its services, a    *)
(* behaviour of that service: what is proved of the services one by one    *)
(* holds of the office, which is what the runs check.                      *)
(***************************************************************************)
EXTENDS BackOffice, BillingProofs, CustomerCareProofs, SessionRotationProofs

EachNext ==
  /\ [CollectionNext]_collectionVars
  /\ [OutboxNext]_outboxVars
  /\ [ComplaintNext]_complaintVars
  /\ [SessionNext]_sessionVars
  /\ [SyncNext]_syncVars
  /\ [DeliveryNext]_deliveryVars
  /\ [CallNext]_callVars

\* A step of the office is a step of the service that is followed, and the other
\* services stutter.
LEMMA StepsAreOfServices == [BackOfficeNext]_backOfficeVars => EachNext
  <1> SUFFICES ASSUME [BackOfficeNext]_backOfficeVars PROVE EachNext
    OBVIOUS
  <1> USE DEF EachNext
  <1>1. CASE UNCHANGED backOfficeVars
    <2>1. UNCHANGED <<collectionVars, outboxVars, complaintVars, sessionVars, syncVars, deliveryVars, callVars>>
      BY <1>1 DEF backOfficeVars
    <2> QED
      BY <2>1
  <1>2. CASE /\ Follow("collection",
                  <<outboxVars, complaintVars, sessionVars, syncVars, deliveryVars, callVars>>)
             /\ CollectionNext
    BY <1>2 DEF Follow
  <1>3. CASE /\ Follow("outbox",
                  <<collectionVars, complaintVars, sessionVars, syncVars, deliveryVars, callVars>>)
             /\ OutboxNext
    BY <1>3 DEF Follow
  <1>4. CASE /\ Follow("complaint",
                  <<collectionVars, outboxVars, sessionVars, syncVars, deliveryVars, callVars>>)
             /\ ComplaintNext
    BY <1>4 DEF Follow
  <1>5. CASE /\ Follow("session",
                  <<collectionVars, outboxVars, complaintVars, syncVars, deliveryVars, callVars>>)
             /\ SessionNext
    BY <1>5 DEF Follow
  <1>6. CASE /\ Follow("gps",
                  <<collectionVars, outboxVars, complaintVars, sessionVars, deliveryVars, callVars>>)
             /\ SyncNext
    BY <1>6 DEF Follow
  <1>7. CASE /\ Follow("message",
                  <<collectionVars, outboxVars, complaintVars, sessionVars, syncVars, callVars>>)
             /\ DeliveryNext
    BY <1>7 DEF Follow
  <1>8. CASE /\ Follow("calls",
                  <<collectionVars, outboxVars, complaintVars, sessionVars, syncVars, deliveryVars>>)
             /\ CallNext
    BY <1>8 DEF Follow
  <1> QED
    BY <1>1, <1>2, <1>3, <1>4, <1>5, <1>6, <1>7, <1>8 DEF BackOfficeNext

\* The service that is followed is chosen at first, and is one of them.
FocusFits == focus \in Services
LEMMA FocusIsKept == FocusFits /\ [BackOfficeNext]_backOfficeVars => FocusFits'
  BY DEF FocusFits, BackOfficeNext, backOfficeVars, Follow

\* Every service behaves as it does alone, under the fairness the office states.
THEOREM OfficeImplementsServices ==
  BackOfficeSpec => /\ CollectionSpec /\ OutboxSpec /\ ComplaintSpec /\ SessionSpec
                    /\ SyncSpec /\ DeliverySpec /\ CallSpec
  <1>1. BackOfficeInit => /\ CollectionInit /\ OutboxInit /\ ComplaintInit /\ SessionInit
                          /\ SyncInit /\ DeliveryInit /\ CallInit
    BY DEF BackOfficeInit
  <1>2. [BackOfficeNext]_backOfficeVars =>
          /\ [CollectionNext]_collectionVars /\ [OutboxNext]_outboxVars
          /\ [ComplaintNext]_complaintVars /\ [SessionNext]_sessionVars
          /\ [SyncNext]_syncVars /\ [DeliveryNext]_deliveryVars /\ [CallNext]_callVars
    BY StepsAreOfServices DEF EachNext
  <1> QED
    BY <1>1, <1>2, PTL
       DEF BackOfficeSpec, CollectionSpec, OutboxSpec, ComplaintSpec, SessionSpec, SyncSpec,
           DeliverySpec, CallSpec

\* The state of every service keeps its types.
THEOREM OfficeIsTyped == BackOfficeSpec => []BackOfficeTypeOK
  <1>1. BackOfficeInit => FocusFits
    BY DEF BackOfficeInit, FocusFits
  <1>2. SessionSpec => []SessionInvariant
    BY SessionStarts, SessionStep, PTL DEF SessionSpec
  <1>3. SyncInit => SyncInvariant
    BY SyncConstants DEF SyncInit, SyncInvariant, SyncTypeOK, NoLease, Syncing
  <1>4. SyncSpec => []SyncInvariant
    BY <1>3, SyncStep, PTL DEF SyncSpec
  <1>5. /\ CollectionInvariant => CollectionTypeOK
        /\ OutboxInvariant => OutboxTypeOK
        /\ CaseInvariant => ComplaintTypeOK
        /\ SessionInvariant => SessionTypeOK
        /\ SyncInvariant => SyncTypeOK
        /\ DeliveryInvariant => DeliveryTypeOK
        /\ CallbackInvariant => CallTypeOK
    BY CallbackTypes
       DEF CollectionInvariant, OutboxInvariant, CaseInvariant, SessionInvariant, SyncInvariant,
           DeliveryInvariant
  <1>6. BackOfficeSpec => []FocusFits
    BY <1>1, FocusIsKept, PTL DEF BackOfficeSpec
  <1>7. (/\ FocusFits /\ CollectionInvariant /\ OutboxInvariant /\ CaseInvariant
         /\ SessionInvariant /\ SyncInvariant /\ DeliveryInvariant /\ CallbackInvariant)
        => BackOfficeTypeOK
    BY <1>5 DEF BackOfficeTypeOK, FocusFits
  <1> QED
    BY <1>2, <1>4, <1>6, <1>7, OfficeImplementsServices, CollectionIsInvariant,
       OutboxIsInvariant, CaseIsInvariant, DeliveryIsInvariant, CallsAreInvariant, PTL

\* What is proved of the services alone holds in the office.
THEOREM OfficeIsSafe ==
  BackOfficeSpec => /\ []LiabilityCollectedOnce /\ []SettledByItsPayment
                    /\ []NumbersAreConsecutive /\ []RevisionsAdvance
                    /\ []ProcessedIsShown /\ []SentOnce
                    /\ []OneClockRuns /\ []FirstResponseAgrees
                    /\ []OneLiveSession /\ []RotatedOnce /\ []OneSyncOwner
                    /\ []ReportsAreShown /\ []OneCallPerItem
  BY OfficeImplementsServices, CollectedOnce, SettledByTheCollected, InvoicesAreNumbered,
     RevisionsAreOrdered, ProcessedEventsAreShown, NotificationsAreSentOnce, OneCycleRuns,
     ResponseAgrees, OneTokenLives, TokensRotateOnce, OneOwnerSyncs, ReportsAreKept,
     OneCallAtATime, PTL
=============================================================================
