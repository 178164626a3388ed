-------------------------- MODULE SessionRotationProofs --------------------------
(***************************************************************************)
(* One live refresh token per sign-in, each exchanged once, and one owner  *)
(* of a GPS account's lease, for any number of requests and processes.     *)
(***************************************************************************)
EXTENDS SessionRotation, GpsSync, TLAPS

\* A process at work whose lease has not run out is the lease's owner.
SyncInvariant ==
  /\ SyncTypeOK
  /\ \A p \in Syncing \ overran : lease = [owner |-> p, valid |-> TRUE]

LEMMA SyncStep == SyncInvariant /\ [SyncNext]_syncVars => SyncInvariant'
  <1> SUFFICES ASSUME SyncInvariant, [SyncNext]_syncVars PROVE SyncInvariant'
    OBVIOUS
  <1> USE DEF SyncInvariant, SyncTypeOK, Syncing
  <1>1. ASSUME NEW p \in Processes, tryAcquireGpsProviderSyncLease(p) PROVE SyncInvariant'
    <2>1. SyncTypeOK'
      BY <1>1 DEF tryAcquireGpsProviderSyncLease
    <2>2. Syncing \ overran = {}
      BY <1>1 DEF tryAcquireGpsProviderSyncLease
    <2>3. /\ lease' = [owner |-> p, valid |-> TRUE]
          /\ \A q \in (Syncing \ overran)' : q = p
      BY <1>1, <2>2 DEF tryAcquireGpsProviderSyncLease
    <2> QED
      BY <2>1, <2>3
  <1>2. ASSUME NEW p \in Processes,
               fetchFleetSnapshot(p) \/ ingestPositions(p) \/ giveUp(p) \/ crashSync(p)
        PROVE  SyncInvariant'
    BY <1>2 DEF fetchFleetSnapshot, ingestPositions, giveUp, crashSync
  <1>3. ASSUME NEW p \in Processes, releaseGpsProviderSyncLease(p) PROVE SyncInvariant'
    <2>1. SyncTypeOK'
      BY <1>3 DEF releaseGpsProviderSyncLease, NoLease
    <2>2. \A q \in (Syncing \ overran)' : q \in Syncing \ overran /\ q # p
      BY <1>3 DEF releaseGpsProviderSyncLease
    <2>3. \A q \in (Syncing \ overran)' : lease.owner = q
      BY <2>2
    <2> QED
      BY <1>3, <2>1, <2>2, <2>3 DEF releaseGpsProviderSyncLease
  <1>4. CASE leaseRunsOut
    <2>1. SyncTypeOK'
      BY <1>4 DEF leaseRunsOut
    <2>2. \A q \in Syncing \ overran : q = lease.owner
      OBVIOUS
    <2>3. (Syncing \ overran)' = {}
      BY <1>4, <2>2 DEF leaseRunsOut
    <2> QED
      BY <2>1, <2>3
  <1>5. CASE UNCHANGED syncVars
    BY <1>5 DEF syncVars
  <1> QED
    BY <1>1, <1>2, <1>3, <1>4, <1>5 DEF SyncNext

\* Processes synchronise an account at once only if the lease of one ran out.
THEOREM OneOwnerSyncs == SyncSpec => []OneSyncOwner
  <1>1. SyncInit => SyncInvariant
    BY SyncConstants DEF SyncInit, SyncInvariant, SyncTypeOK, NoLease, Syncing
  <1>2. SyncInvariant => OneSyncOwner
    BY SyncConstants DEF SyncInvariant, OneSyncOwner, Syncing
  <1> QED
    BY <1>1, <1>2, SyncStep, PTL DEF SyncSpec

-----------------------------------------------------------------------------
\* Rows of a family descend from it, and only a row that was exchanged has a
\* successor.
FamiliesHold ==
  \A s \in Sessions :
    /\ auth[s].family = 0 => auth[s] = NoSession
    /\ auth[s].family # 0 => auth[auth[s].family].family # 0
    /\ auth[s].from # 0 => auth[auth[s].from].revoked /\ auth[auth[s].from].family # 0

\* A refresh has read a row; one that has claimed it holds the only right to
\* extend its family.
Creating == {r \in Refreshes : refresh[r].next = "create"}
RefreshHolds(r) ==
  /\ refresh[r].next # "none" => /\ refresh[r].session \in Sessions
                                 /\ auth[refresh[r].session].family # 0
  /\ r \in Creating =>
       /\ auth[refresh[r].session].revoked
       /\ \A t \in Sessions : auth[t].from # refresh[r].session
       /\ \A t \in Live : auth[t].family # auth[refresh[r].session].family
       /\ \A q \in Creating \ {r} :
            auth[refresh[q].session].family # auth[refresh[r].session].family
RefreshesHold == \A r \in Refreshes : RefreshHolds(r)

SessionInvariant ==
  /\ SessionTypeOK
  /\ FamiliesHold
  /\ RefreshesHold
  /\ OneLiveSession
  /\ RotatedOnce

LEMMA SessionIds == Sessions \subseteq Nat /\ 0 \notin Sessions
  BY SessionConstants DEF Sessions

SessionRow == [family : {0} \union Sessions, from : {0} \union Sessions,
               revoked : BOOLEAN, expired : BOOLEAN]

\* What the type invariant says of one row.
LEMMA RowTyped ==
  ASSUME SessionTypeOK, NEW s \in Sessions
  PROVE  /\ auth[s] \in SessionRow
         /\ auth[s].family \in {0} \union Sessions /\ auth[s].from \in {0} \union Sessions
  BY DEF SessionTypeOK, SessionRow

LEMMA RowExpires ==
  ASSUME NEW row \in SessionRow
  PROVE  LET expired == [row EXCEPT !.expired = TRUE] IN
         /\ expired \in SessionRow /\ expired.revoked = row.revoked
         /\ expired.family = row.family /\ expired.from = row.from
  BY DEF SessionRow

LEMMA RowIsEmpty ==
  ASSUME NEW row \in SessionRow, row.family = 0, row.from = 0, row.revoked, ~row.expired
  PROVE  row = NoSession
  BY DEF SessionRow, NoSession

LEMMA FamiliesKept ==
  ASSUME SessionTypeOK, FamiliesHold,
         \A s \in Sessions : /\ auth'[s].family = auth[s].family
                             /\ auth'[s].from = auth[s].from
                             /\ auth[s].revoked => auth'[s].revoked
                             /\ auth[s] = NoSession => auth'[s] = NoSession
  PROVE  FamiliesHold'
  <1> SUFFICES ASSUME NEW s \in Sessions
               PROVE  /\ auth'[s].family = 0 => auth'[s] = NoSession
                      /\ auth'[s].family # 0 => auth'[auth'[s].family].family # 0
                      /\ auth'[s].from # 0 => /\ auth'[auth'[s].from].revoked
                                              /\ auth'[auth'[s].from].family # 0
    BY DEF FamiliesHold
  <1>1. auth[s].family \in {0} \union Sessions /\ auth[s].from \in {0} \union Sessions
    BY RowTyped
  <1> QED
    BY <1>1 DEF FamiliesHold

LEMMA CreatingKnows ==
  ASSUME RefreshesHold, NEW r \in Refreshes, r \in Creating
  PROVE  /\ refresh[r].session \in Sessions /\ auth[refresh[r].session].family # 0
         /\ auth[refresh[r].session].revoked
         /\ \A t \in Sessions : auth[t].from # refresh[r].session
         /\ \A t \in Live : auth[t].family # auth[refresh[r].session].family
         /\ \A q \in Creating \ {r} :
              auth[refresh[q].session].family # auth[refresh[r].session].family
  BY DEF RefreshesHold, RefreshHolds, Creating

\* A refresh that a step leaves alone keeps what it relies on, if its session
\* stays as it was and its family gets no rival.
LEMMA RefreshKept ==
  ASSUME RefreshesHold, NEW r \in Refreshes, refresh'[r] = refresh[r],
         refresh[r].session \in Sessions =>
           /\ auth'[refresh[r].session].family = auth[refresh[r].session].family
           /\ auth[refresh[r].session].revoked => auth'[refresh[r].session].revoked,
         r \in Creating => \A t \in Sessions : auth'[t].from # refresh[r].session,
         r \in Creating =>
           \A t \in Live' : auth'[t].family # auth[refresh[r].session].family,
         r \in Creating =>
           \A q \in Creating' \ {r} :
             auth'[refresh'[q].session].family # auth[refresh[r].session].family
  PROVE  RefreshHolds(r)'
  <1>1. refresh[r].next # "none" => /\ refresh[r].session \in Sessions
                                    /\ auth[refresh[r].session].family # 0
    BY DEF RefreshesHold, RefreshHolds
  <1>2. CASE r \in Creating
    BY <1>1, <1>2, CreatingKnows DEF RefreshHolds, Creating
  <1>3. CASE r \notin Creating
    BY <1>1, <1>3 DEF RefreshHolds, Creating
  <1> QED
    BY <1>2, <1>3

\* A step that only revokes or expires sessions, and drops refreshes or has one
\* read a live session.
LEMMA RevokingKeeps ==
  ASSUME SessionInvariant, SessionTypeOK',
         \A s \in Sessions : /\ auth'[s].family = auth[s].family
                             /\ auth'[s].from = auth[s].from
                             /\ auth[s].revoked => auth'[s].revoked
                             /\ auth[s] = NoSession => auth'[s] = NoSession,
         \A r \in Refreshes : \/ refresh'[r] = refresh[r]
                              \/ refresh'[r].next = "none"
                              \/ /\ refresh'[r].next = "claim"
                                 /\ refresh'[r].session \in Sessions
                                 /\ auth[refresh'[r].session].family # 0
  PROVE  SessionInvariant'
  <1> USE SessionIds DEF SessionInvariant
  <1>1. FamiliesHold'
    BY FamiliesKept
  <1>2. RefreshesHold'
    <2> SUFFICES ASSUME NEW r \in Refreshes PROVE RefreshHolds(r)'
      BY DEF RefreshesHold
    <2>1. Live' \subseteq Live /\ Live \subseteq Sessions
      BY DEF Live, SessionTypeOK
    <2>2. /\ Creating' \subseteq Creating /\ Creating \subseteq Refreshes
          /\ \A q \in Creating' : refresh'[q] = refresh[q]
      BY DEF Creating
    <2>3. \A q \in Refreshes : q \in Creating => refresh[q].session \in Sessions
      BY CreatingKnows
    <2>4. CASE refresh'[r] = refresh[r]
      <3> DEFINE old == refresh[r].session
      <3>1. old \in Sessions =>
             auth'[old].family = auth[old].family /\ (auth[old].revoked => auth'[old].revoked)
        BY <2>1, <2>2, <2>3, <2>4
      <3>2. r \in Creating => \A t \in Sessions : auth'[t].from # old
        BY <2>1, <2>2, <2>3, <2>4, CreatingKnows
      <3>3. r \in Creating => \A t \in Live' : auth'[t].family # auth[old].family
        BY <2>1, <2>2, <2>3, <2>4, CreatingKnows
      <3>4. ASSUME r \in Creating, NEW p \in Creating' \ {r}
            PROVE  auth'[refresh'[p].session].family # auth[old].family
        <4>1. p \in Creating /\ refresh'[p] = refresh[p]
          BY <2>1, <2>2, <2>3, <2>4
        <4>2. /\ refresh[p].session \in Sessions
              /\ auth[refresh[p].session].family # auth[old].family
          BY <2>1, <2>2, <2>3, <2>4, <3>4, <4>1, CreatingKnows
        <4> QED
          BY <2>1, <2>2, <2>3, <2>4, <4>1, <4>2
      <3> QED
        BY <2>1, <2>2, <2>3, <2>4, <3>1, <3>2, <3>3, <3>4, RefreshKept
    <2>5. CASE refresh'[r] # refresh[r]
      BY <2>5 DEF RefreshHolds, Creating
    <2> QED
      BY <2>4, <2>5
  <1>3. OneLiveSession'
    BY DEF OneLiveSession, Live
  <1>4. RotatedOnce'
    BY DEF RotatedOnce
  <1> QED
    BY <1>1, <1>2, <1>3, <1>4

\* The rows after a revocation.
LEMMA RevokedRows ==
  ASSUME SessionTypeOK, NEW S
  PROVE  /\ Revoked(S) \in [Sessions -> SessionRow]
         /\ \A s \in Sessions : /\ Revoked(S)[s].family = auth[s].family
                                /\ Revoked(S)[s].from = auth[s].from
                                /\ auth[s].revoked => Revoked(S)[s].revoked
                                /\ s \in S => Revoked(S)[s].revoked
                                /\ auth[s] = NoSession => Revoked(S)[s] = NoSession
  <1>1. \A s \in Sessions : auth[s] \in SessionRow
    BY RowTyped
  <1>2. ASSUME NEW row \in SessionRow
        PROVE  /\ [row EXCEPT !.revoked = TRUE] \in SessionRow
               /\ [row EXCEPT !.revoked = TRUE].family = row.family
               /\ [row EXCEPT !.revoked = TRUE].from = row.from
               /\ [row EXCEPT !.revoked = TRUE].expired = row.expired
               /\ [row EXCEPT !.revoked = TRUE].revoked
    BY DEF SessionRow
  <1>3. \A s \in Sessions :
          Revoked(S)[s] = IF s \in S THEN [auth[s] EXCEPT !.revoked = TRUE] ELSE auth[s]
    BY DEF Revoked
  <1>4. /\ NoSession \in SessionRow /\ ~NoSession.expired
        /\ NoSession.family = 0 /\ NoSession.from = 0
    BY DEF NoSession, SessionRow
  <1>5. [NoSession EXCEPT !.revoked = TRUE] = NoSession
    BY <1>2, <1>4, RowIsEmpty
  <1> QED
    BY <1>1, <1>2, <1>3, <1>5 DEF Revoked

\* A step that revokes some sessions and leaves refreshes alone or ends one.
LEMMA RevokesKeep ==
  ASSUME SessionInvariant, NEW S, auth' = Revoked(S),
         refresh' = refresh \/ \E r \in Refreshes : refresh' = [refresh EXCEPT ![r] = Waiting]
  PROVE  SessionInvariant'
  <1>1. SessionTypeOK
    BY DEF SessionInvariant
  <1>2. \A r \in Refreshes : refresh'[r] = refresh[r] \/ refresh'[r].next = "none"
    BY <1>1 DEF SessionTypeOK, Waiting
  <1>3. SessionTypeOK'
    <2>1. auth' \in [Sessions -> SessionRow]
      BY <1>1, RevokedRows
    <2>2. refresh' \in [Refreshes -> [next : {"none", "claim", "create"},
                                     session : {0} \union Sessions]]
      BY <1>1 DEF SessionTypeOK, Waiting
    <2> QED
      BY <2>1, <2>2 DEF SessionTypeOK, SessionRow
  <1> QED
    BY <1>1, <1>2, <1>3, RevokedRows, RevokingKeeps

\* A login starts a family of one; the successor of a session joins its family.
LEMMA IssueKeeps ==
  ASSUME SessionInvariant, NEW s \in Sessions, issueSession(s)
  PROVE  SessionInvariant'
  <1> DEFINE row == [family |-> s, from |-> 0, revoked |-> FALSE, expired |-> FALSE]
  <1> USE SessionIds DEF SessionInvariant
  <1>1. /\ auth[s] = NoSession /\ auth' = [auth EXCEPT ![s] = row] /\ refresh' = refresh
        /\ auth[s].family = 0
    BY DEF issueSession, Free, NoSession
  <1>2. SessionTypeOK'
    BY <1>1 DEF SessionTypeOK
  <1>3. auth'[s] = row /\ \A t \in Sessions \ {s} : auth'[t] = auth[t] /\ auth[t].family # s
    <2>1. auth \in [Sessions -> SessionRow]
      BY DEF SessionTypeOK, SessionRow
    <2> QED
      BY <1>1, <2>1 DEF FamiliesHold
  <1>4. row.family = s /\ row.from = 0 /\ row # NoSession
    BY DEF NoSession
  <1>5. FamiliesHold'
    <2>1. \A t \in Sessions : auth[t].from # s
      BY <1>1 DEF FamiliesHold
    <2> QED
      BY <1>1, <1>3, <1>4, <2>1, RowTyped DEF FamiliesHold
  <1>6. RefreshesHold'
    <2> SUFFICES ASSUME NEW r \in Refreshes PROVE RefreshHolds(r)'
      BY DEF RefreshesHold
    <2>1. \A q \in Refreshes : refresh[q].next # "none" => refresh[q].session \in Sessions \ {s}
      BY <1>1 DEF RefreshesHold, RefreshHolds
    <2>2. Live' \subseteq Live \union {s} /\ Live \subseteq Sessions
      BY <1>3 DEF Live
    <2>3. /\ Creating' = Creating /\ Creating \subseteq Refreshes
          /\ \A q \in Creating : refresh[q].next # "none"
      BY <1>1 DEF Creating
    <2>5. CASE refresh[r].next # "none"
      <3> DEFINE old == refresh[r].session
      <3>1. old \in Sessions =>
             auth'[old].family = auth[old].family /\ (auth[old].revoked => auth'[old].revoked)
        BY <1>1, <1>3, <1>4, <2>1, <2>2, <2>3, <2>5
      <3>2. r \in Creating => \A t \in Sessions : auth'[t].from # old
        BY <1>1, <1>3, <1>4, <2>1, <2>2, <2>3, <2>5, CreatingKnows
      <3>3. ASSUME r \in Creating, NEW t \in Live'
            PROVE  auth'[t].family # auth[old].family
        <4>1. old \in Sessions \ {s} /\ auth[old].family # s
          BY <1>3, <2>1, <2>5
        <4>2. CASE t = s
          BY <1>3, <1>4, <4>1, <4>2
        <4>3. CASE t # s
          BY <1>3, <2>2, <3>3, <4>3, CreatingKnows
        <4> QED
          BY <4>2, <4>3
      <3>4. ASSUME r \in Creating, NEW p \in Creating' \ {r}
            PROVE  auth'[refresh'[p].session].family # auth[old].family
        <4>1. p \in Creating /\ refresh'[p] = refresh[p]
          BY <1>1, <1>3, <1>4, <2>1, <2>2, <2>3, <2>5
        <4>2. /\ refresh[p].session \in Sessions
              /\ auth[refresh[p].session].family # auth[old].family
          BY <1>1, <1>3, <1>4, <2>1, <2>2, <2>3, <2>5, <3>4, <4>1, CreatingKnows
        <4> QED
          BY <1>1, <1>3, <1>4, <2>1, <2>2, <2>3, <2>5, <4>1, <4>2
      <3> QED
        BY <1>1, <1>3, <1>4, <2>1, <2>2, <2>3, <2>5, <3>1, <3>2, <3>3, <3>4, RefreshKept
    <2>6. CASE refresh[r].next = "none"
      BY <1>1, <2>6 DEF RefreshHolds, Creating
    <2> QED
      BY <2>5, <2>6
  <1>7. OneLiveSession'
    BY <1>3, <1>4 DEF OneLiveSession, Live
  <1>8. RotatedOnce'
    BY <1>3, <1>4 DEF RotatedOnce
  <1> QED
    BY <1>2, <1>5, <1>6, <1>7, <1>8

LEMMA CreateKeeps ==
  ASSUME SessionInvariant, NEW r \in Refreshes, NEW s \in Sessions, refreshCreate(r, s)
  PROVE  SessionInvariant'
  <1> DEFINE old == refresh[r].session
             row == [family |-> auth[old].family, from |-> old, revoked |-> FALSE,
                     expired |-> FALSE]
  <1> USE SessionIds DEF SessionInvariant
  <1>1. /\ auth[s] = NoSession /\ auth' = [auth EXCEPT ![s] = row]
        /\ refresh' = [refresh EXCEPT ![r] = Waiting] /\ r \in Creating
        /\ auth[s].family = 0
    BY DEF refreshCreate, Free, NoSession, Creating
  <1>2. /\ old \in Sessions /\ auth[old].family # 0 /\ auth[old].revoked
        /\ auth[old].family \in Sessions /\ old # s
    BY <1>1 DEF RefreshesHold, RefreshHolds, Creating, SessionTypeOK
  <1>3. SessionTypeOK'
    BY <1>1, <1>2 DEF SessionTypeOK, Waiting
  <1>4. /\ auth'[s] = row /\ \A t \in Sessions \ {s} : auth'[t] = auth[t]
        /\ refresh'[r].next = "none"
        /\ \A q \in Refreshes \ {r} : refresh'[q] = refresh[q]
    <2>1. auth \in [Sessions -> SessionRow]
      BY DEF SessionTypeOK, SessionRow
    <2> QED
      BY <1>1, <2>1 DEF SessionTypeOK, Waiting
  <1>5. row.family = auth[old].family /\ row.from = old /\ row # NoSession
    BY <1>2 DEF NoSession
  <1>6. FamiliesHold'
    <2>1. \A t \in Sessions : auth[t].from # s
      BY <1>1 DEF FamiliesHold
    <2> QED
      BY <1>1, <1>2, <1>4, <1>5, <2>1, RowTyped DEF FamiliesHold
  <1>7. RefreshesHold'
    <2> SUFFICES ASSUME NEW q \in Refreshes PROVE RefreshHolds(q)'
      BY DEF RefreshesHold
    <2>1. \A p \in Refreshes \ {r} :
            /\ refresh[p].next # "none" => refresh[p].session \in Sessions \ {s}
            /\ p \in Creating => auth[refresh[p].session].family # auth[old].family
      BY <1>1, CreatingKnows DEF RefreshesHold, RefreshHolds
    <2>2. Live' \subseteq Live \union {s} /\ Live \subseteq Sessions
      BY <1>4 DEF Live
    <2>3. /\ Creating' \subseteq Creating \ {r} /\ Creating \subseteq Refreshes
          /\ \A p \in Creating' : refresh'[p] = refresh[p] /\ refresh[p].next # "none"
      BY <1>4 DEF Creating
    <2>4. old # refresh[q].session \/ q = r \/ q \notin Creating
      BY <2>1
    <2>5. CASE q # r /\ refresh[q].next # "none"
      <3> DEFINE mine == refresh[q].session
      <3>1. mine \in Sessions =>
             auth'[mine].family = auth[mine].family /\ (auth[mine].revoked => auth'[mine].revoked)
        BY <1>4, <1>5, <2>1, <2>2, <2>3, <2>4, <2>5
      <3>2. q \in Creating => \A t \in Sessions : auth'[t].from # mine
        BY <1>4, <1>5, <2>1, <2>2, <2>3, <2>4, <2>5, CreatingKnows
      <3>3. q \in Creating => \A t \in Live' : auth'[t].family # auth[mine].family
        BY <1>4, <1>5, <2>1, <2>2, <2>3, <2>4, <2>5, CreatingKnows
      <3>4. ASSUME q \in Creating, NEW p \in Creating' \ {q}
            PROVE  auth'[refresh'[p].session].family # auth[mine].family
        <4>1. p \in Creating /\ refresh'[p] = refresh[p]
          BY <1>4, <1>5, <2>1, <2>2, <2>3, <2>4, <2>5
        <4>2. /\ refresh[p].session \in Sessions
              /\ auth[refresh[p].session].family # auth[mine].family
          BY <1>4, <1>5, <2>1, <2>2, <2>3, <2>4, <2>5, <3>4, <4>1, CreatingKnows
        <4> QED
          BY <1>4, <1>5, <2>1, <2>2, <2>3, <2>4, <2>5, <4>1, <4>2
      <3> QED
        BY <1>4, <1>5, <2>1, <2>2, <2>3, <2>4, <2>5, <3>1, <3>2, <3>3, <3>4, RefreshKept
    <2>6. CASE q = r \/ refresh[q].next = "none"
      BY <1>4, <2>6 DEF RefreshHolds, Creating
    <2> QED
      BY <2>5, <2>6
  <1>8. OneLiveSession'
    <2>1. \A t \in Live : auth[t].family # auth[old].family
      BY <1>1 DEF RefreshesHold, RefreshHolds
    <2> QED
      BY <1>4, <1>5, <2>1 DEF OneLiveSession, Live
  <1>9. RotatedOnce'
    <2>1. \A t \in Sessions : auth[t].from # old
      BY <1>1 DEF RefreshesHold, RefreshHolds
    <2> QED
      BY <1>4, <1>5, <2>1 DEF RotatedOnce
  <1> QED
    BY <1>3, <1>6, <1>7, <1>8, <1>9

LEMMA ClaimKeeps ==
  ASSUME SessionInvariant, NEW r \in Refreshes, refreshClaim(r)
  PROVE  SessionInvariant'
  <1> DEFINE s == refresh[r].session
  <1>1. CASE auth[s].revoked
    BY <1>1, RevokesKeep DEF refreshClaim
  <1>2. CASE ~auth[s].revoked
    <2> USE SessionIds DEF SessionInvariant
    <2>1. /\ auth' = Revoked({s}) /\ refresh' = [refresh EXCEPT ![r].next = "create"]
          /\ refresh[r].next = "claim"
      BY <1>2 DEF refreshClaim
    <2>2. s \in Sessions /\ auth[s].family # 0 /\ s \in Live
      BY <1>2, <2>1 DEF RefreshesHold, RefreshHolds, Live
    <2>3. /\ auth' \in [Sessions -> SessionRow]
          /\ \A t \in Sessions : /\ auth'[t].family = auth[t].family
                                 /\ auth'[t].from = auth[t].from
                                 /\ auth[t].revoked => auth'[t].revoked
                                 /\ auth[t] = NoSession => auth'[t] = NoSession
          /\ auth'[s].revoked
      BY <2>1, <2>2, RevokedRows
    <2>4. /\ refresh'[r] = [next |-> "create", session |-> s]
          /\ \A q \in Refreshes \ {r} : refresh'[q] = refresh[q]
      BY <2>1 DEF SessionTypeOK
    <2>5. SessionTypeOK'
      <3>1. refresh' \in [Refreshes -> [next : {"none", "claim", "create"},
                                       session : {0} \union Sessions]]
        BY <2>2, <2>4, <2>1 DEF SessionTypeOK
      <3> QED
        BY <2>3, <3>1 DEF SessionTypeOK, SessionRow
    <2>6. FamiliesHold'
      BY <2>3, FamiliesKept
    <2>7. Live' \subseteq Live \ {s} /\ Live \subseteq Sessions
      BY <2>3 DEF Live
    <2>8. RefreshesHold'
      <3> SUFFICES ASSUME NEW q \in Refreshes PROVE RefreshHolds(q)'
        BY DEF RefreshesHold
      <3>1. \A t \in Sessions : auth[t].from # s
        BY <1>2, <2>2, SessionIds DEF FamiliesHold
      <3>2. \A t \in Live \ {s} : auth[t].family # auth[s].family
        BY <2>2 DEF OneLiveSession
      <3>3. \A p \in Refreshes : p \in Creating => /\ auth[refresh[p].session].family # auth[s].family
                                                /\ refresh[p].session \in Sessions
        BY <2>2, CreatingKnows
      <3>4. Creating' \subseteq Creating \union {r} /\ Creating \subseteq Refreshes
        BY <2>4 DEF Creating
      <3>5. CASE q = r
        <4> HIDE DEF s
        <4>r. refresh'[r].session = s
          BY <2>4
        <4>a. auth'[s].family = auth[s].family
          BY <2>2, <2>3
        <4>v. auth'[s].revoked
          BY <2>3
        <4>1. /\ refresh'[r].session = s
              /\ auth'[s].family = auth[s].family /\ auth[s].family # 0 /\ auth'[s].revoked
          BY <2>2, <4>r, <4>a, <4>v
        <4>2. /\ \A t \in Sessions : auth'[t].from # s
              /\ \A t \in Live' : auth'[t].family # auth'[s].family
          BY <2>3, <2>7, <3>1, <3>2, <4>1
        <4>3. ASSUME NEW p \in Creating' \ {r}
              PROVE  auth'[refresh'[p].session].family # auth'[s].family
          <5>1. p \in Creating /\ refresh'[p] = refresh[p]
            BY <2>4, <3>4
          <5>2. /\ refresh[p].session \in Sessions
                /\ auth[refresh[p].session].family # auth[s].family
            BY <3>3, <3>4, <5>1
          <5> QED
            BY <2>3, <4>1, <5>1, <5>2
        <4> QED
          BY <2>2, <3>5, <4>1, <4>2, <4>3 DEF RefreshHolds
      <3>6. CASE q # r
        <4> DEFINE old == refresh[q].session
        <4>1. old \in Sessions =>
               auth'[old].family = auth[old].family /\ (auth[old].revoked => auth'[old].revoked)
          BY <2>2, <2>3, <2>4, <2>7, <3>3, <3>4, <3>6
        <4>2. q \in Creating => \A t \in Sessions : auth'[t].from # old
          BY <2>2, <2>3, <2>4, <2>7, <3>3, <3>4, <3>6, CreatingKnows
        <4>3. q \in Creating => \A t \in Live' : auth'[t].family # auth[old].family
          BY <2>2, <2>3, <2>4, <2>7, <3>3, <3>4, <3>6, CreatingKnows
        <4>4. ASSUME q \in Creating, NEW p \in Creating' \ {q}
              PROVE  auth'[refresh'[p].session].family # auth[old].family
          <5>1. CASE p = r
            BY <2>2, <2>3, <2>4, <3>3, <4>4, <5>1
          <5>2. CASE p # r
            <6>1. p \in Creating /\ refresh'[p] = refresh[p]
              BY <2>4, <3>4, <5>2
            <6>2. /\ refresh[p].session \in Sessions
                  /\ auth[refresh[p].session].family # auth[old].family
              BY <3>3, <3>4, <4>4, <6>1, CreatingKnows
            <6> QED
              BY <2>3, <6>1, <6>2
          <5> QED
            BY <5>1, <5>2
        <4> QED
          BY <2>2, <2>3, <2>4, <2>7, <3>3, <3>4, <3>6, <4>1, <4>2, <4>3, <4>4, RefreshKept
      <3> QED
        BY <3>5, <3>6
    <2>9. OneLiveSession'
      BY <2>3, <2>7 DEF OneLiveSession, Live
    <2>10. RotatedOnce'
      BY <2>3 DEF RotatedOnce
    <2> QED
      BY <2>5, <2>6, <2>8, <2>9, <2>10
  <1> QED
    BY <1>1, <1>2

LEMMA SessionStep == SessionInvariant /\ [SessionNext]_sessionVars => SessionInvariant'
  <1> SUFFICES ASSUME SessionInvariant, [SessionNext]_sessionVars PROVE SessionInvariant'
    OBVIOUS
  <1>1. ASSUME NEW r \in Refreshes, NEW s \in Sessions, refreshRead(r, s)
        PROVE  SessionInvariant'
    <2>1. CASE auth' = Revoked(Family(s)) /\ refresh' = refresh
      BY <2>1, RevokesKeep
    <2>2. CASE /\ refresh' = [refresh EXCEPT ![r] = [next |-> "claim", session |-> s]]
               /\ auth' = auth
      <3>1. SessionTypeOK'
        BY <2>2 DEF SessionInvariant, SessionTypeOK
      <3>2. auth[s].family # 0
        BY <1>1 DEF refreshRead, SessionInvariant, FamiliesHold
      <3>3. /\ refresh'[r].next = "claim" /\ refresh'[r].session = s
            /\ \A q \in Refreshes \ {r} : refresh'[q] = refresh[q]
        BY <2>2 DEF SessionInvariant, SessionTypeOK
      <3> QED
        BY <2>2, <3>1, <3>2, <3>3, RevokingKeeps
    <2> QED
      BY <1>1, <2>1, <2>2 DEF refreshRead
  <1>2. ASSUME NEW s \in Sessions, expire(s) PROVE SessionInvariant'
    <2>1. auth[s] # NoSession /\ auth \in [Sessions -> SessionRow]
      BY <1>2 DEF expire, SessionInvariant, SessionTypeOK, SessionRow
    <2>2. LET row == [auth[s] EXCEPT !.expired = TRUE] IN
          /\ row \in SessionRow /\ row.family = auth[s].family /\ row.from = auth[s].from
          /\ row.revoked = auth[s].revoked
      BY <2>1, RowExpires
    <2>3. /\ auth' \in [Sessions -> SessionRow] /\ refresh' = refresh
          /\ \A t \in Sessions : /\ auth'[t].family = auth[t].family
                                 /\ auth'[t].from = auth[t].from
                                 /\ auth[t].revoked => auth'[t].revoked
                                 /\ auth[t] = NoSession => auth'[t] = NoSession
      BY <1>2, <2>1, <2>2 DEF expire
    <2>4. SessionTypeOK'
      BY <2>3 DEF SessionInvariant, SessionTypeOK, SessionRow
    <2> QED
      BY <2>3, <2>4, RevokingKeeps
  <1>3. ASSUME NEW r \in Refreshes, refreshLost(r) PROVE SessionInvariant'
    <2>1. /\ auth' = auth
          /\ \A q \in Refreshes : refresh'[q] = refresh[q] \/ refresh'[q].next = "none"
      BY <1>3 DEF refreshLost, Waiting
    <2>2. SessionTypeOK'
      BY <1>3 DEF refreshLost, SessionInvariant, SessionTypeOK, Waiting
    <2> QED
      BY <2>1, <2>2, RevokingKeeps
  <1>4. ASSUME NEW s \in Sessions, logout(s) PROVE SessionInvariant'
    BY <1>4, RevokesKeep DEF logout
  <1>5. ASSUME NEW S, revokeSessions(S) PROVE SessionInvariant'
    BY <1>5, RevokesKeep DEF revokeSessions
  <1>6. CASE UNCHANGED sessionVars
    BY <1>6
       DEF sessionVars, SessionInvariant, SessionTypeOK, FamiliesHold, RefreshesHold,
           RefreshHolds, Creating, Live, OneLiveSession, RotatedOnce
  <1> QED
    BY <1>1, <1>2, <1>3, <1>4, <1>5, <1>6, IssueKeeps, ClaimKeeps, CreateKeeps DEF SessionNext

LEMMA SessionStarts == SessionInit => SessionInvariant
  <1> SUFFICES ASSUME SessionInit PROVE SessionInvariant
    OBVIOUS
  <1>1. SessionTypeOK
    BY DEF SessionInit, SessionTypeOK, NoSession, Waiting
  <1>2. Live = {} /\ \A s \in Sessions : auth[s].family = 0 /\ auth[s].from = 0
    BY DEF SessionInit, NoSession, Live
  <1>3. \A r \in Refreshes : refresh[r].next = "none"
    BY DEF SessionInit, Waiting
  <1>4. FamiliesHold
    BY <1>2 DEF FamiliesHold, SessionInit
  <1> QED
    BY <1>1, <1>2, <1>3, <1>4
       DEF SessionInvariant, RefreshesHold, RefreshHolds, Creating, OneLiveSession,
           RotatedOnce

\* However many refreshes race for a sign-in, one of its tokens is live.
THEOREM OneTokenLives == SessionSpec => []OneLiveSession
  <1>1. SessionInvariant => OneLiveSession
    BY DEF SessionInvariant
  <1> QED
    BY <1>1, SessionStarts, SessionStep, PTL DEF SessionSpec

\* No two sessions are issued for the same refresh token.
THEOREM TokensRotateOnce == SessionSpec => []RotatedOnce
  <1>1. SessionInvariant => RotatedOnce
    BY DEF SessionInvariant
  <1> QED
    BY <1>1, SessionStarts, SessionStep, PTL DEF SessionSpec
=============================================================================
