---------------------------- MODULE SessionRotation ----------------------------
(***************************************************************************)
(* Sign-in sessions and the rotation of their refresh tokens.  A session   *)
(* row is one refresh token; the rows a login starts are its family.  A    *)
(* refresh runs without a transaction: it reads the row, claims it with a  *)
(* conditional update, and creates its successor.                          *)
(***************************************************************************)
EXTENDS Naturals

CONSTANTS
  MaxSessions,  \* bound on AuthSession rows
  Refreshes     \* refresh requests at work at the same time

ASSUME SessionConstants == MaxSessions \in Nat

Sessions == 1..MaxSessions

VARIABLES
  auth,    \* AuthSession rows: family is the session a login created
  refresh  \* the refresh requests: the next statement and the row they read

sessionVars == <<auth, refresh>>

NoSession == [family |-> 0, from |-> 0, revoked |-> TRUE, expired |-> FALSE]
Waiting == [next |-> "none", session |-> 0]
Live == {s \in Sessions : ~auth[s].revoked}
Free(s) == auth[s] = NoSession /\ \A t \in Sessions : t < s => auth[t] # NoSession

Revoked(S) == [s \in Sessions |-> IF s \in S THEN [auth[s] EXCEPT !.revoked = TRUE] ELSE auth[s]]
Family(s) == {t \in Sessions : auth[t].family = auth[s].family}

-----------------------------------------------------------------------------
\* issueSession, at a login.
issueSession(s) ==
  /\ Free(s)
  /\ auth' = [auth EXCEPT ![s] = [family |-> s, from |-> 0, revoked |-> FALSE,
                                  expired |-> FALSE]]
  /\ UNCHANGED refresh

\* refresh: a rotated or expired token revokes its family ...
refreshRead(r, s) ==
  /\ refresh[r] = Waiting
  /\ auth[s] # NoSession
  /\ \/ /\ auth[s].revoked \/ auth[s].expired
        /\ auth' = Revoked(Family(s))
        /\ UNCHANGED refresh
     \/ /\ ~auth[s].revoked /\ ~auth[s].expired
        /\ refresh' = [refresh EXCEPT ![r] = [next |-> "claim", session |-> s]]
        /\ UNCHANGED auth

\* ... as does a request that loses the race for the rotation, ...
faultyRefreshClaim(r) ==
  LET s == refresh[r].session IN
  /\ refresh[r].next = "claim"
  /\ auth' = Revoked({s})
  /\ refresh' = [refresh EXCEPT ![r].next = "create"]
refreshClaim(r) ==
  LET s == refresh[r].session IN
  /\ refresh[r].next = "claim"
  /\ \/ /\ ~auth[s].revoked
        /\ auth' = Revoked({s})
        /\ refresh' = [refresh EXCEPT ![r].next = "create"]
     \/ /\ auth[s].revoked
        /\ auth' = Revoked(Family(s))
        /\ refresh' = [refresh EXCEPT ![r] = Waiting]

\* ... and the winner creates the next session of the family.
faultyRefreshCreate(r, t) ==
  /\ refresh[r].next = "create"
  /\ Free(t)
  /\ auth' = [auth EXCEPT ![t] = [family |-> auth[refresh[r].session].family,
                                  from |-> refresh[r].session, revoked |-> FALSE,
                                  expired |-> FALSE]]
  /\ UNCHANGED refresh
refreshCreate(r, t) ==
  /\ refresh[r].next = "create"
  /\ Free(t)
  /\ auth' = [auth EXCEPT ![t] = [family |-> auth[refresh[r].session].family,
                                  from |-> refresh[r].session, revoked |-> FALSE,
                                  expired |-> FALSE]]
  /\ refresh' = [refresh EXCEPT ![r] = Waiting]

\* The process stops, or the hirer's request is abandoned.
refreshLost(r) ==
  /\ refresh[r] # Waiting
  /\ refresh' = [refresh EXCEPT ![r] = Waiting]
  /\ UNCHANGED auth

expire(s) ==
  /\ auth[s] # NoSession
  /\ auth' = [auth EXCEPT ![s].expired = TRUE]
  /\ UNCHANGED refresh

logout(s) ==
  /\ s \in Live
  /\ auth' = Revoked({s})
  /\ UNCHANGED refresh

\* setPasswordViaToken; revokeOtherSessions spares the session that asks for it.
revokeSessions(spared) ==
  /\ auth' = Revoked(Sessions \ spared)
  /\ UNCHANGED refresh

-----------------------------------------------------------------------------
SessionInit ==
  /\ auth = [s \in Sessions |-> NoSession]
  /\ refresh = [r \in Refreshes |-> Waiting]

SessionNext ==
  \/ \E s \in Sessions : issueSession(s)
  \/ \E r \in Refreshes, s \in Sessions : refreshRead(r, s)
  \/ \E r \in Refreshes : refreshClaim(r)
  \/ \E r \in Refreshes, t \in Sessions : refreshCreate(r, t)
  \/ \E r \in Refreshes : refreshLost(r)
  \/ \E s \in Sessions : expire(s)
  \/ \E s \in Sessions : logout(s)
  \/ revokeSessions({})
  \/ \E s \in Live : revokeSessions({s})

SessionSpec == SessionInit /\ [][SessionNext]_sessionVars

-----------------------------------------------------------------------------
SessionTypeOK ==
  /\ auth \in [Sessions -> [family : {0} \union Sessions, from : {0} \union Sessions,
                            revoked : BOOLEAN, expired : BOOLEAN]]
  /\ refresh \in [Refreshes -> [next : {"none", "claim", "create"},
                                session : {0} \union Sessions]]

\* A sign-in has one live refresh token, however many refreshes race for it.
OneLiveSession ==
  \A s, t \in Live : auth[s].family = auth[t].family => s = t

\* A refresh token is exchanged once: no two sessions succeed the same one.
RotatedOnce ==
  \A s, t \in Sessions : auth[s].from # 0 /\ auth[s].from = auth[t].from => s = t
=============================================================================
