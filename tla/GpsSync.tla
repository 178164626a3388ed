-------------------------------- MODULE GpsSync --------------------------------
(***************************************************************************)
(* The synchronisation of one GPS provider account by several processes.   *)
(* A process takes the lease of the account with one conditional update,   *)
(* fetches the fleet from the provider, ingests the positions, and gives   *)
(* the lease back.  A lease runs out after two minutes, whether or not its *)
(* owner is still at work; nothing renews it.                              *)
(***************************************************************************)
EXTENDS Naturals

CONSTANTS
  Processes,  \* processes of the backend; each has an owner token of its own
  NoProcess

ASSUME SyncConstants == NoProcess \notin Processes

VARIABLES
  lease,     \* syncLeaseOwner, and whether syncLeaseExpiresAt is in the future
  sync,      \* what each process does for the account; idle: not in flight
  overran,   \* processes whose lease ran out while they were at work
  lastFetch  \* lastSuccessfulSyncAt and lastFailureCode: how the last fetch ended

syncVars == <<lease, sync, overran, lastFetch>>

NoLease == [owner |-> NoProcess, valid |-> FALSE]
Syncing == {p \in Processes : sync[p] # "idle"}

-----------------------------------------------------------------------------
\* syncOneAccount skips an account in flight; tryAcquireGpsProviderSyncLease
\* takes a lease that is free or ran out.
tryAcquireGpsProviderSyncLease(p) ==
  /\ sync[p] = "idle"
  /\ ~lease.valid
  /\ lease' = [owner |-> p, valid |-> TRUE]
  /\ sync' = [sync EXCEPT ![p] = "fetching"]
  /\ UNCHANGED <<overran, lastFetch>>

\* fetchFleetSnapshot: the provider answers, or fails.
fetchFleetSnapshot(p) ==
  /\ sync[p] = "fetching"
  /\ \/ /\ sync' = [sync EXCEPT ![p] = "ingesting"]
        /\ UNCHANGED lastFetch
     \/ /\ sync' = [sync EXCEPT ![p] = "ending"]
        /\ lastFetch' = "failure"
  /\ UNCHANGED <<lease, overran>>

\* The positions of the bound devices are ingested one by one; one that fails is
\* counted, and the fetch is a success all the same.
ingestPositions(p) ==
  /\ sync[p] = "ingesting"
  /\ sync' = [sync EXCEPT ![p] = "ending"]
  /\ lastFetch' = "success"
  /\ UNCHANGED <<lease, overran>>

\* A shutdown, or an error of the database, goes straight to the end.
giveUp(p) ==
  /\ sync[p] \in {"fetching", "ingesting"}
  /\ sync' = [sync EXCEPT ![p] = "ending"]
  /\ UNCHANGED <<lease, overran, lastFetch>>

\* Fault: the lease is cleared whoever owns it.
faultyReleaseLease(p) ==
  /\ sync[p] = "ending"
  /\ lease' = NoLease
  /\ sync' = [sync EXCEPT ![p] = "idle"]
  /\ overran' = overran \ {p}
  /\ UNCHANGED lastFetch

\* releaseGpsProviderSyncLease clears the lease if it still has this owner.  The
\* in-flight mark goes just before, but a process starts no other cycle for the
\* account until this one has released: each of its two timers waits for its
\* cycle, and they serve different providers (scheduler, tick and liveGpsTick).
releaseGpsProviderSyncLease(p) ==
  /\ sync[p] = "ending"
  /\ lease' = IF lease.owner = p THEN NoLease ELSE lease
  /\ sync' = [sync EXCEPT ![p] = "idle"]
  /\ overran' = overran \ {p}
  /\ UNCHANGED lastFetch

leaseRunsOut ==
  /\ lease.valid
  /\ lease' = [lease EXCEPT !.valid = FALSE]
  /\ overran' = overran \union ({lease.owner} \intersect Syncing)
  /\ UNCHANGED <<sync, lastFetch>>

\* The process dies and keeps its lease; so does one whose release fails.
crashSync(p) ==
  /\ p \in Syncing
  /\ sync' = [sync EXCEPT ![p] = "idle"]
  /\ overran' = overran \ {p}
  /\ UNCHANGED <<lease, lastFetch>>

-----------------------------------------------------------------------------
SyncInit ==
  /\ lease = NoLease
  /\ sync = [p \in Processes |-> "idle"]
  /\ overran = {}
  /\ lastFetch = "none"

SyncNext ==
  \/ \E p \in Processes :
       \/ tryAcquireGpsProviderSyncLease(p)
       \/ fetchFleetSnapshot(p)
       \/ ingestPositions(p)
       \/ giveUp(p)
       \/ releaseGpsProviderSyncLease(p)
       \/ crashSync(p)
  \/ leaseRunsOut

SyncSpec == SyncInit /\ [][SyncNext]_syncVars

-----------------------------------------------------------------------------
SyncTypeOK ==
  /\ lease \in [owner : Processes \union {NoProcess}, valid : BOOLEAN]
  /\ sync \in [Processes -> {"idle", "fetching", "ingesting", "ending"}]
  /\ overran \subseteq Processes
  /\ lastFetch \in {"none", "success", "failure"}

\* Two processes synchronise the account at once only if the lease of one ran
\* out: a late release never frees the lease of a successor.
OneSyncOwner ==
  \A p, q \in Syncing \ overran : p = q
=============================================================================
