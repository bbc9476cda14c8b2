----------------------------- MODULE RoomTrash ------------------------------
(***************************************************************************)
(* The trash of the rooms and its cleaner. The super administrator moves a *)
(* room that is not being played into the trash, from where it can be      *)
(* restored or deleted for good; after a day the cleaner deletes it. A     *)
(* timer starts a scan, which claims one room after the other, each in a   *)
(* transaction of its own, until its batch is full or no room is left. A   *)
(* room whose deletion fails counts for the batch and is passed over for   *)
(* the rest of the scan; whatever the transaction had deleted comes back.  *)
(***************************************************************************)
EXTENDS Naturals, Sequences, FiniteSets, SequencesExt

CONSTANTS
    Room,        \* the rooms
    Stuck,       \* rooms whose deletion the database always refuses
    BatchLimit,  \* rooms a scan may process, 20 in the code
    MaxRestarts  \* bound: deaths of the API process while it scans

ASSUME TrashAssumption ==
    /\ Stuck \subseteq Room /\ IsFiniteSet(Stuck)
    /\ BatchLimit \in Nat \ {0}
    /\ MaxRestarts \in Nat

VARIABLES
    phase,    \* Room.status
    trash,    \* the rooms with deletedAt, in the order of their purgeAfter
    due,      \* how many of them, from the front, have passed their purgeAfter
    purged,   \* the rooms that no longer exist
    scan,     \* the cleaner
    restarts  \* how often the process has died while it scanned

trashVars == <<phase, trash, due, purged, scan, restarts>>

Phase == {"LOBBY", "PLAYING", "FINISHED"}

\* "expired": the rooms that had passed their purgeAfter at the "now" of the
\* scan and have not been restored since
NoScan == [running |-> FALSE, expired |-> {}, failed |-> {}, processed |-> 0]

TrashInit ==
    /\ phase = [r \in Room |-> IF r \in Stuck THEN "FINISHED" ELSE "LOBBY"]
    /\ trash \in SetToSeqs(Stuck)
    /\ due = Len(trash)
    /\ purged = {}
    /\ scan = NoScan
    /\ restarts = 0

InTrash(r) == \E i \in DOMAIN trash : trash[i] = r
Open(r) == ~ InTrash(r) /\ r \notin purged
DueRooms == {trash[i] : i \in 1..due}

-----------------------------------------------------------------------------
(* The administrator.                                                      *)

\* deleteRoom; a room that is in the trash stays as it is
MoveToTrash(r) ==
    /\ Open(r)
    /\ phase[r] # "PLAYING"
    /\ trash' = Append(trash, r)
    /\ UNCHANGED <<phase, due, purged, scan, restarts>>

\* a room leaves the trash
Leaves(r) ==
    \E i \in DOMAIN trash :
      /\ trash[i] = r
      /\ trash' = RemoveAt(trash, i)
      /\ due' = IF i <= due THEN due - 1 ELSE due

\* restoreRoom; a scan that is under way finds it without deletedAt, or with
\* a later purgeAfter
Restore(r) ==
    /\ Leaves(r)
    /\ scan' = [scan EXCEPT !.expired = @ \ {r}]
    /\ UNCHANGED <<phase, purged, restarts>>

\* deleteLockedRoom: everything of the room, down to its recorded answers
Delete(r) ==
    /\ r \notin Stuck
    /\ Leaves(r)
    /\ purged' = purged \cup {r}
    /\ UNCHANGED <<phase, restarts>>

\* permanentlyDeleteRoom, purgeRoom for an administrator
PurgeNow(r) ==
    /\ Delete(r)
    /\ scan' = [scan EXCEPT !.expired = @ \ {r}]

DayPasses ==
    /\ due < Len(trash)
    /\ due' = due + 1
    /\ UNCHANGED <<phase, trash, purged, scan, restarts>>

-----------------------------------------------------------------------------
(* The cleaner.                                                            *)

\* runNow: a scan that is running is not started again
StartScan ==
    /\ ~ scan.running
    /\ scan' = [NoScan EXCEPT !.running = TRUE, !.expired = DueRooms]
    /\ UNCHANGED <<phase, trash, due, purged, restarts>>

ClaimableAgain(r) == r \in scan.expired

ClaimableUndue(r) == InTrash(r) /\ r \notin scan.failed

\* deletedAt, purgeAfter, and the exclusion of what has failed
Claimable(r) == r \in scan.expired \ scan.failed

\* ORDER BY purgeAfter LIMIT 1; nobody holds a room longer than one step
Claims(r) ==
    /\ scan.running
    /\ scan.processed < BatchLimit
    /\ \E i \in DOMAIN trash :
         /\ trash[i] = r
         /\ Claimable(r)
         /\ \A j \in 1..(i - 1) : ~ Claimable(trash[j])

PurgeClaimed(r) ==
    /\ Claims(r)
    /\ Delete(r)
    /\ scan' = [scan EXCEPT !.processed = @ + 1, !.expired = @ \ {r}]

\* the deletion throws: for a stuck room always, for others now and then. A
\* serialization conflict that is tried again changes nothing; the third in
\* a row is a failure
PurgeFails(r) ==
    /\ Claims(r)
    /\ scan' = [scan EXCEPT !.processed = @ + 1, !.failed = @ \cup {r}]
    /\ UNCHANGED <<phase, trash, due, purged, restarts>>

EndScan ==
    /\ scan.running
    /\ ~ \E r \in Room : Claims(r)
    /\ scan' = NoScan
    /\ UNCHANGED <<phase, trash, due, purged, restarts>>

ScanStep ==
    \/ StartScan
    \/ \E r \in Room : PurgeClaimed(r) \/ PurgeFails(r)
    \/ EndScan

\* the game of a room goes on
PhaseStep(r) ==
    /\ Open(r)
    /\ \/ phase[r] = "LOBBY" /\ phase' = [phase EXCEPT ![r] = "PLAYING"]
       \/ phase[r] # "FINISHED" /\ phase' = [phase EXCEPT ![r] = "FINISHED"]
    /\ UNCHANGED <<trash, due, purged, scan, restarts>>

\* the API process dies, and starts again with a new cleaner
Restart ==
    /\ scan.running
    /\ restarts < MaxRestarts
    /\ restarts' = restarts + 1
    /\ scan' = NoScan
    /\ UNCHANGED <<phase, trash, due, purged>>

TrashNext ==
    \/ \E r \in Room : MoveToTrash(r) \/ Restore(r) \/ PurgeNow(r) \/ PhaseStep(r)
    \/ DayPasses
    \/ ScanStep
    \/ Restart

TrashSpec == TrashInit /\ [][TrashNext]_trashVars

\* the timer goes on, a statement ends, and the deletion of a room that is
\* not stuck fails only for a while
TrashFairness ==
    /\ WF_trashVars(ScanStep)
    /\ \A r \in Room \ Stuck : SF_trashVars(PurgeClaimed(r))

-----------------------------------------------------------------------------
\* A room whose day is over is in the end deleted or restored, although
\* rooms that cannot be deleted stand before it in every scan: as long as
\* they are fewer than a batch they do not starve it.
ExpiredRoomIsPurged ==
    \A r \in Room \ Stuck : r \in DueRooms ~> r \notin DueRooms

\* The cleaner deletes only a room that is in the trash since a full day at
\* that moment: one that is restored while the scan is under way, and one
\* that is restored and moved back, survives the scan.
ScanSparesRestored ==
    [][\A r \in purged' \ purged :
          scan'.processed > scan.processed => r \in DueRooms]_trashVars
=============================================================================
