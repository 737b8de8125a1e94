-------------------------- MODULE Synchronization --------------------------
(***************************************************************************)
(* All on which a thread of RM can wait in the library: reader/writer      *)
(* locks, spinlocks and mutexes, semaphores and delays, in the dext or in  *)
(* the kext.  The four services share no state, so that interleaving their *)
(* steps would show nothing new: a behaviour exercises one of them.        *)
(***************************************************************************)
EXTENDS RwLock, Locks, Semaphore, Clock

VARIABLE exercised

vars == <<library, exercised, rwVars, lockVars, semVars, clockVars>>

Init ==
    /\ library \in Libraries
    /\ exercised \in {"rwlock", "locks", "semaphores", "time"}
    /\ RwInit /\ LocksInit /\ SemInit /\ ClockInit

Next ==
    /\ \/ /\ exercised = "rwlock" /\ RwNext
          /\ UNCHANGED <<lockVars, semVars, clockVars>>
       \/ /\ exercised = "locks" /\ LocksNext
          /\ UNCHANGED <<rwVars, semVars, clockVars>>
       \/ /\ exercised = "semaphores" /\ SemNext
          /\ UNCHANGED <<rwVars, lockVars, clockVars>>
       \/ /\ exercised = "time" /\ ClockNext
          /\ UNCHANGED <<rwVars, lockVars, semVars>>
    /\ UNCHANGED <<library, exercised>>

Spec == Init /\ [][Next]_vars

FairSpec == Spec /\ RwFairness

\* The types of all variables of the services.
TypeOK == RwTypeOK /\ LocksTypeOK /\ SemTypeOK /\ ClockTypeOK
=============================================================================
