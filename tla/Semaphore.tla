----------------------------- MODULE Semaphore -----------------------------
(***************************************************************************)
(* Semaphores (Support/libnv-darwin/libc.cpp:113-173).  os_alloc_semaphore *)
(* has the system write the name of a new semaphore to a cell on the heap  *)
(* and returns the address of the cell.  Every other call passes that      *)
(* address on as if it were the name.  In the dext it is the name of       *)
(* nothing, and what the system is asked for fails; the kext's kernel      *)
(* takes the cell for the semaphore, and the call returns anything, or     *)
(* never.  Either way the semaphore keeps its units.                       *)
(***************************************************************************)
EXTENDS Library, Integers

CONSTANTS
    Callers,        \* threads of RM
    Semaphores,     \* cells
    InitialValues,  \* units with which RM creates semaphores
    NoSemaphore

ASSUME SemaphoreAssumption == InitialValues \subseteq Nat /\ NoSemaphore \notin Semaphores

VARIABLES
    units,      \* units[s]: those of the semaphore whose name is in s; -1: there is none
    given,      \* cells that RM has been given, and has not freed
    waiting,    \* waiting[c]: the cell on which c called semaphore_wait, or NoSemaphore
    status      \* status[c]: what the last call that c made on a semaphore returned

semVars == <<units, given, waiting, status>>

SemInit ==
    /\ units = [s \in Semaphores |-> -1]
    /\ given = {}
    /\ waiting = [c \in Callers |-> NoSemaphore]
    /\ status = [c \in Callers |-> "NV_OK"]

\* Whether semaphore_create succeeds or not, the cell goes to RM.
AllocSemaphore(s, value) ==
    /\ s \notin given
    /\ given' = given \cup {s}
    /\ \E result \in {value, -1} : units' = [units EXCEPT ![s] = result]
    /\ UNCHANGED <<waiting, status>>

\* semaphore_destroy does not reach the semaphore, whose name goes with the cell.
FreeSemaphore(s) ==
    /\ s \in given
    /\ \A c \in Callers : waiting[c] # s
    /\ given' = given \ {s}
    /\ units' = [units EXCEPT ![s] = -1]
    /\ UNCHANGED <<waiting, status>>

\* os_acquire_semaphore and os_release_semaphore both call semaphore_wait ...
CallWait(c, s) ==
    /\ waiting[c] = NoSemaphore /\ s \in given
    /\ waiting' = [waiting EXCEPT ![c] = s]
    /\ UNCHANGED <<units, given, status>>

\* ... and return NV_OK whatever came of it.
WaitReturns(c) ==
    /\ waiting[c] # NoSemaphore
    /\ waiting' = [waiting EXCEPT ![c] = NoSemaphore]
    /\ status' = [status EXCEPT ![c] = "NV_OK"]
    /\ UNCHANGED <<units, given>>

\* What os_cond_acquire_semaphore can return: the dext's semaphore_timedwait finds no
\* semaphore, which is neither success nor a timeout.
Answers ==
    IF library = "dext" THEN {"NV_ERR_GENERIC"}
    ELSE {"NV_OK", "NV_ERR_TIMEOUT_RETRY", "NV_ERR_GENERIC"}

CondAcquire(c, s) ==
    /\ waiting[c] = NoSemaphore /\ s \in given
    /\ \E answer \in Answers : status' = [status EXCEPT ![c] = answer]
    /\ UNCHANGED <<units, given, waiting>>

SemNext ==
    \/ \E s \in Semaphores, value \in InitialValues : AllocSemaphore(s, value)
    \/ \E s \in Semaphores : FreeSemaphore(s)
    \/ \E c \in Callers :
          WaitReturns(c) \/ \E s \in Semaphores : CallWait(c, s) \/ CondAcquire(c, s)

-----------------------------------------------------------------------------
(* Properties *)

SemTypeOK ==
    /\ units \in [Semaphores -> InitialValues \cup {-1}]
    /\ given \subseteq Semaphores
    /\ waiting \in [Callers -> given \cup {NoSemaphore}]
    /\ status \in [Callers -> {"NV_OK", "NV_ERR_TIMEOUT_RETRY", "NV_ERR_GENERIC"}]
=============================================================================
