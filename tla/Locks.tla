------------------------------- MODULE Locks -------------------------------
(***************************************************************************)
(* Spinlocks and mutexes (Support/libnv-darwin/libc_driverkit.cpp:10-61,   *)
(* libc_kernel.cpp:13-69).  RM keeps a cell for each lock, which           *)
(* os_alloc_spinlock and os_alloc_mutex are to fill in, and passes what is *)
(* in the cell to the other calls.  os_alloc_mutex never fills it in: what *)
(* RM passes on is whatever the cell held, which may be NULL, or the       *)
(* address of a lock that an earlier call allocated and left in a register *)
(* or on the stack.  A use of what is no lock ends the behaviour.          *)
(***************************************************************************)
EXTENDS Library, FiniteSets, Naturals

CONSTANTS
    Users,      \* threads of RM; each has at most one of these locks at a time
    Spinlocks,  \* RM's cells
    Mutexes,
    Objects,    \* lock objects of the system: os_unfair_lock, IOSimpleLock, IOLock
    Nothing     \* no object, no cell

ASSUME LocksAssumption ==
    /\ Nothing \notin Objects \cup Spinlocks \cup Mutexes
    /\ Spinlocks \cap Mutexes = {}

VARIABLES
    objects,    \* the objects that exist
    cell,       \* cell[l]: the object that l's cell names, or Nothing
    granted,    \* cells of which RM was told NV_OK, and which it has not freed
    taken,      \* objects that are locked
    told,       \* told[u]: the cell whose lock u was told it has, or Nothing
    forgotten,  \* objects that os_alloc_mutex made and told nobody about
    inverted,   \* history: os_cond_acquire_mutex has said the opposite of what it did
    orphaned,   \* history: a lock was freed that is locked, or in another cell too
    faulted     \* the cell whose use was not that of a lock, or Nothing

lockVars == <<objects, cell, granted, taken, told, forgotten, inverted, orphaned, faulted>>

Cells == Spinlocks \cup Mutexes
Usable(l) == cell[l] \in objects
Has(u) == told[u] # Nothing

LocksInit ==
    /\ objects = {} /\ granted = {} /\ taken = {} /\ forgotten = {}
    /\ cell = [l \in Cells |-> Nothing]
    /\ told = [u \in Users |-> Nothing]
    /\ inverted = FALSE /\ orphaned = FALSE
    /\ faulted = Nothing

-----------------------------------------------------------------------------
(* Allocation.  Without memory os_alloc_mutex returns NV_ERR_NO_MEMORY.    *)

NewObject(l, o) ==
    /\ l \notin granted /\ o \notin objects
    /\ objects' = objects \cup {o}
    /\ granted' = granted \cup {l}
    /\ UNCHANGED <<taken, told, inverted, orphaned, faulted>>

AllocSpinlock(l, o) ==
    /\ NewObject(l, o)
    /\ cell' = [cell EXCEPT ![l] = o]
    /\ UNCHANGED forgotten

\* The cell is set to NULL; only the kext's call looks at what it stored.
Mut_AllocSpinlockFails(l) ==
    /\ l \notin granted
    /\ cell' = [cell EXCEPT ![l] = Nothing]
    /\ granted' = granted \cup {l}
    /\ UNCHANGED <<objects, taken, told, forgotten, inverted, orphaned, faulted>>
AllocSpinlockFails(l) ==
    /\ l \notin granted
    /\ cell' = [cell EXCEPT ![l] = Nothing]
    /\ granted' = IF library = "dext" THEN granted \cup {l} ELSE granted
    /\ UNCHANGED <<objects, taken, told, forgotten, inverted, orphaned, faulted>>

\* The new lock is forgotten, and the cell is as it was.
AllocMutex(m, o) ==
    /\ NewObject(m, o)
    /\ forgotten' = forgotten \cup {o}
    /\ \E content \in forgotten' \cup {Nothing} : cell' = [cell EXCEPT ![m] = content]

-----------------------------------------------------------------------------
(* Use *)

\* os_acquire_spinlock and os_acquire_mutex return when nobody has the object.
Mut_AcquireLock(u, l) ==
    /\ ~Has(u) /\ l \in granted /\ Usable(l)
    /\ taken' = taken \cup {cell[l]}
    /\ told' = [told EXCEPT ![u] = l]
    /\ UNCHANGED <<objects, cell, granted, forgotten, inverted, orphaned, faulted>>
AcquireLock(u, l) ==
    /\ ~Has(u) /\ l \in granted /\ Usable(l)
    /\ cell[l] \notin taken
    /\ taken' = taken \cup {cell[l]}
    /\ told' = [told EXCEPT ![u] = l]
    /\ UNCHANGED <<objects, cell, granted, forgotten, inverted, orphaned, faulted>>

\* os_cond_acquire_mutex takes the object and returns NV_ERR_TIMEOUT_RETRY ...
CondTakesLock(u, m) ==
    /\ ~Has(u) /\ m \in granted /\ Usable(m)
    /\ cell[m] \notin taken
    /\ taken' = taken \cup {cell[m]}
    /\ inverted' = TRUE
    /\ UNCHANGED <<objects, cell, granted, told, forgotten, orphaned, faulted>>

\* ... and when somebody has it returns NV_OK.
CondMissesLock(u, m) ==
    /\ ~Has(u) /\ m \in granted /\ Usable(m)
    /\ cell[m] \in taken
    /\ told' = [told EXCEPT ![u] = m]
    /\ inverted' = TRUE
    /\ UNCHANGED <<objects, cell, granted, taken, forgotten, orphaned, faulted>>

\* os_release_spinlock and os_release_mutex
ReleaseLock(u) ==
    /\ Has(u) /\ Usable(told[u]) /\ cell[told[u]] \in taken
    /\ taken' = taken \ {cell[told[u]]}
    /\ told' = [told EXCEPT ![u] = Nothing]
    /\ UNCHANGED <<objects, cell, granted, forgotten, inverted, orphaned, faulted>>

\* os_free_spinlock and os_free_mutex, by a caller that has stopped using the cell;
\* whatever it still holds, the next allocation decides on anew.
Mut_FreeLock(l) ==
    /\ l \in granted /\ Usable(l)
    /\ \A u \in Users : told[u] # l
    /\ granted' = granted \ {l}
    /\ taken' = taken \ {cell[l]}
    /\ cell' = [cell EXCEPT ![l] = Nothing]
    /\ UNCHANGED <<objects, told, forgotten, inverted, orphaned, faulted>>
FreeLock(l) ==
    /\ l \in granted /\ Usable(l)
    /\ \A u \in Users : told[u] # l
    /\ granted' = granted \ {l}
    /\ objects' = objects \ {cell[l]}
    /\ forgotten' = forgotten \ {cell[l]}
    /\ taken' = taken \ {cell[l]}
    /\ orphaned' = (orphaned \/ cell[l] \in taken
                             \/ \E k \in granted \ {l} : cell[k] = cell[l])
    /\ cell' = [cell EXCEPT ![l] = Nothing]
    /\ UNCHANGED <<told, inverted, faulted>>

\* A call on a cell that names no lock, or the release of a lock nobody has.
LockFaults(l) ==
    /\ l \in granted
    /\ \/ ~Usable(l)
       \/ cell[l] \notin taken /\ \E u \in Users : told[u] = l
    /\ faulted' = l
    /\ UNCHANGED <<objects, cell, granted, taken, told, forgotten, inverted, orphaned>>

LocksNext ==
    /\ faulted = Nothing
    /\ \/ \E l \in Spinlocks : AllocSpinlockFails(l) \/ \E o \in Objects : AllocSpinlock(l, o)
       \/ \E m \in Mutexes, o \in Objects : AllocMutex(m, o)
       \/ \E u \in Users, l \in Cells : AcquireLock(u, l)
       \/ \E u \in Users, m \in Mutexes : CondTakesLock(u, m) \/ CondMissesLock(u, m)
       \/ \E u \in Users : ReleaseLock(u)
       \/ \E l \in Cells : FreeLock(l) \/ LockFaults(l)

-----------------------------------------------------------------------------
(* Properties *)

LocksTypeOK ==
    /\ taken \subseteq objects /\ objects \subseteq Objects
    /\ forgotten \subseteq objects
    /\ granted \subseteq Cells
    /\ cell \in [Cells -> Objects \cup {Nothing}]
    /\ told \in [Users -> granted \cup {Nothing}]
    /\ {inverted, orphaned} \subseteq BOOLEAN
    /\ faulted \in Cells \cup {Nothing}

\* A lock is locked exactly as long as one thread was told that it has it and
\* no thread else, whichever cells name it (libc_driverkit.cpp:21-28, 45-48,
\* 59-61; libc_kernel.cpp:29-36, 53-56, 67-69), until os_cond_acquire_mutex was
\* called or a lock was freed that is still in use.
LockHeldByOne ==
    ~inverted /\ ~orphaned =>
       /\ \A u \in Users : Has(u) => cell[told[u]] \in taken
       /\ \A o \in taken : Cardinality({u \in Users : Has(u) /\ cell[told[u]] = o}) = 1

\* Until a lock is freed that is still in use (after which the address of a
\* spinlock can be in the cell of a mutex, too), a spinlock of which RM was told
\* NV_OK can be used, except in the dext when there was no memory for it
\* (libc_driverkit.cpp:11-13; libc_kernel.cpp:17-18).
SpinlockNeverFaults ==
    ~orphaned /\ faulted \in Spinlocks => library = "dext" /\ cell[faulted] = Nothing

\* Until then, every lock that exists is that of one spinlock, or one of those that
\* os_alloc_mutex forgot and no os_free_mutex has met by chance
\* (libc_driverkit.cpp:33, 42; libc_kernel.cpp:41, 50).
LocksAccountedFor ==
    LET spinning == {l \in granted \cap Spinlocks : cell[l] # Nothing} IN
    ~orphaned =>
       /\ objects = forgotten \cup {cell[l] : l \in spinning}
       /\ Cardinality(objects) = Cardinality(forgotten) + Cardinality(spinning)
=============================================================================
