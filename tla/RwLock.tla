------------------------------- MODULE RwLock -------------------------------
(***************************************************************************)
(* The library's reader/writer lock: one lock, and the threads of RM that  *)
(* use it.  The dext's lock is a pthread_rwlock_t                          *)
(* (Support/libnv-darwin/libc_driverkit.cpp:63-109), the kext's is an      *)
(* IORWLock (libc_kernel.cpp:71-107); they differ in their conditional     *)
(* calls only.  held is what the library told each thread, i.e. the mode   *)
(* of the call that returned NV_OK to it.                                  *)
(***************************************************************************)
EXTENDS Library, RwLockObject, FiniteSets

ASSUME ThreadsAssumption == IsFiniteSet(Threads)

VARIABLES
    held,       \* held[t]: "none", or the mode in which t was told it has the lock
    exists,     \* the lock was allocated, and not freed since
    misled,     \* a conditional call has reported a mode that it did not obtain
    panicked    \* an object that nobody had was unlocked, or one without memory initialized

rwVars == <<object, held, exists, misled, panicked>>

Waiting(t) == \E mode \in Modes, i \in DOMAIN queue : queue[i] = <<t, mode>>
Idle(t) == exists /\ held[t] = "none" /\ ~Waiting(t)
Tell(t, mode) == held' = [held EXCEPT ![t] = mode]

RwInit ==
    /\ ObjectInit
    /\ held = [t \in Threads |-> "none"]
    /\ exists = FALSE /\ misled = FALSE /\ panicked = FALSE

\* os_alloc_rwlock: a fresh object.
Alloc ==
    /\ ~exists
    /\ exists' = TRUE
    /\ readers' = 0 /\ writer' = FALSE /\ queue' = <<>>
    /\ UNCHANGED <<held, misled, panicked>>

\* Without memory the kext's returns NULL, and nothing changes; the dext's goes on
\* to initialize the object that it has not got.
AllocFails ==
    /\ library = "dext" /\ ~exists
    /\ panicked' = TRUE
    /\ UNCHANGED <<object, held, exists, misled>>

\* os_free_rwlock, by a caller that has stopped using the lock.
Free ==
    /\ exists
    /\ \A t \in Threads : Idle(t)
    /\ exists' = FALSE
    /\ UNCHANGED <<object, held, misled, panicked>>

\* os_acquire_rwlock_read and os_acquire_rwlock_write, when they need not wait ...
Acquire(t, mode) ==
    /\ Idle(t)
    /\ Available(mode)
    /\ Take(mode)
    /\ Tell(t, mode)
    /\ UNCHANGED <<queue, exists, misled, panicked>>

\* ... and when they must ...
Wait(t, mode) ==
    /\ Idle(t)
    /\ Enqueue(t, mode)
    /\ UNCHANGED <<held, exists, misled, panicked>>

\* ... until it is their turn.
Resume(t, mode) ==
    /\ Serve(t, mode)
    /\ Tell(t, mode)
    /\ UNCHANGED <<exists, misled, panicked>>

\* The mode in which a conditional call tries the object: the dext's
\* os_cond_acquire_rwlock_write calls pthread_rwlock_tryrdlock.
Tried(mode) == IF library = "dext" THEN "read" ELSE mode

\* os_cond_acquire_rwlock_read and os_cond_acquire_rwlock_write, when they
\* obtain the object in the mode they try.
CondTakes(t, mode) ==
    /\ Idle(t)
    /\ Available(Tried(mode))
    /\ Take(Tried(mode))
    /\ Tell(t, mode)
    /\ misled' = (misled \/ Tried(mode) # mode)
    /\ UNCHANGED <<queue, exists, panicked>>

\* The same calls when they do not.  The dext's return NV_ERR_TIMEOUT_RETRY, and
\* nothing changes; the kext's do not look at the result of IORWLockTryRead and
\* IORWLockTryWrite, and return NV_OK.
Mut_CondMisses(t, mode) ==
    /\ Idle(t)
    /\ ~Available(Tried(mode))
    /\ Tell(t, mode)
    /\ UNCHANGED <<object, exists, misled, panicked>>
CondMisses(t, mode) ==
    /\ library = "kext" /\ Idle(t)
    /\ ~Available(Tried(mode))
    /\ Tell(t, mode)
    /\ misled' = TRUE
    /\ UNCHANGED <<object, exists, panicked>>

\* os_release_rwlock_read and os_release_rwlock_write are the same unlock.
Mut_ReleaseAll(t) ==
    /\ held[t] # "none"
    /\ Locked
    /\ readers' = 0 /\ writer' = FALSE
    /\ Tell(t, "none")
    /\ UNCHANGED <<queue, exists, misled, panicked>>
Mut_ReleaseAsReader(t) ==
    /\ held[t] # "none"
    /\ readers' = readers - 1
    /\ Tell(t, "none")
    /\ UNCHANGED <<writer, queue, exists, misled, panicked>>
Mut_ReleaseForgets(t) ==
    /\ held[t] # "none"
    /\ Tell(t, "none")
    /\ UNCHANGED <<object, exists, misled, panicked>>
Release(t) ==
    /\ held[t] # "none"
    /\ Unlock
    /\ Tell(t, "none")
    /\ UNCHANGED <<exists, misled, panicked>>

\* The release of a thread that does not have the object, when the one that had
\* it has lost it to an earlier such release.
ReleaseFaults(t) ==
    /\ held[t] # "none" /\ ~Locked
    /\ panicked' = TRUE
    /\ UNCHANGED <<object, held, exists, misled>>

RwStep(t) ==
    \/ \E mode \in Modes :
          \/ Acquire(t, mode) \/ Wait(t, mode) \/ Resume(t, mode)
          \/ CondTakes(t, mode) \/ CondMisses(t, mode)
    \/ Release(t) \/ ReleaseFaults(t)

RwNext == ~panicked /\ (Alloc \/ AllocFails \/ Free \/ \E t \in Threads : RwStep(t))

\* The object serves the head of its queue when it can, and RM gives back what
\* it was given.
RwFairness ==
    \A t \in Threads :
       /\ WF_rwVars(~panicked /\ (Release(t) \/ ReleaseFaults(t)))
       /\ WF_rwVars(~panicked /\ \E mode \in Modes : Resume(t, mode))

-----------------------------------------------------------------------------
(* Properties *)

\* The types of the variables; a thread waits at most once, and not while it
\* has the lock (one call of libc_driverkit.cpp:75-109 at a time).
RwTypeOK ==
    /\ readers \in 0 .. Cardinality(Threads)
    /\ writer \in BOOLEAN
    /\ queue \in Seq(Threads \X Modes)
    /\ held \in [Threads -> Modes \cup {"none"}]
    /\ {exists, misled, panicked} \subseteq BOOLEAN
    /\ \A i, j \in DOMAIN queue : i # j => queue[i][1] # queue[j][1]
    /\ \A i \in DOMAIN queue : held[queue[i][1]] = "none"

\* A thread that was told it may write is alone with the lock, as the name
\* of os_acquire_rwlock_write and of its conditional form says
\* (libc_driverkit.cpp:80, 94; libc_kernel.cpp:86, 96).
WriterAlone ==
    \A t, u \in Threads : held[t] = "write" /\ held[u] # "none" => t = u

\* The object counts exactly the threads that were told they have it, whichever
\* call told them and even if that call misled them about the mode: in the dext
\* an unlock, which names neither thread nor mode (libc_driverkit.cpp:103-109),
\* gives up the caller's share and nobody else's.  The kext shares this until a
\* conditional call has misled a thread.
HoldersCounted ==
    library = "dext" \/ ~misled =>
       /\ Cardinality({t \in Threads : held[t] # "none"}) = IF writer THEN 1 ELSE readers
       /\ writer => readers = 0

\* When no thread believes that it has the lock, nobody has to wait for it:
\* whatever the conditional calls of either library reported, the releases
\* (libc_driverkit.cpp:103-109, libc_kernel.cpp:101-107) leave nothing locked.
NeverLeftLocked == (\A t \in Threads : held[t] = "none") => ~Locked

\* The mode a thread waits in.
Wants(t) ==
    IF \E i \in DOMAIN queue : queue[i] = <<t, "read">> THEN "read"
    ELSE IF Waiting(t) THEN "write" ELSE "none"

Lock == INSTANCE LockContract WITH wants <- [t \in Threads |-> Wants(t)]

\* Until a conditional call misleads a thread, the lock passes between threads
\* only as its contract allows: a writer is alone, and no thread obtains what it
\* did not ask for (libc_driverkit.cpp:75-109, libc_kernel.cpp:81-107).
LockSafety ==
    /\ Lock!Init
    /\ [][misled' \/ Lock!Next]_<<held, [t \in Threads |-> Wants(t)]>>

\* A thread that waits in os_acquire_rwlock_read or os_acquire_rwlock_write is
\* served, or the kernel panics at the release of a misled thread.
WaitersServed == \A t \in Threads : Waiting(t) ~> (panicked \/ held[t] # "none")
=============================================================================
