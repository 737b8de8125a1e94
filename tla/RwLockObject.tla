---------------------------- MODULE RwLockObject ----------------------------
(***************************************************************************)
(* The lock object below the library's reader/writer lock: a               *)
(* pthread_rwlock_t in the dext, an IORWLock in the kext.  Neither is part *)
(* of the repository.  As the library uses it, it counts its readers, may  *)
(* have a writer, keeps the threads that wait in the order they came (so   *)
(* that a waiting writer holds off younger readers), and unlocks without   *)
(* being told who had it in which mode.                                    *)
(***************************************************************************)
EXTENDS Naturals, Sequences

CONSTANT Threads

VARIABLES
    readers,    \* number of readers that have the object
    writer,     \* TRUE while a writer has it
    queue       \* the requests that wait: <<thread, mode>>

object == <<readers, writer, queue>>

Modes == {"read", "write"}

ObjectInit == readers = 0 /\ writer = FALSE /\ queue = <<>>

\* Nothing stands in the way of the mode.
Compatible(mode) == ~writer /\ (mode = "write" => readers = 0)

Take(mode) ==
    /\ readers' = IF mode = "read" THEN readers + 1 ELSE readers
    /\ writer' = IF mode = "write" THEN TRUE ELSE writer

\* A try lock would succeed: no one has to be waited for, or overtaken.
Available(mode) == Compatible(mode) /\ queue = <<>>

Enqueue(t, mode) ==
    /\ ~Available(mode)
    /\ queue' = Append(queue, <<t, mode>>)
    /\ UNCHANGED <<readers, writer>>

\* The request at the head of the queue is served.
Serve(t, mode) ==
    /\ queue # <<>> /\ Head(queue) = <<t, mode>>
    /\ Compatible(mode)
    /\ Take(mode)
    /\ queue' = Tail(queue)

\* Unlocking an object that nobody has is an error of the caller.
Locked == writer \/ readers > 0

Unlock ==
    /\ Locked
    /\ writer' = FALSE
    /\ readers' = IF writer THEN readers ELSE readers - 1
    /\ UNCHANGED queue
=============================================================================
