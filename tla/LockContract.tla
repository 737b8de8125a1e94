---------------------------- MODULE LockContract ----------------------------
(***************************************************************************)
(* What RM relies on when it uses one of the library's locks: a writer is  *)
(* alone with the lock, and readers share it.                              *)
(***************************************************************************)
CONSTANT Threads

VARIABLES
    held,       \* held[t]: the mode in which thread t has the lock, or "none"
    wants       \* wants[t]: the mode in which t waits for it, or "none"

Init ==
    /\ held = [t \in Threads |-> "none"]
    /\ wants = [t \in Threads |-> "none"]

Compatible(t, mode) ==
    \A u \in Threads \ {t} :
       held[u] = "none" \/ (mode = "read" /\ held[u] = "read")

\* A thread waits for the lock.
Ask(t, mode) ==
    /\ held[t] = "none" /\ wants[t] = "none"
    /\ wants' = [wants EXCEPT ![t] = mode]
    /\ UNCHANGED held

\* It receives the lock after waiting ...
Grant(t) ==
    /\ wants[t] # "none" /\ Compatible(t, wants[t])
    /\ held' = [held EXCEPT ![t] = wants[t]]
    /\ wants' = [wants EXCEPT ![t] = "none"]

\* ... or without.
Take(t, mode) ==
    /\ held[t] = "none" /\ wants[t] = "none" /\ Compatible(t, mode)
    /\ held' = [held EXCEPT ![t] = mode]
    /\ UNCHANGED wants

Release(t) ==
    /\ held[t] # "none"
    /\ held' = [held EXCEPT ![t] = "none"]
    /\ UNCHANGED wants

Next ==
    \E t \in Threads :
       \/ \E mode \in {"read", "write"} : Ask(t, mode) \/ Take(t, mode)
       \/ Grant(t) \/ Release(t)
=============================================================================
