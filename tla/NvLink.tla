------------------------------- MODULE NvLink -------------------------------
(***************************************************************************)
(* nvlink_malloc and nvlink_free (Support/libnv-darwin/nvlink.cpp:56-64),  *)
(* on the heap of OsMem.  A nvlink_malloc that succeeds is an              *)
(* os_alloc_mem.  One that fails returns a variable that was never         *)
(* written: whatever was left in its place, aligned or not, which NVLink   *)
(* may free as if it were a block.                                         *)
(***************************************************************************)
EXTENDS OsMem

CONSTANT Garbage    \* values that an uninitialized pointer can have

VARIABLES
    wild,       \* garbage that a client has as a pointer
    trespass    \* garbage on which os_free_mem called IOFree, or None

nvlinkVars == <<vars, wild, trespass>>

NvInit == Init /\ wild = {} /\ trespass = None

\* nvlink_malloc, when os_alloc_mem returns NV_ERR_NO_MEMORY.
MallocFails(g) ==
    /\ wild' = wild \cup {g}
    /\ UNCHANGED <<vars, trespass>>

\* What getObject returns for any pointer.
Lookup(g) == IF KeyOf(g) \in Keys THEN global_allocations[KeyOf(g)] ELSE None

\* nvlink_free of garbage: os_free_mem looks it up like any other pointer.
\* There is no entry, and nothing happens but for the message ...
RejectWild(t, g) ==
    /\ pc[t] = "idle" /\ Lookup(g) = None
    /\ wild' = wild \ {g}
    /\ Enter
    /\ UNCHANGED <<heap, global_allocations, live, failures, pc, ptr, size, view, trespass>>

\* ... or there is one, and IOFree is called on garbage: what follows is undefined.
FreeGarbage(t, g) ==
    /\ pc[t] = "idle" /\ Lookup(g) # None
    /\ trespass' = g
    /\ Enter
    /\ UNCHANGED <<heap, global_allocations, live, failures, pc, ptr, size, view, wild>>

FreeWild(t, g) == RejectWild(t, g) \/ FreeGarbage(t, g)

NvNext ==
    /\ trespass = None
    /\ \/ Next /\ UNCHANGED <<wild, trespass>>
       \/ \E g \in Garbage : MallocFails(g)
       \/ \E t \in Threads, g \in wild : FreeWild(t, g)

NvSpec == NvInit /\ [][NvNext]_nvlinkVars

-----------------------------------------------------------------------------
(* Properties *)

\* A pointer that was not allocated ends in the message "Pointer was freed for
\* allocation that does not exist!" (libc.cpp:55), not in IOFree, as long as calls
\* do not overlap and no setObject fails.
WildFreeRejected == trespass # None => disturbed

\* The garbage g has the name of the block at p: where the name of a block loses a
\* digit, any address of its 16 bytes has it, and so has the number that remains.
SharesName(g, p) ==
    IF p < FullWidth THEN g = p ELSE g \in p .. p + 15 \/ g = p \div 16

\* As long as calls do not overlap and no setObject fails, os_free_mem calls IOFree
\* on garbage only if it has the name of a block in use: no entry outlives its block.
TrespassHitsBlock ==
    trespass # None => disturbed \/ \E p \in Known : SharesName(trespass, p)
=============================================================================
