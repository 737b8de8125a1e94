-------------------------------- MODULE OsMem --------------------------------
(***************************************************************************)
(* os_alloc_mem and os_free_mem (Support/libnv-darwin/libc.cpp:10-67), the *)
(* heap that RM uses.  IOFree needs the size of a block and os_free_mem is *)
(* not told it, so the library remembers it in an OSDictionary             *)
(* (global_allocations) whose key is the pointer, printed with "%p".       *)
(*                                                                         *)
(* Nothing serialises the calls: the dictionary is a plain global and has  *)
(* no lock of its own.  A call is cut at each access to state that threads *)
(* share: the heap, the lookup, the beginning of a dictionary update (when *)
(* the collection is read) and its end (when it is written).               *)
(*                                                                         *)
(* RM frees what it was given, once.  NvLink has a caller that does not.   *)
(***************************************************************************)
EXTENDS Integers

CONSTANTS
    Threads,          \* threads of RM that call the library
    Addresses,        \* addresses at which IOMallocZero can place a block
    Sizes,            \* sizes RM asks for
    FullWidth,        \* the least pointer of 16 hex digits, 16^15
    MaxSetFailures,   \* bound: how often OSDictionary::setObject may fail
    None              \* no block, no entry, no thread-local value

\* Blocks are 16-byte aligned.  Those of the kernel's allocator have addresses of 16
\* digits, and those of a process's one of 12.
ASSUME AddressAssumption ==
    /\ FullWidth \in Nat /\ FullWidth % 16 = 0
    /\ \A p \in Addresses : p \in Nat /\ p % 16 = 0
    /\ \/ \A p \in Addresses : p >= FullWidth
       \/ \A p \in Addresses : 16 * p < FullWidth
ASSUME SizeAssumption == Sizes \subseteq Nat \ {0}
ASSUME NoneAssumption == None \notin Nat
ASSUME BoundAssumption == MaxSetFailures \in Nat

(***************************************************************************)
(* The name of the key: "0x", the digits, and the NUL that snprintf always *)
(* keeps room for, in a buffer of 18.  The last of 16 digits is cut off.   *)
(***************************************************************************)
Mut_KeyOf(p) == p \div 256
KeyOf(p) == IF p < FullWidth THEN p ELSE p \div 16

Keys == {KeyOf(p) : p \in Addresses}

(***************************************************************************)
(* OSNumber::withNumber(size, sizeof(NvU64)): the second argument is the   *)
(* width of the number in BITS, and it is 8.                               *)
(***************************************************************************)
Mut_RecordedSize(s) == s % 16
Mut_SignedSize(s) == ((s + 128) % 256) - 128
RecordedSize(s) == s % 256

VARIABLES
    heap,                \* heap[p]: size of the block at p, or None
    global_allocations,  \* global_allocations[k]: recorded size, or None
    live,                \* pointers that RM owns: got from os_alloc_mem, not yet given back
    failures,            \* setObject calls that failed so far
    pc,                  \* pc[t]: where thread t is in its call
    ptr,                 \* ptr[t]: the pointer its call is about
    size,                \* size[t]: the size os_free_mem looked up
    view,                \* view[t]: the dictionary as its unfinished update found it
    disturbed            \* history: two calls overlapped, or a setObject failed

vars == <<heap, global_allocations, live, failures, pc, ptr, size, view, disturbed>>

NoEntries == [k \in Keys |-> None]

Init ==
    /\ heap = [p \in Addresses |-> None]
    /\ global_allocations = NoEntries
    /\ live = {}
    /\ failures = 0
    /\ pc = [t \in Threads |-> "idle"]
    /\ ptr = [t \in Threads |-> None]
    /\ size = [t \in Threads |-> None]
    /\ view = [t \in Threads |-> NoEntries]
    /\ disturbed = FALSE

-----------------------------------------------------------------------------
(* Accesses to the shared dictionary *)

\* An update reads the collection's entries and count ...
BeginUpdate(t) == view' = [view EXCEPT ![t] = global_allocations]

(***************************************************************************)
(* ... and writes them back later.  What another thread wrote in between   *)
(* survives or is overwritten, which of the two nothing in the code says.  *)
(***************************************************************************)
FinishUpdate(t, k, entry) ==
    /\ \E base \in {global_allocations, view[t]} :
          global_allocations' = [base EXCEPT ![k] = entry]
    /\ view' = [view EXCEPT ![t] = NoEntries]

\* A call begins; whether another one is under way is only remembered.
Enter == disturbed' = (disturbed \/ \E u \in Threads : pc[u] # "idle")

Return(t) ==
    /\ pc' = [pc EXCEPT ![t] = "idle"]
    /\ ptr' = [ptr EXCEPT ![t] = None]
    /\ size' = [size EXCEPT ![t] = None]

-----------------------------------------------------------------------------
(* os_alloc_mem.  When IOMallocZero returns NULL the call returns          *)
(* NV_ERR_NO_MEMORY and changes nothing, which is a stuttering step.       *)

\* IOMallocZero finds room; the call goes on to record the block.
AllocBlock(t, p, s) ==
    /\ pc[t] = "idle"
    /\ heap[p] = None
    /\ heap' = [heap EXCEPT ![p] = s]
    /\ pc' = [pc EXCEPT ![t] = "recording"]
    /\ ptr' = [ptr EXCEPT ![t] = p]
    /\ BeginUpdate(t)
    /\ Enter
    /\ UNCHANGED <<global_allocations, live, failures, size>>

\* setObject succeeds and the pointer goes to the caller.
RecordBlock(t) ==
    /\ pc[t] = "recording"
    /\ FinishUpdate(t, KeyOf(ptr[t]), RecordedSize(heap[ptr[t]]))
    /\ live' = live \cup {ptr[t]}
    /\ Return(t)
    /\ UNCHANGED <<heap, failures, disturbed>>

\* setObject fails (no memory to grow): its result is ignored and the
\* pointer goes to the caller all the same.
Mut_RecordBlockFails(t) ==
    /\ pc[t] = "recording"
    /\ failures < MaxSetFailures
    /\ failures' = failures + 1
    /\ disturbed' = TRUE
    /\ heap' = [heap EXCEPT ![ptr[t]] = None]
    /\ live' = live \cup {ptr[t]}
    /\ view' = [view EXCEPT ![t] = NoEntries]
    /\ Return(t)
    /\ UNCHANGED global_allocations
RecordBlockFails(t) ==
    /\ pc[t] = "recording"
    /\ failures < MaxSetFailures
    /\ failures' = failures + 1
    /\ disturbed' = TRUE
    /\ live' = live \cup {ptr[t]}
    /\ view' = [view EXCEPT ![t] = NoEntries]
    /\ Return(t)
    /\ UNCHANGED <<heap, global_allocations>>

-----------------------------------------------------------------------------
(* os_free_mem *)

\* getObject finds an entry: its value is the size that IOFree will be told.
FindBlock(t, p) ==
    /\ pc[t] = "idle"
    /\ p \in live
    /\ global_allocations[KeyOf(p)] # None
    /\ live' = live \ {p}
    /\ pc' = [pc EXCEPT ![t] = "freeing"]
    /\ ptr' = [ptr EXCEPT ![t] = p]
    /\ size' = [size EXCEPT ![t] = global_allocations[KeyOf(p)]]
    /\ Enter
    /\ UNCHANGED <<heap, global_allocations, failures, view>>

\* getObject finds none: a message is logged and the block stays allocated,
\* though the caller has given it up.
MissBlock(t, p) ==
    /\ pc[t] = "idle"
    /\ p \in live
    /\ global_allocations[KeyOf(p)] = None
    /\ live' = live \ {p}
    /\ Enter
    /\ UNCHANGED <<heap, global_allocations, failures, pc, ptr, size, view>>

\* IOFree, then removeObject begins.
ReleaseBlock(t) ==
    /\ pc[t] = "freeing"
    /\ heap' = [heap EXCEPT ![ptr[t]] = None]
    /\ pc' = [pc EXCEPT ![t] = "removing"]
    /\ BeginUpdate(t)
    /\ UNCHANGED <<global_allocations, live, failures, ptr, size, disturbed>>

Mut_RemoveEntry(t) ==
    /\ pc[t] = "removing"
    /\ view' = [view EXCEPT ![t] = NoEntries]
    /\ Return(t)
    /\ UNCHANGED <<heap, global_allocations, live, failures, disturbed>>
RemoveEntry(t) ==
    /\ pc[t] = "removing"
    /\ FinishUpdate(t, KeyOf(ptr[t]), None)
    /\ Return(t)
    /\ UNCHANGED <<heap, live, failures, disturbed>>

-----------------------------------------------------------------------------
(* A call that has begun goes on *)
Continue(t) ==
    \/ RecordBlock(t)
    \/ RecordBlockFails(t)
    \/ ReleaseBlock(t)
    \/ RemoveEntry(t)

Next ==
    \E t \in Threads :
       \/ \E p \in Addresses, s \in Sizes : AllocBlock(t, p, s)
       \/ \E p \in live : FindBlock(t, p) \/ MissBlock(t, p)
       \/ Continue(t)

\* A thread inside a call keeps running: no step of it waits for another thread.
Spec == Init /\ [][Next]_vars

FairSpec == Spec /\ \A t \in Threads : WF_vars(Continue(t))
-----------------------------------------------------------------------------
(* Properties *)

Recording(p) == \E t \in Threads : pc[t] = "recording" /\ ptr[t] = p
Freeing(p)   == \E t \in Threads : pc[t] = "freeing" /\ ptr[t] = p
Removing(p)  == \E t \in Threads : pc[t] = "removing" /\ ptr[t] = p

Entries == [Keys -> Nat \cup {None}]

\* The types of the variables; a thread has a pointer exactly while it is in
\* a call, and a looked-up size exactly while it frees (libc.cpp:45-67).
TypeOK ==
    /\ heap \in [Addresses -> Sizes \cup {None}]
    /\ global_allocations \in Entries
    /\ live \subseteq Addresses
    /\ failures \in 0..MaxSetFailures
    /\ pc \in [Threads -> {"idle", "recording", "freeing", "removing"}]
    /\ ptr \in [Threads -> Addresses \cup {None}]
    /\ size \in [Threads -> Nat \cup {None}]
    /\ view \in [Threads -> Entries]
    /\ disturbed \in BOOLEAN
    /\ \A t \in Threads : ptr[t] = None <=> pc[t] = "idle"
    /\ \A t \in Threads : size[t] = None <=> pc[t] \in {"idle", "recording"}

\* A block that RM owns, is about to receive, or is giving back is memory the
\* heap has handed out, and no two of these claims are on the same block.  For
\* callers that free once what they were given, os_free_mem thus never passes
\* IOFree a block that is in use or already freed, even when threads overwrite
\* each other's dictionary updates.
OneOwner ==
    /\ \A p \in live : heap[p] # None /\ ~Recording(p) /\ ~Freeing(p)
    /\ \A t \in Threads : pc[t] \in {"recording", "freeing"} =>
          /\ heap[ptr[t]] # None
          /\ \A u \in Threads \ {t} :
                pc[u] \in {"recording", "freeing"} => ptr[u] # ptr[t]

\* The dictionary knows the pointer: freeing it will not end in the message
\* "Pointer was freed for allocation that does not exist!" (libc.cpp:55).
EveryLivePointerTracked ==
    \A p \in live : global_allocations[KeyOf(p)] # None

\* Blocks of which the dictionary should have an entry.
Known == {p \in Addresses : p \in live \/ Freeing(p) \/ Removing(p)}

\* As long as calls do not overlap, the dictionary has an entry for the blocks RM
\* owns and those whose entry a call is about to remove, for no other, and two
\* blocks never share an entry (in the kernel the key's name loses a digit,
\* libc.cpp:27-29).
LedgerExact ==
    ~disturbed =>
       /\ {k \in Keys : global_allocations[k] # None} = {KeyOf(p) : p \in Known}
       /\ \A p, q \in Known : KeyOf(p) = KeyOf(q) => p = q

\* IOFree is told the size that IOMallocZero was asked for (libc.cpp:63).
ReleaseSizeExact ==
    ~disturbed => \A t \in Threads : pc[t] = "freeing" => size[t] = heap[ptr[t]]

\* As long as calls do not overlap, memory that is allocated between two calls is
\* owned by RM: os_free_mem never loses a block.
NothingLeaked ==
    ~disturbed /\ (\A t \in Threads : pc[t] = "idle") =>
       \A p \in Addresses : heap[p] # None => p \in live

-----------------------------------------------------------------------------
(* The contract *)

\* The stage of the block at p.  A block that was given back and is still
\* allocated is on its way to IOFree, or lost.
Stage(p) ==
    IF p \in live THEN "held"
    ELSE IF heap[p] = None THEN "free"
    ELSE IF Recording(p) THEN "reserved" ELSE "returned"

Heap == INSTANCE HeapContract WITH block <- [p \in Addresses |-> Stage(p)]

\* For callers that free once what they were given, each block has one owner at a
\* time and changes hands in the contract's order, whatever overlaps or fails.
HeapSafety == Heap!Safety

\* A block given to os_free_mem becomes available again, unless calls overlap.
ReturnedBlockIsFreed ==
    \A p \in Addresses : Stage(p) = "returned" ~> Stage(p) = "free" \/ disturbed
=============================================================================
