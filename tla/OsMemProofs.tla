----------------------------- MODULE OsMemProofs -----------------------------
(***************************************************************************)
(* Proofs about OsMem and NvLink, for every set of threads, addresses,     *)
(* sizes and garbage.                                                      *)
(*                                                                         *)
(* With any number of threads and of setObject failures: the types and     *)
(* OneOwner (together inductive), and with them the safety of the heap's   *)
(* contract.  As long as no two calls overlap and no setObject fails, the  *)
(* code also keeps its ledger: LedgerInv is inductive, and the tracking of *)
(* live pointers and the exact release size follow from it.                *)
(*                                                                         *)
(* All of this is for callers that free once what they were given.  Of one *)
(* that frees the uninitialized pointers of nvlink_malloc: as long as the  *)
(* ledger is kept, only those with the name of a block in use get past the *)
(* lookup of os_free_mem.                                                  *)
(***************************************************************************)
EXTENDS NvLink, TLAPS

-----------------------------------------------------------------------------
(* Keys *)

\* The key of an address is a key, and of no other address: the digit that
\* the buffer of libc.cpp:27-29 has no room for is always 0.
LEMMA KeyOfInjective ==
    /\ \A p \in Addresses : KeyOf(p) \in Keys
    /\ \A p, q \in Addresses : KeyOf(p) = KeyOf(q) => p = q
<1>1. \A p \in Addresses : KeyOf(p) \in Keys
  BY DEF Keys
<1>2. ASSUME NEW p \in Addresses, NEW q \in Addresses, KeyOf(p) = KeyOf(q)
      PROVE  p = q
  <2>1. p \in Nat /\ q \in Nat /\ p % 16 = 0 /\ q % 16 = 0
    BY AddressAssumption
  <2>2. CASE KeyOf(p) = p /\ KeyOf(q) = q
    BY <1>2, <2>2
  <2>3. CASE KeyOf(p) = p \div 16 /\ KeyOf(q) = q \div 16
    <3>1. \A n \in Nat : n = 16 * (n \div 16) + (n % 16)
      OBVIOUS
    <3>2. p = 16 * (p \div 16) /\ q = 16 * (q \div 16)
      BY <2>1, <3>1
    <3>3. p \div 16 = q \div 16
      BY <1>2, <2>3
    <3>4. QED
      BY <3>2, <3>3
  <2>4. p < FullWidth <=> q < FullWidth
    BY <2>1, AddressAssumption
  <2>5. QED
    BY <2>1, <2>2, <2>3, <2>4, AddressAssumption DEF KeyOf
<1>3. QED
  BY <1>1, <1>2

\* What is recorded for a size is a number.
LEMMA RecordedSizeType == \A s \in Sizes : RecordedSize(s) \in Nat
BY SizeAssumption DEF RecordedSize

\* A size that 8 bits hold is recorded as it is (libc.cpp:34).
LEMMA RecordedSizeExact == \A s \in 1..255 : RecordedSize(s) = s
BY DEF RecordedSize

-----------------------------------------------------------------------------
(* Types and ownership *)

Inv == TypeOK /\ OneOwner

\* At first the heap is free and no call is in progress.
LEMMA InitInv == Init => Inv
<1> SUFFICES ASSUME Init PROVE TypeOK /\ OneOwner
  BY DEF Inv
<1>1. NoEntries \in Entries
  BY DEF NoEntries, Entries
<1>2. disturbed \in BOOLEAN
  BY DEF Init
<1>3. TypeOK
  BY <1>1, <1>2, BoundAssumption DEF Init, TypeOK
<1>4. OneOwner
  BY DEF Init, OneOwner
<1>5. QED
  BY <1>3, <1>4

\* An update's result is a dictionary again.
LEMMA FinishUpdateType ==
    ASSUME TypeOK, NEW t \in Threads, NEW k \in Keys, NEW e \in Nat \cup {None},
           FinishUpdate(t, k, e)
    PROVE  global_allocations' \in Entries /\ view' \in [Threads -> Entries]
<1>1. PICK base \in {global_allocations, view[t]} :
         global_allocations' = [base EXCEPT ![k] = e]
  BY DEF FinishUpdate
<1>2. base \in Entries
  BY DEF TypeOK
<1>3. global_allocations' \in Entries
  BY <1>1, <1>2 DEF Entries
<1>4. NoEntries \in Entries
  BY DEF NoEntries, Entries
<1>5. QED
  BY <1>3, <1>4 DEF FinishUpdate, TypeOK

\* Each step of a call changes the claim to one block, from one claimant to the next.
LEMMA NextInv == Inv /\ [Next]_vars => Inv'
<1> SUFFICES ASSUME Inv, [Next]_vars PROVE Inv'
  OBVIOUS
<1> USE NoneAssumption, SizeAssumption, BoundAssumption
<1>1. ASSUME NEW t \in Threads, NEW p \in Addresses, NEW s \in Sizes, AllocBlock(t, p, s)
      PROVE  Inv'
  <2>1. p \in Nat
    BY AddressAssumption
  <2>2. TypeOK'
    BY <1>1, <2>1 DEF Inv, TypeOK, AllocBlock, BeginUpdate, Enter
  <2>3. OneOwner'
    BY <1>1, <2>1 DEF Inv, TypeOK, OneOwner, AllocBlock, Recording, Freeing
  <2>4. QED
    BY <2>2, <2>3 DEF Inv
<1>2. ASSUME NEW t \in Threads, RecordBlock(t)
      PROVE  Inv'
  <2>1. ptr[t] \in Addresses /\ heap[ptr[t]] \in Sizes
    BY <1>2 DEF Inv, TypeOK, OneOwner, RecordBlock
  <2>2. global_allocations' \in Entries /\ view' \in [Threads -> Entries]
    BY <1>2, <2>1, FinishUpdateType, KeyOfInjective, RecordedSizeType DEF Inv, RecordBlock
  <2>3. TypeOK'
    BY <1>2, <2>1, <2>2 DEF Inv, TypeOK, RecordBlock, Return
  <2>4. OneOwner'
    BY <1>2, <2>1 DEF Inv, TypeOK, OneOwner, RecordBlock, Return, Recording, Freeing
  <2>5. QED
    BY <2>3, <2>4 DEF Inv
<1>3. ASSUME NEW t \in Threads, RecordBlockFails(t)
      PROVE  Inv'
  <2>1. ptr[t] \in Addresses
    BY <1>3 DEF Inv, TypeOK, RecordBlockFails
  <2>2. NoEntries \in Entries
    BY DEF NoEntries, Entries
  <2>3. TypeOK'
    BY <1>3, <2>1, <2>2 DEF Inv, TypeOK, RecordBlockFails, Return
  <2>4. OneOwner'
    BY <1>3, <2>1 DEF Inv, TypeOK, OneOwner, RecordBlockFails, Return, Recording, Freeing
  <2>5. QED
    BY <2>3, <2>4 DEF Inv
<1>4. ASSUME NEW t \in Threads, NEW p \in live, FindBlock(t, p)
      PROVE  Inv'
  <2>1. p \in Addresses /\ p \in Nat
    BY AddressAssumption DEF Inv, TypeOK
  <2>2. global_allocations[KeyOf(p)] \in Nat
    BY <1>4, <2>1, KeyOfInjective DEF Inv, TypeOK, Entries, FindBlock
  <2>3. TypeOK'
    BY <1>4, <2>1, <2>2 DEF Inv, TypeOK, FindBlock, Enter
  <2>4. OneOwner'
    BY <1>4, <2>1 DEF Inv, TypeOK, OneOwner, FindBlock, Recording, Freeing
  <2>5. QED
    BY <2>3, <2>4 DEF Inv
<1>5. ASSUME NEW t \in Threads, NEW p \in live, MissBlock(t, p)
      PROVE  Inv'
  <2>1. TypeOK'
    BY <1>5 DEF Inv, TypeOK, MissBlock, Enter
  <2>2. OneOwner'
    BY <1>5 DEF Inv, TypeOK, OneOwner, MissBlock, Recording, Freeing
  <2>3. QED
    BY <2>1, <2>2 DEF Inv
<1>6. ASSUME NEW t \in Threads, ReleaseBlock(t)
      PROVE  Inv'
  <2>1. TypeOK'
    BY <1>6 DEF Inv, TypeOK, ReleaseBlock, BeginUpdate
  <2>2. OneOwner'
    BY <1>6 DEF Inv, TypeOK, OneOwner, ReleaseBlock, Recording, Freeing
  <2>3. QED
    BY <2>1, <2>2 DEF Inv
<1>7. ASSUME NEW t \in Threads, RemoveEntry(t)
      PROVE  Inv'
  <2>1. ptr[t] \in Addresses
    BY <1>7 DEF Inv, TypeOK, RemoveEntry
  <2>2. global_allocations' \in Entries /\ view' \in [Threads -> Entries]
    BY <1>7, <2>1, FinishUpdateType, KeyOfInjective DEF Inv, RemoveEntry
  <2>3. TypeOK'
    BY <1>7, <2>2 DEF Inv, TypeOK, RemoveEntry, Return
  <2>4. OneOwner'
    BY <1>7 DEF Inv, TypeOK, OneOwner, RemoveEntry, Return, Recording, Freeing
  <2>5. QED
    BY <2>3, <2>4 DEF Inv
<1>8. CASE UNCHANGED vars
  BY <1>8 DEF Inv, TypeOK, OneOwner, Recording, Freeing, vars
<1>9. QED
  BY <1>1, <1>2, <1>3, <1>4, <1>5, <1>6, <1>7, <1>8 DEF Next, Continue

\* Types and ownership hold in every reachable state.
THEOREM SpecInv == Spec => []Inv
BY InitInv, NextInv, PTL DEF Spec

\* Whatever the threads do and however often setObject fails, no block has two
\* owners and IOFree is only called on memory that is allocated and given up.
THEOREM SpecOneOwner == Spec => [](TypeOK /\ OneOwner)
BY SpecInv DEF Inv

-----------------------------------------------------------------------------
(* The contract *)

\* A step of one block's stage is a step of the contract.
LEMMA StageStep ==
    ASSUME Inv, NEW p \in Addresses,
           NEW from \in {"free", "reserved", "held", "returned"},
           NEW to \in {"free", "reserved", "held", "returned"},
           Stage(p) = from, Stage(p)' = to,
           \A q \in Addresses \ {p} : Stage(q)' = Stage(q),
           \/ from = "free" /\ to = "reserved"
           \/ from = "reserved" /\ to = "held"
           \/ from = "held" /\ to = "returned"
           \/ from = "returned" /\ to = "free"
    PROVE  Heap!Next
<1>1. [q \in Addresses |-> Stage(q)]' = [[q \in Addresses |-> Stage(q)] EXCEPT ![p] = to]
  OBVIOUS
<1>2. [q \in Addresses |-> Stage(q)][p] = from
  OBVIOUS
<1>3. Heap!Reserve(p) \/ Heap!Grant(p) \/ Heap!Return(p) \/ Heap!Reclaim(p)
  BY <1>1, <1>2 DEF Heap!Reserve, Heap!Grant, Heap!Return, Heap!Reclaim, Heap!Advance
<1>4. QED
  BY <1>3 DEF Heap!Next

\* At first every block is free, as the contract says.
LEMMA InitContract == Init => Heap!Init
BY DEF Init, Heap!Init, Stage, Recording

\* Each step is one of the contract's, for one block, or leaves all stages alone.
LEMMA NextContract ==
    Inv /\ [Next]_vars => [Heap!Next]_([p \in Addresses |-> Stage(p)])
<1> SUFFICES ASSUME Inv, [Next]_vars
             PROVE  Heap!Next \/ UNCHANGED [p \in Addresses |-> Stage(p)]
  OBVIOUS
<1> USE NoneAssumption, SizeAssumption, AddressAssumption
<1>1. ASSUME NEW t \in Threads, NEW p \in Addresses, NEW s \in Sizes, AllocBlock(t, p, s)
      PROVE  Heap!Next
  <2>1. Stage(p) = "free" /\ Stage(p)' = "reserved"
    BY <1>1 DEF Inv, TypeOK, OneOwner, AllocBlock, Stage, Recording
  <2>2. ASSUME NEW q \in Addresses \ {p} PROVE Stage(q)' = Stage(q)
    BY <1>1 DEF Inv, TypeOK, OneOwner, AllocBlock, Stage, Recording
  <2>3. QED
    BY <2>1, <2>2, StageStep
<1>2. ASSUME NEW t \in Threads, RecordBlock(t) \/ RecordBlockFails(t)
      PROVE  Heap!Next
  <2>1. PICK p \in Addresses : p = ptr[t]
    BY <1>2 DEF Inv, TypeOK, RecordBlock, RecordBlockFails
  <2>2. /\ pc[t] = "recording" /\ heap' = heap /\ live' = live \cup {p}
        /\ pc' = [pc EXCEPT ![t] = "idle"] /\ ptr' = [ptr EXCEPT ![t] = None]
    BY <1>2, <2>1 DEF RecordBlock, RecordBlockFails, Return
  <2>3. Stage(p) = "reserved" /\ Stage(p)' = "held"
    BY <2>1, <2>2 DEF Inv, TypeOK, OneOwner, Stage, Recording
  <2>4. ASSUME NEW q \in Addresses \ {p} PROVE Stage(q)' = Stage(q)
    <3>1. Recording(q)' <=> Recording(q)
      BY <2>1, <2>2 DEF Inv, TypeOK, Recording
    <3>2. QED
      BY <2>2, <3>1 DEF Stage
  <2>5. QED
    BY <2>3, <2>4, StageStep
<1>3. ASSUME NEW t \in Threads, NEW p \in live, FindBlock(t, p) \/ MissBlock(t, p)
      PROVE  Heap!Next
  <2>1. p \in Addresses
    BY DEF Inv, TypeOK
  <2>2. heap' = heap /\ live' = live \ {p}
    BY <1>3 DEF FindBlock, MissBlock
  <2>3. \A q \in Addresses : Recording(q)' <=> Recording(q)
    BY <1>3 DEF Inv, TypeOK, FindBlock, MissBlock, Recording
  <2>4. Stage(p) = "held" /\ Stage(p)' = "returned"
    BY <2>1, <2>2, <2>3 DEF Inv, OneOwner, Stage
  <2>5. ASSUME NEW q \in Addresses \ {p} PROVE Stage(q)' = Stage(q)
    BY <2>2, <2>3 DEF Stage
  <2>6. QED
    BY <2>1, <2>4, <2>5, StageStep
<1>4. ASSUME NEW t \in Threads, ReleaseBlock(t)
      PROVE  Heap!Next
  <2>1. PICK p \in Addresses : p = ptr[t]
    BY <1>4 DEF Inv, TypeOK, ReleaseBlock
  <2>2. heap' = [heap EXCEPT ![p] = None] /\ live' = live
    BY <1>4, <2>1 DEF ReleaseBlock
  <2>3. \A q \in Addresses : Recording(q)' <=> Recording(q)
    BY <1>4 DEF Inv, TypeOK, ReleaseBlock, Recording
  <2>4. Stage(p) = "returned" /\ Stage(p)' = "free"
    BY <1>4, <2>1, <2>2 DEF Inv, TypeOK, OneOwner, ReleaseBlock, Stage, Recording, Freeing
  <2>5. ASSUME NEW q \in Addresses \ {p} PROVE Stage(q)' = Stage(q)
    BY <2>2, <2>3 DEF Inv, TypeOK, Stage
  <2>6. QED
    BY <2>4, <2>5, StageStep
<1>5. ASSUME NEW t \in Threads, RemoveEntry(t)
      PROVE  UNCHANGED [p \in Addresses |-> Stage(p)]
  <2>1. \A q \in Addresses : Recording(q)' <=> Recording(q)
    BY <1>5 DEF Inv, TypeOK, RemoveEntry, Return, Recording
  <2>2. QED
    BY <1>5, <2>1 DEF RemoveEntry, Stage
<1>6. CASE UNCHANGED vars
  BY <1>6 DEF vars, Stage, Recording
<1>7. QED
  BY <1>1, <1>2, <1>3, <1>4, <1>5, <1>6 DEF Next, Continue

\* Every behaviour, with races and failures, keeps the safety of the contract:
\* a block changes hands only from the heap to a caller and back.
THEOREM SpecHeapSafety == Spec => HeapSafety
BY SpecInv, InitContract, NextContract, PTL DEF Spec, HeapSafety, Heap!Safety

-----------------------------------------------------------------------------
(* As long as no calls overlap and no setObject fails *)

\* At most one thread is in a call.
Alone == \A t, u \in Threads : pc[t] # "idle" /\ pc[u] # "idle" => t = u

\* With nobody else to write it, an unfinished update still sees the dictionary.
ViewCurrent ==
    \A t \in Threads : pc[t] \in {"recording", "removing"} => view[t] = global_allocations

\* The entry of a block that is owned or being freed has its recorded size.
Recorded ==
    /\ \A p \in live : global_allocations[KeyOf(p)] = RecordedSize(heap[p])
    /\ \A t \in Threads : pc[t] \in {"freeing", "removing"} =>
          global_allocations[KeyOf(ptr[t])] = size[t]
    /\ \A t \in Threads : pc[t] = "freeing" => size[t] = RecordedSize(heap[ptr[t]])
    /\ \A t \in Threads : pc[t] = "removing" => ptr[t] \notin live

\* An entry is that of a block that is owned or being freed.
NoStaleEntry == \A p \in Addresses : global_allocations[KeyOf(p)] # None => p \in Known

\* Allocated memory is owned, or on its way to or from its owner.
Accounted ==
    \A p \in Addresses : heap[p] # None => p \in live \/ Recording(p) \/ Freeing(p)

Ledger == Alone /\ ViewCurrent /\ Recorded /\ NoStaleEntry /\ Accounted

LedgerInv == Inv /\ (~disturbed => Ledger)

\* The empty dictionary mirrors the empty heap.
LEMMA InitLedger == Init => LedgerInv
<1> SUFFICES ASSUME Init PROVE LedgerInv
  OBVIOUS
<1>1. Inv
  BY InitInv
<1>2. Alone /\ ViewCurrent /\ Recorded /\ Accounted
  BY DEF Init, Alone, ViewCurrent, Recorded, Accounted
<1>3. NoStaleEntry
  BY KeyOfInjective DEF Init, NoEntries, NoStaleEntry
<1>4. QED
  BY <1>1, <1>2, <1>3 DEF LedgerInv, Ledger

\* When nobody else has written the dictionary since, finishing an update changes
\* the entry of its key alone.
LEMMA QuietUpdate ==
    ASSUME TypeOK, ViewCurrent, NEW t \in Threads, pc[t] \in {"recording", "removing"},
           NEW p \in Addresses, NEW e, FinishUpdate(t, KeyOf(p), e)
    PROVE  /\ (global_allocations')[KeyOf(p)] = e
           /\ \A q \in Addresses \ {p} :
                 (global_allocations')[KeyOf(q)] = global_allocations[KeyOf(q)]
<1>1. global_allocations' = [global_allocations EXCEPT ![KeyOf(p)] = e]
  BY DEF FinishUpdate, ViewCurrent
<1>2. \A q \in Addresses : KeyOf(q) \in Keys /\ (KeyOf(q) = KeyOf(p) => q = p)
  BY KeyOfInjective
<1>3. QED
  BY <1>1, <1>2 DEF TypeOK, Entries

\* While one thread is in a call, only its pc matters.
LEMMA OnlyOneInCall ==
    ASSUME Alone, NEW T \in Threads, pc[T] # "idle"
    PROVE  \A u \in Threads \ {T} : pc[u] = "idle"
BY DEF Alone

\* Until calls overlap or a setObject fails, each step keeps the ledger.
LEMMA NextLedger == LedgerInv /\ [Next]_vars => LedgerInv'
<1> SUFFICES ASSUME LedgerInv, [Next]_vars, ~disturbed' PROVE Ledger'
  BY NextInv DEF LedgerInv
<1> USE NoneAssumption, SizeAssumption, AddressAssumption
<1>1. TypeOK /\ OneOwner
  BY DEF LedgerInv, Inv
<1>2. ~disturbed
  BY <1>1 DEF Next, Continue, AllocBlock, RecordBlock, RecordBlockFails, FindBlock, MissBlock,
     ReleaseBlock, RemoveEntry, Enter, vars, TypeOK
<1>3. Alone /\ ViewCurrent /\ Recorded /\ NoStaleEntry /\ Accounted
  BY <1>2 DEF LedgerInv, Ledger
<1>4. ASSUME NEW T \in Threads, NEW p \in Addresses, NEW s \in Sizes, AllocBlock(T, p, s)
      PROVE  Ledger'
  <2>1. \A u \in Threads : pc[u] = "idle"
    BY <1>4 DEF AllocBlock, Enter
  <2>2. p \notin live /\ Alone' /\ ViewCurrent'
    BY <1>1, <1>4, <2>1 DEF TypeOK, OneOwner, AllocBlock, BeginUpdate, Alone, ViewCurrent
  <2>3. Recorded'
    BY <1>1, <1>3, <1>4, <2>1, <2>2 DEF TypeOK, AllocBlock, Recorded
  <2>4. NoStaleEntry'
    BY <1>1, <1>3, <1>4, <2>1 DEF TypeOK, AllocBlock, NoStaleEntry, Known, Freeing, Removing
  <2>5. Accounted'
    BY <1>1, <1>3, <1>4, <2>1 DEF TypeOK, AllocBlock, Accounted, Recording, Freeing
  <2>6. QED
    BY <2>2, <2>3, <2>4, <2>5 DEF Ledger
<1>5. ASSUME NEW T \in Threads, RecordBlock(T)
      PROVE  Ledger'
  <2>1. PICK p \in Addresses : p = ptr[T]
    BY <1>1, <1>5 DEF TypeOK, RecordBlock
  <2>2. /\ pc[T] = "recording" /\ heap' = heap /\ live' = live \cup {p}
        /\ pc' = [pc EXCEPT ![T] = "idle"] /\ ptr' = [ptr EXCEPT ![T] = None]
    BY <1>5, <2>1 DEF RecordBlock, Return
  <2>3. /\ (global_allocations')[KeyOf(p)] = RecordedSize(heap[p])
        /\ \A q \in Addresses \ {p} :
              (global_allocations')[KeyOf(q)] = global_allocations[KeyOf(q)]
    BY <1>1, <1>3, <1>5, <2>1, <2>2, QuietUpdate DEF RecordBlock
  <2>4. \A u \in Threads \ {T} : pc[u] = "idle"
    BY <1>3, <2>2, OnlyOneInCall
  <2>5. \A u \in Threads : pc'[u] = "idle"
    BY <1>1, <2>2, <2>4 DEF TypeOK
  <2>6. Alone' /\ ViewCurrent'
    BY <2>5 DEF Alone, ViewCurrent
  <2>7. Recorded'
    BY <1>1, <1>3, <2>2, <2>3, <2>5 DEF TypeOK, Recorded
  <2>8. NoStaleEntry' /\ Accounted'
    BY <1>1, <1>3, <2>1, <2>2, <2>3, <2>4 DEF TypeOK, NoStaleEntry, Accounted, Known, Recording,
       Freeing, Removing
  <2>9. QED
    BY <2>6, <2>7, <2>8 DEF Ledger
<1>6. ASSUME NEW T \in Threads, RecordBlockFails(T)
      PROVE  Ledger'
  BY <1>6 DEF RecordBlockFails
<1>7. ASSUME NEW T \in Threads, NEW p \in live, FindBlock(T, p)
      PROVE  Ledger'
  <2>1. p \in Addresses /\ live' = live \ {p} /\ heap' = heap
        /\ global_allocations' = global_allocations
        /\ pc' = [pc EXCEPT ![T] = "freeing"] /\ ptr' = [ptr EXCEPT ![T] = p]
        /\ size' = [size EXCEPT ![T] = global_allocations[KeyOf(p)]]
    BY <1>1, <1>7 DEF TypeOK, FindBlock
  <2>2. \A u \in Threads : pc[u] = "idle"
    BY <1>7 DEF FindBlock, Enter
  <2>3. Alone' /\ ViewCurrent' /\ Recorded'
    BY <1>1, <1>3, <2>1, <2>2 DEF TypeOK, Alone, ViewCurrent, Recorded
  <2>4. NoStaleEntry' /\ Accounted'
    BY <1>1, <1>3, <2>1, <2>2 DEF TypeOK, NoStaleEntry, Accounted, Known, Recording, Freeing,
       Removing
  <2>5. QED
    BY <2>3, <2>4 DEF Ledger
<1>8. ASSUME NEW T \in Threads, NEW p \in live, MissBlock(T, p)
      PROVE  Ledger'
  <2>1. global_allocations[KeyOf(p)] = RecordedSize(heap[p]) /\ heap[p] \in Sizes
    BY <1>1, <1>3 DEF TypeOK, OneOwner, Recorded
  <2>2. QED
    BY <1>8, <2>1, RecordedSizeType DEF MissBlock
<1>9. ASSUME NEW T \in Threads, ReleaseBlock(T)
      PROVE  Ledger'
  <2>1. PICK p \in Addresses : p = ptr[T]
    BY <1>1, <1>9 DEF TypeOK, ReleaseBlock
  <2>2. /\ pc[T] = "freeing" /\ heap' = [heap EXCEPT ![p] = None] /\ p \notin live
        /\ pc' = [pc EXCEPT ![T] = "removing"]
        /\ UNCHANGED <<live, ptr, size, global_allocations>>
    BY <1>1, <1>9, <2>1 DEF OneOwner, ReleaseBlock, Freeing
  <2>3. \A u \in Threads \ {T} : pc[u] = "idle"
    BY <1>3, <2>2, OnlyOneInCall
  <2>4. Alone' /\ ViewCurrent'
    BY <1>1, <1>9, <2>2, <2>3 DEF TypeOK, ReleaseBlock, BeginUpdate, Alone, ViewCurrent
  <2>5. Recorded'
    BY <1>1, <1>3, <2>1, <2>2, <2>3 DEF TypeOK, Recorded
  <2>6. NoStaleEntry' /\ Accounted'
    BY <1>1, <1>3, <2>1, <2>2, <2>3 DEF TypeOK, NoStaleEntry, Accounted, Known, Recording,
       Freeing, Removing
  <2>7. QED
    BY <2>4, <2>5, <2>6 DEF Ledger
<1>10. ASSUME NEW T \in Threads, RemoveEntry(T)
       PROVE  Ledger'
  <2>1. PICK p \in Addresses : p = ptr[T]
    BY <1>1, <1>10 DEF TypeOK, RemoveEntry
  <2>2. /\ pc[T] = "removing" /\ heap' = heap /\ live' = live /\ p \notin live
        /\ pc' = [pc EXCEPT ![T] = "idle"] /\ ptr' = [ptr EXCEPT ![T] = None]
    BY <1>3, <1>10, <2>1 DEF Recorded, RemoveEntry, Return
  <2>3. /\ (global_allocations')[KeyOf(p)] = None
        /\ \A q \in Addresses \ {p} :
              (global_allocations')[KeyOf(q)] = global_allocations[KeyOf(q)]
    BY <1>1, <1>3, <1>10, <2>1, <2>2, QuietUpdate DEF RemoveEntry
  <2>4. \A u \in Threads \ {T} : pc[u] = "idle"
    BY <1>3, <2>2, OnlyOneInCall
  <2>5. \A u \in Threads : pc'[u] = "idle"
    BY <1>1, <2>2, <2>4 DEF TypeOK
  <2>6. Alone' /\ ViewCurrent' /\ Recorded'
    BY <1>1, <1>3, <2>2, <2>3, <2>5 DEF TypeOK, Alone, ViewCurrent, Recorded
  <2>7. NoStaleEntry' /\ Accounted'
    BY <1>1, <1>3, <2>1, <2>2, <2>3, <2>4 DEF TypeOK, NoStaleEntry, Accounted, Known, Recording,
       Freeing, Removing
  <2>8. QED
    BY <2>6, <2>7 DEF Ledger
<1>11. CASE UNCHANGED vars
  BY <1>3, <1>11 DEF Ledger, Alone, ViewCurrent, Recorded, NoStaleEntry, Accounted, Known,
     Recording, Freeing, Removing, vars
<1>12. QED
  BY <1>4, <1>5, <1>6, <1>7, <1>8, <1>9, <1>10, <1>11 DEF Next, Continue

\* In every behaviour of the library the ledger is kept until calls overlap or a
\* setObject fails; the theorems below read their properties off it.
THEOREM SpecLedgerInv == Spec => []LedgerInv
BY InitLedger, NextLedger, PTL DEF Spec

\* The ledger is exact: an entry is that of a known block, and the other way round.
LEMMA InvLedgerExact == LedgerInv => LedgerExact
<1> SUFFICES ASSUME LedgerInv, ~disturbed
             PROVE  /\ {k \in Keys : global_allocations[k] # None} = {KeyOf(p) : p \in Known}
                    /\ \A p, q \in Known : KeyOf(p) = KeyOf(q) => p = q
  BY DEF LedgerExact
<1>1. TypeOK /\ OneOwner /\ Recorded /\ NoStaleEntry
  BY DEF LedgerInv, Inv, Ledger
<1>2. ASSUME NEW p \in Known PROVE global_allocations[KeyOf(p)] # None
  <2>1. CASE p \in live
    <3>1. heap[p] \in Sizes /\ global_allocations[KeyOf(p)] = RecordedSize(heap[p])
      BY <1>1, <2>1 DEF TypeOK, OneOwner, Recorded
    <3>2. QED
      BY <3>1, RecordedSizeType, NoneAssumption
  <2>2. CASE Freeing(p) \/ Removing(p)
    BY <1>1, <2>2, NoneAssumption DEF TypeOK, Recorded, Freeing, Removing
  <2>3. QED
    BY <2>1, <2>2 DEF Known
<1>3. {k \in Keys : global_allocations[k] # None} = {KeyOf(p) : p \in Known}
  <2>1. ASSUME NEW k \in Keys, global_allocations[k] # None
        PROVE  k \in {KeyOf(p) : p \in Known}
    BY <1>1, <2>1 DEF NoStaleEntry, Keys
  <2>2. \A p \in Known : KeyOf(p) \in Keys
    BY KeyOfInjective DEF Known
  <2>3. QED
    BY <1>2, <2>1, <2>2
<1>4. \A p, q \in Known : KeyOf(p) = KeyOf(q) => p = q
  BY KeyOfInjective DEF Known
<1>5. QED
  BY <1>3, <1>4

\* Live pointers have entries, and allocated memory is somebody's.
LEMMA InvNothingLeaked ==
    LedgerInv => NothingLeaked /\ (~disturbed => EveryLivePointerTracked)
<1>1. LedgerInv => (~disturbed => EveryLivePointerTracked)
  BY RecordedSizeType, NoneAssumption
     DEF LedgerInv, Ledger, Inv, TypeOK, OneOwner, Recorded, EveryLivePointerTracked
<1>2. LedgerInv => NothingLeaked
  BY DEF LedgerInv, Ledger, Accounted, NothingLeaked, Recording, Freeing
<1>3. QED
  BY <1>1, <1>2

\* The size that was recorded is the one that was asked for, if 8 bits hold it.
LEMMA InvReleaseSizeExact ==
    ASSUME Sizes \subseteq 1..255 PROVE LedgerInv => ReleaseSizeExact
<1>1. ASSUME LedgerInv, ~disturbed, NEW t \in Threads, pc[t] = "freeing"
      PROVE  size[t] = heap[ptr[t]]
  <2>1. ptr[t] \in Addresses /\ heap[ptr[t]] \in Sizes
    BY <1>1 DEF LedgerInv, Inv, TypeOK, OneOwner
  <2>2. heap[ptr[t]] \in 1..255
    BY <2>1
  <2>3. size[t] = RecordedSize(heap[ptr[t]])
    BY <1>1 DEF LedgerInv, Ledger, Recorded
  <2>4. QED
    BY <2>2, <2>3, RecordedSizeExact
<1>2. QED
  BY <1>1 DEF ReleaseSizeExact

\* Until calls overlap, the library never loses track of a block: the entries of
\* the dictionary are those of the blocks RM owns or is giving back, one each.
THEOREM SpecLedgerExact == Spec => []LedgerExact
BY SpecLedgerInv, InvLedgerExact, PTL

\* Until calls overlap, os_free_mem never misses a block, and between calls no
\* memory is allocated that RM does not own.
THEOREM SpecNothingLeaked ==
    Spec => [](NothingLeaked /\ (~disturbed => EveryLivePointerTracked))
BY SpecLedgerInv, InvNothingLeaked, PTL

\* If no request exceeds 255 bytes, then until calls overlap IOFree is told the
\* size that was allocated.
THEOREM SpecReleaseSizeExact ==
    ASSUME Sizes \subseteq 1..255 PROVE Spec => []ReleaseSizeExact
BY SpecLedgerInv, InvReleaseSizeExact, PTL

-----------------------------------------------------------------------------
(* NVLink's garbage *)

NvInv == LedgerInv /\ wild \subseteq Garbage /\ TrespassHitsBlock

\* Only the pointers of a block's 16 bytes, and the number that the kernel's name of
\* it loses its last digit to, have the block's name.
LEMMA SameKey ==
    ASSUME NEW g \in Nat, NEW p \in Addresses, KeyOf(g) = KeyOf(p)
    PROVE  SharesName(g, p)
<1>1. p \in Nat /\ p % 16 = 0 /\ FullWidth \in Nat
  BY AddressAssumption
<1>2. \A n \in Nat : n = 16 * (n \div 16) + (n % 16) /\ n % 16 \in 0..15 /\ n \div 16 \in Nat
  OBVIOUS
<1>3. CASE p < FullWidth
  <2>1. 16 * p < FullWidth
    BY <1>1, <1>3, AddressAssumption
  <2>2. KeyOf(p) = p
    BY <1>3 DEF KeyOf
  <2>3. CASE g < FullWidth
    BY <1>3, <2>2, <2>3 DEF KeyOf, SharesName
  <2>4. CASE ~(g < FullWidth)
    <3>1. g \div 16 = p
      BY <2>2, <2>4 DEF KeyOf
    <3>2. g < 16 * p + 16 /\ FullWidth <= g
      BY <1>1, <1>2, <2>4, <3>1
    <3>3. FullWidth = 16 * (FullWidth \div 16) /\ FullWidth \div 16 \in Nat
      BY <1>2, AddressAssumption
    <3>4. QED
      BY <1>1, <2>1, <3>2, <3>3
  <2>5. QED
    BY <2>3, <2>4
<1>4. CASE ~(p < FullWidth)
  <2>1. KeyOf(p) = p \div 16 /\ p = 16 * (p \div 16)
    BY <1>1, <1>2, <1>4 DEF KeyOf
  <2>2. CASE g < FullWidth
    BY <1>4, <2>1, <2>2 DEF KeyOf, SharesName
  <2>3. CASE ~(g < FullWidth)
    <3>1. g \div 16 = p \div 16
      BY <2>1, <2>3 DEF KeyOf
    <3>2. g = p + (g % 16) /\ g % 16 \in 0..15
      BY <1>2, <2>1, <3>1
    <3>3. g \in p .. p + 15
      BY <1>1, <3>2
    <3>4. QED
      BY <1>4, <3>3 DEF SharesName
  <2>4. QED
    BY <2>2, <2>3
<1>5. QED
  BY <1>3, <1>4

\* At first no one has garbage.
LEMMA NvInitInv == NvInit => NvInv
BY InitLedger DEF NvInit, NvInv, TrespassHitsBlock

\* A lookup that changes nothing may still disturb the ledger's guarantee.
LEMMA LookupInv ==
    ASSUME LedgerInv, disturbed' \in BOOLEAN, disturbed => disturbed',
           UNCHANGED <<heap, global_allocations, live, failures, pc, ptr, size, view>>
    PROVE  LedgerInv'
<1>1. Inv'
  BY DEF LedgerInv, Inv, TypeOK, OneOwner, Recording, Freeing
<1>2. Ledger' <=> Ledger
  BY DEF Ledger, Alone, ViewCurrent, Recorded, NoStaleEntry, Accounted, Known, Recording,
         Freeing, Removing
<1>3. QED
  BY <1>1, <1>2 DEF LedgerInv

\* What a lookup of a wild address remembers of overlapping calls.
LEMMA EnterType ==
    ASSUME TypeOK, Enter
    PROVE  /\ disturbed' \in BOOLEAN
           /\ disturbed => disturbed'
           /\ ~disturbed' => ~disturbed /\ \A u \in Threads : pc[u] = "idle"
BY Zenon DEF TypeOK, Enter

\* Garbage for which an entry is found has the name of a block in use, unless calls
\* overlapped before.
LEMMA FreeGarbageInv ==
    ASSUME NvInv, Garbage \subseteq Nat, NEW t \in Threads, NEW g \in wild, FreeGarbage(t, g)
    PROVE  NvInv'
<1>1. LedgerInv /\ TypeOK /\ g \in Nat
  BY DEF NvInv, LedgerInv, Inv
<1>2. /\ KeyOf(g) \in Keys /\ global_allocations[KeyOf(g)] # None
      /\ trespass' = g /\ Enter
      /\ UNCHANGED <<heap, global_allocations, live, failures, pc, ptr, size, view, wild>>
  BY DEF FreeGarbage, Lookup
<1>3. LedgerInv'
  BY <1>1, <1>2, EnterType, LookupInv
<1>4. ASSUME ~disturbed'
      PROVE  \E p \in Known' : SharesName(trespass', p)
  <2>1. ~disturbed
    BY <1>1, <1>2, <1>4, EnterType
  <2>2. PICK p \in Addresses : KeyOf(g) = KeyOf(p)
    BY <1>2 DEF Keys
  <2>3. p \in Known
    BY <1>1, <1>2, <2>1, <2>2 DEF LedgerInv, Ledger, NoStaleEntry
  <2>4. SharesName(g, p)
    BY <1>1, <2>2, SameKey
  <2>5. Known' = Known
    BY <1>2 DEF Known, Freeing, Removing
  <2>6. QED
    BY <1>2, <2>3, <2>4, <2>5 DEF SharesName
<1>5. QED
  BY <1>2, <1>3, <1>4 DEF NvInv, TrespassHitsBlock

\* Every step of RM and of NVLink's clients keeps the invariant.
LEMMA NvNextInv ==
    ASSUME Garbage \subseteq Nat, NvInv, [NvNext]_nvlinkVars
    PROVE  NvInv'
<1>1. LedgerInv /\ TypeOK /\ wild \subseteq Garbage
  BY DEF NvInv, LedgerInv, Inv
<1>2. CASE UNCHANGED nvlinkVars
  <2>1. UNCHANGED vars /\ wild' = wild /\ trespass' = trespass /\ (disturbed' <=> disturbed)
    BY <1>2 DEF nvlinkVars, vars
  <2>2. LedgerInv'
    BY <1>1, <2>1, NextLedger
  <2>3. Known' = Known
    BY <2>1 DEF vars, Known, Freeing, Removing
  <2>4. QED
    BY <2>1, <2>2, <2>3 DEF NvInv, TrespassHitsBlock, SharesName
<1>3. ASSUME trespass = None, Next, UNCHANGED <<wild, trespass>> PROVE NvInv'
  BY <1>1, <1>3, NextLedger DEF NvInv, TrespassHitsBlock
<1>4. ASSUME trespass = None, NEW g \in Garbage, MallocFails(g) PROVE NvInv'
  BY <1>1, <1>4, NextLedger DEF MallocFails, NvInv, TrespassHitsBlock
<1>5. ASSUME trespass = None, NEW t \in Threads, NEW g \in wild, RejectWild(t, g) PROVE NvInv'
  <2>1. LedgerInv'
    BY <1>1, <1>5, EnterType, LookupInv DEF RejectWild
  <2>2. QED
    BY <2>1, <1>1, <1>5 DEF RejectWild, NvInv, TrespassHitsBlock
<1>6. QED
  BY <1>2, <1>3, <1>4, <1>5, FreeGarbageInv DEF NvNext, FreeWild

\* Until calls overlap or setObject fails, os_free_mem calls IOFree on an uninitialized
\* pointer of nvlink_malloc only if it has the name of a block in use or being freed:
\* an address of its 16 bytes, or the kernel's address without its last digit
\* (nvlink.cpp:58, 63, libc.cpp:27-29, 53).
THEOREM NvSpecTrespassHitsBlock ==
    ASSUME Garbage \subseteq Nat PROVE NvSpec => []TrespassHitsBlock
<1>1. NvInit => NvInv
  BY NvInitInv
<1>2. NvInv /\ [NvNext]_nvlinkVars => NvInv'
  BY NvNextInv
<1>3. NvInv => TrespassHitsBlock
  BY DEF NvInv
<1>4. QED
  BY <1>1, <1>2, <1>3, PTL DEF NvSpec
=============================================================================
