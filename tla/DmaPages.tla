------------------------------ MODULE DmaPages ------------------------------
(***************************************************************************)
(* nv_alloc_pages, nv_free_pages and the mappings of what they allocate:   *)
(* memory that RM shares with the GPU, one allocation per client           *)
(* (Support/libnv-darwin/memory_driverkit.cpp:145-270 and                  *)
(* memory_kernel.cpp:106-271; the mask that nv_set_dma_address_size keeps, *)
(* memory.cpp:96-103).  An address is a buffer with an offset into it: in  *)
(* the dext that of the buffer in the process, in the kext the one that    *)
(* the IODMACommand gives the device.  Calls that return an error before   *)
(* they have allocated anything change nothing and are left out; so are    *)
(* calls that end in a panic or a fault, after which nothing runs.         *)
(***************************************************************************)
EXTENDS Library, Naturals, FiniteSets

CONSTANTS
    Allocators,     \* the clients in RM that have pages allocated
    Buffers,        \* what an IOBufferMemoryDescriptor can be
    NoBuffer,       \* not one of them
    PageCounts,     \* the numbers of pages they ask for
    PageSizes,      \* and the sizes of these pages
    OsPageSize,     \* os_page_size, in which the mappings count
    GiB,            \* a gibibyte
    DmaWidths       \* the numbers of address bits that RM may report

ASSUME DmaAssumption ==
    /\ NoBuffer \notin Buffers
    /\ PageCounts \subseteq Nat \ {0}
    /\ PageSizes \subseteq Nat \ {0} /\ {OsPageSize, GiB} \subseteq Nat \ {0}
    /\ DmaWidths \subseteq 31 .. 63

VARIABLES
    width,      \* bits of nvd_state->dma_mask; 0 before RM reported any
    refs,       \* refs[b]: references to b; 0: b does not exist
    prepared,   \* prepared[b]: prepare() calls less complete() calls
    buffer,     \* buffer[b]: [size, reach, limit, wired]: its size, the bits of its highest
                \* address, the width that RM had reported, and whether prepare() succeeded
    strays,     \* strays[b]: references left to b by commands that are gone
    alloc,      \* alloc[a]: [at, buffer, count, page, command] of client a
    entries,    \* entries[a]: the PTE array that a has been given
    view        \* view[a]: what a has mapped, in a set: the offset it asked for, the address

vars == <<library, width, refs, prepared, buffer, strays, alloc, entries, view>>

\* Memory of which nothing is known: an entry that was not written, or an
\* address made from something that is no address.
Unknown == <<NoBuffer, 0>>

NoAlloc == [at |-> "none", buffer |-> NoBuffer, count |-> 0, page |-> 1, command |-> FALSE]
AtStage(a, at) == alloc[a].at = at
Holds(a, b) == alloc[a].buffer = b

Init ==
    /\ library \in Libraries
    /\ width = 0
    /\ refs = [b \in Buffers |-> 0]
    /\ prepared = [b \in Buffers |-> 0]
    /\ buffer = [b \in Buffers |-> [size |-> 0, reach |-> 0, limit |-> 0, wired |-> FALSE]]
    /\ strays = [b \in Buffers |-> 0]
    /\ alloc = [a \in Allocators |-> NoAlloc]
    /\ entries = [a \in Allocators |-> <<>>]
    /\ view = [a \in Allocators |-> {}]

\* nv_set_dma_address_size
SetDmaAddressSize(bits) ==
    /\ width' = bits
    /\ UNCHANGED <<refs, prepared, buffer, strays, alloc, entries, view>>

-----------------------------------------------------------------------------
(* nv_alloc_pages *)

\* The size that the buffer gets.  From one gibibyte on, the dext computes it as
\* page_count * 2^30 in 32 bits; the kext passes the size of one page.
Mut_BufferSize(count, page) == page
BufferSize(count, page) ==
    IF library = "kext" THEN page
    ELSE IF count * page >= GiB THEN (count % 4) * GiB
    ELSE count * page

\* 1U << dma_mask, where dma_mask is a mask already: its low five bits, all that
\* the shift looks at, are ones, and the buffer lies below 2^31.  With no mask,
\* and in the dext, it can be anywhere.
Mut_Reaches == {31, 64}
Reaches == IF library = "kext" /\ width # 0 THEN {31} ELSE {31, 64}

\* The buffer is created; the kext prepares it as well, and does not look whether
\* that succeeded.
AllocBuffer(a, b, count, page) ==
    /\ AtStage(a, "none") /\ refs[b] = 0
    /\ BufferSize(count, page) > 0
    /\ refs' = [refs EXCEPT ![b] = 1]
    /\ \E reach \in Reaches, wired \in IF library = "kext" THEN BOOLEAN ELSE {FALSE} :
          /\ buffer' = [buffer EXCEPT ![b] = [size |-> BufferSize(count, page),
                           reach |-> reach, limit |-> width, wired |-> wired]]
          /\ prepared' = [prepared EXCEPT ![b] = IF wired THEN @ + 1 ELSE @]
    /\ alloc' = [alloc EXCEPT ![a] =
                   [at |-> IF library = "kext" THEN "command" ELSE "fill",
                    buffer |-> b, count |-> count, page |-> page, command |-> FALSE]]
    /\ UNCHANGED <<width, strays, entries, view>>

\* complete() of a buffer that is not wired does nothing.
Complete(b) == prepared' = [prepared EXCEPT ![b] = IF @ = 0 THEN 0 ELSE @ - 1]

\* The kext's IODMACommand retains the buffer that it is set to ...
MakeCommand(a) ==
    LET b == alloc[a].buffer IN
    /\ AtStage(a, "command")
    /\ alloc' = [alloc EXCEPT ![a].at = "segments", ![a].command = TRUE]
    /\ refs' = [refs EXCEPT ![b] = @ + 1]
    /\ UNCHANGED <<width, prepared, buffer, strays, entries, view>>

\* ... or there is none, and the buffer is given up.
Mut_MakeCommandFails(a) ==
    LET b == alloc[a].buffer IN
    /\ AtStage(a, "command")
    /\ refs' = [refs EXCEPT ![b] = @ - 1]
    /\ alloc' = [alloc EXCEPT ![a] = NoAlloc]
    /\ UNCHANGED <<width, prepared, buffer, strays, entries, view>>
MakeCommandFails(a) ==
    LET b == alloc[a].buffer IN
    /\ AtStage(a, "command")
    /\ Complete(b)
    /\ refs' = [refs EXCEPT ![b] = @ - 1]
    /\ alloc' = [alloc EXCEPT ![a] = NoAlloc]
    /\ UNCHANGED <<width, buffer, strays, entries, view>>

\* gen64IOVMSegments fails: the command is released without
\* clearMemoryDescriptor, and may leave its reference to the buffer behind.
SegmentsFail(a) ==
    LET b == alloc[a].buffer IN
    /\ AtStage(a, "segments")
    /\ Complete(b)
    /\ \E left \in {0, 1} :
          /\ refs' = [refs EXCEPT ![b] = @ - 2 + left]
          /\ strays' = [strays EXCEPT ![b] = @ + left]
    /\ alloc' = [alloc EXCEPT ![a] = NoAlloc]
    /\ UNCHANGED <<width, buffer, entries, view>>

\* It succeeds, and has written one segment past the end of an array that has no
\* element: what is read back for the first entry may be the segment or not.
\* The entries of other pages are not written.  That write, and the bzero of a
\* device's address in place of the kernel's, may fault: this is where they do not.
Segments(a) ==
    /\ AtStage(a, "segments")
    /\ \E first \in {<<alloc[a].buffer, 0>>, Unknown} :
          entries' = [entries EXCEPT ![a] =
                        [i \in 0 .. alloc[a].count - 1 |-> IF i = 0 THEN first ELSE Unknown]]
    /\ alloc' = [alloc EXCEPT ![a].at = "given"]
    /\ UNCHANGED <<width, refs, prepared, buffer, strays, view>>

\* The dext writes its own address of each page, or the first if they are
\* contiguous, of which RM derives the others.
Fill(a) ==
    /\ AtStage(a, "fill")
    /\ entries' = [entries EXCEPT ![a] =
                     [i \in 0 .. alloc[a].count - 1 |->
                        <<alloc[a].buffer, i * alloc[a].page>>]]
    /\ alloc' = [alloc EXCEPT ![a].at = "given"]
    /\ UNCHANGED <<width, refs, prepared, buffer, strays, view>>

-----------------------------------------------------------------------------
(* nv_free_pages, and the mappings *)

\* The dext releases the buffer.  The kext takes it off the command, completes
\* it, and releases both; it does not free their pairing.
Mut_FreePages(a) ==
    LET b == alloc[a].buffer IN
    /\ AtStage(a, "given") /\ view[a] = {}
    /\ refs' = [refs EXCEPT ![b] = @ - 1]
    /\ IF library = "kext" THEN Complete(b) ELSE UNCHANGED prepared
    /\ alloc' = [alloc EXCEPT ![a] = NoAlloc]
    /\ entries' = [entries EXCEPT ![a] = <<>>]
    /\ UNCHANGED <<width, buffer, strays, view>>
FreePages(a) ==
    LET b == alloc[a].buffer IN
    /\ AtStage(a, "given") /\ view[a] = {}
    /\ refs' = [refs EXCEPT ![b] = IF alloc[a].command THEN @ - 2 ELSE @ - 1]
    /\ IF library = "kext" THEN Complete(b) ELSE UNCHANGED prepared
    /\ alloc' = [alloc EXCEPT ![a] = NoAlloc]
    /\ entries' = [entries EXCEPT ![a] = <<>>]
    /\ UNCHANGED <<width, buffer, strays, view>>

\* nv_alloc_kernel_mapping and nv_alloc_user_mapping compute an address from that
\* of the buffer, an index and an offset; the kext takes the pairing for the buffer.
Mapped(a, index, offset) ==
    IF library = "dext" THEN <<alloc[a].buffer, index * OsPageSize + offset>> ELSE Unknown

\* RM counts in the pages of the system too, and stays within what it asked for.
MapPage(a, index, offset) ==
    LET place == index * OsPageSize + offset IN
    /\ AtStage(a, "given") /\ view[a] = {}
    /\ place < alloc[a].count * alloc[a].page
    /\ view' = [view EXCEPT ![a] = {<<place, Mapped(a, index, offset)>>}]
    /\ UNCHANGED <<width, refs, prepared, buffer, strays, alloc, entries>>

\* nv_free_kernel_mapping and nv_free_user_mapping do nothing; RM is done.
UnmapPage(a) ==
    /\ view[a] # {}
    /\ view' = [view EXCEPT ![a] = {}]
    /\ UNCHANGED <<width, refs, prepared, buffer, strays, alloc, entries>>

Step(a) ==
    \/ \E b \in Buffers, count \in PageCounts, page \in PageSizes : AllocBuffer(a, b, count, page)
    \/ MakeCommand(a) \/ MakeCommandFails(a)
    \/ Segments(a) \/ SegmentsFail(a) \/ Fill(a)
    \/ \E index \in 0 .. (alloc[a].count * alloc[a].page) \div OsPageSize :
          \E offset \in 0 .. OsPageSize - 1 : MapPage(a, index, offset)
    \/ UnmapPage(a) \/ FreePages(a)

Next ==
    /\ \/ \E bits \in DmaWidths : SetDmaAddressSize(bits)
       \/ \E a \in Allocators : Step(a)
    /\ UNCHANGED library

Spec == Init /\ [][Next]_vars

-----------------------------------------------------------------------------
(* Properties *)

Addresses == (Buffers \cup {NoBuffer}) \X Nat

TypeOK ==
    /\ width \in DmaWidths \cup {0}
    /\ refs \in [Buffers -> Nat]
    /\ prepared \in [Buffers -> 0 .. 1]
    /\ buffer \in [Buffers -> [size : Nat, reach : {0, 31, 64},
                              limit : DmaWidths \cup {0}, wired : BOOLEAN]]
    /\ strays \in [Buffers -> 0 .. 1]
    /\ alloc \in [Allocators ->
                    [at : {"none", "command", "segments", "fill", "given"},
                     buffer : Buffers \cup {NoBuffer}, count : PageCounts \cup {0},
                     page : PageSizes \cup {1}, command : BOOLEAN]]
    /\ \A a \in Allocators :
          /\ \A i \in DOMAIN entries[a] : entries[a][i] \in Addresses
          /\ \A v \in view[a] : v[1] \in Nat /\ v[2] \in Addresses

\* Every reference to a buffer is that of an allocation, of its command, or one
\* that an IODMACommand may have left behind when it was released with the
\* buffer still set (memory_kernel.cpp:188-193): the other failures of
\* nv_alloc_pages, and nv_free_pages, give up what they hold, once.
BuffersAccountedFor ==
    \A b \in Buffers :
       refs[b] = strays[b]
                 + Cardinality({a \in Allocators : Holds(a, b)})
                 + Cardinality({a \in Allocators : Holds(a, b) /\ alloc[a].command})

\* A buffer that could be wired is so exactly as long as an allocation of the kext
\* has it: prepare and complete are balanced on every path (memory_kernel.cpp:166,
\* 174, 189, 219).
WiredWhileAllocated ==
    \A b \in Buffers :
       prepared[b] = 1 <=>
          library = "kext" /\ buffer[b].wired /\ \E a \in Allocators : Holds(a, b)

\* The memory from an address on that lies in the buffer of a.
Within(a, address, length) ==
    /\ address[1] \in Buffers /\ Holds(a, address[1])
    /\ refs[address[1]] > 0
    /\ address[2] + length <= buffer[address[1]].size

\* Every entry of an allocation is the address of a page in its buffer.
EntriesBacked ==
    \A a \in Allocators : \A i \in DOMAIN entries[a] : Within(a, entries[a][i], alloc[a].page)

\* That holds in the dext for allocations below a gibibyte, of pages that are larger
\* or smaller than the system's; and what RM sees through a mapping is the memory
\* whose entry it has (memory_driverkit.cpp:172-207, 229-236, 252-260).  These are
\* addresses in the dext's process: lines 198-199 doubt that they are what a page
\* table of the GPU should hold, and nothing here says that the GPU reaches them.
SmallAllocationsFit ==
    library = "dext" =>
       \A a \in Allocators :
          alloc[a].count * alloc[a].page < GiB =>
             /\ \A i \in DOMAIN entries[a] : Within(a, entries[a][i], alloc[a].page)
             /\ \A v \in view[a] :
                   LET entry == entries[a][v[1] \div alloc[a].page] IN
                   v[2] = <<entry[1], entry[2] + (v[1] % alloc[a].page)>>

\* A buffer allocated after RM reported the GPU's address width lies where the
\* GPU can reach it, although memory_kernel.cpp:158 shifts by a mask where it
\* should use it.  (The dext does not use it at all.  The addresses that the
\* IODMACommand gives the device, of 64 bits, are another matter.)
WithinReach ==
    library = "kext" =>
       \A b \in Buffers :
          refs[b] > 0 /\ buffer[b].limit # 0 => buffer[b].reach <= buffer[b].limit
=============================================================================
