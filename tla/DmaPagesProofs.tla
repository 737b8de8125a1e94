--------------------------- MODULE DmaPagesProofs ---------------------------
(***************************************************************************)
(* Proofs about DmaPages, for every set of clients, buffers, sizes and     *)
(* address widths.                                                         *)
(*                                                                         *)
(* The properties count references; what makes the counts right is that a  *)
(* buffer is never shared: a buffer with references is either held by one  *)
(* allocation, or has been left behind for good by a command that is gone. *)
(***************************************************************************)
EXTENDS DmaPages, FiniteSetTheorems, TLAPS

Held(b) == \E a \in Allocators : Holds(a, b)

\* What an allocation holds at each of its steps.
Stage(a) ==
    /\ AtStage(a, "none") => alloc[a] = NoAlloc
    /\ ~AtStage(a, "none") => /\ alloc[a].buffer \in Buffers
                              /\ alloc[a].count \in PageCounts /\ alloc[a].page \in PageSizes
    /\ library = "dext" => alloc[a].at \in {"none", "fill", "given"} /\ ~alloc[a].command
    /\ library = "kext" =>
          /\ alloc[a].at # "fill"
          /\ alloc[a].command <=> alloc[a].at \in {"segments", "given"}
    /\ ~AtStage(a, "given") => entries[a] = <<>> /\ view[a] = {}

Stages ==
    /\ library \in Libraries
    /\ entries = [a \in Allocators |-> entries[a]]
    /\ view = [a \in Allocators |-> view[a]]
    /\ \A a \in Allocators : Stage(a)

\* Who refers to a buffer.
Ledger ==
    /\ \A a, c \in Allocators : \A b \in Buffers : Holds(a, b) /\ Holds(c, b) => a = c
    /\ \A b \in Buffers : ~Held(b) => refs[b] = strays[b] /\ prepared[b] = 0
    /\ \A a \in Allocators : \A b \in Buffers : Holds(a, b) =>
          /\ strays[b] = 0
          /\ refs[b] = IF alloc[a].command THEN 2 ELSE 1
          /\ prepared[b] = IF library = "kext" /\ buffer[b].wired THEN 1 ELSE 0

\* The dext's addresses of the pages of an allocation.
Table(given) == [i \in 0 .. given.count - 1 |-> <<given.buffer, i * given.page>>]

\* What the dext has written for an allocation, and shows through its mappings.
Filled ==
    library = "dext" =>
       \A a \in Allocators :
          /\ alloc[a].buffer \in Buffers =>
                buffer[alloc[a].buffer].size = BufferSize(alloc[a].count, alloc[a].page)
          /\ AtStage(a, "given") =>
                /\ entries[a] = Table(alloc[a])
                /\ \A v \in view[a] : /\ v[1] \in Nat /\ v[1] < alloc[a].count * alloc[a].page
                                       /\ v[2] = <<alloc[a].buffer, v[1]>>

IInv == TypeOK /\ Stages /\ Ledger /\ Filled /\ WithinReach

-----------------------------------------------------------------------------
(* The initial states *)

\* No buffer has a reference at first, and no client an allocation.
LEMMA InitInv == Init => IInv
<1> SUFFICES ASSUME Init PROVE IInv
  OBVIOUS
<1> USE DmaAssumption
<1>1. TypeOK
  BY DEF Init, TypeOK, NoAlloc
<1>2. Stages
  BY DEF Init, Stages, Stage, NoAlloc, AtStage, Libraries
<1>3. Ledger
  BY DEF Init, Ledger, Held, Holds, NoAlloc
<1>4. Filled
  BY DEF Init, Filled, NoAlloc, AtStage
<1>5. WithinReach
  BY DEF Init, WithinReach
<1>6. QED
  BY <1>1, <1>2, <1>3, <1>4, <1>5 DEF IInv

-----------------------------------------------------------------------------
(* Types that the steps share *)

\* What TypeOK says of an allocation.
Allocation ==
    [at : {"none", "command", "segments", "fill", "given"},
     buffer : Buffers \cup {NoBuffer}, count : PageCounts \cup {0},
     page : PageSizes \cup {1}, command : BOOLEAN]

\* The part of TypeOK about allocations, as a function set.
LEMMA AllocType == TypeOK => alloc \in [Allocators -> Allocation]
BY DEF TypeOK, Allocation

\* An allocation that makes a command, and one that is given to RM.
LEMMA MoveType ==
    ASSUME NEW f \in [Allocators -> Allocation], NEW a \in Allocators
    PROVE  /\ [f EXCEPT ![a].at = "segments", ![a].command = TRUE] \in [Allocators -> Allocation]
           /\ [f EXCEPT ![a].at = "given"] \in [Allocators -> Allocation]
<1>1. /\ [f[a] EXCEPT !.at = "segments", !.command = TRUE] \in Allocation
      /\ [f[a] EXCEPT !.at = "given"] \in Allocation
  BY DEF Allocation
<1>2. \A r \in Allocation : [f EXCEPT ![a] = r] \in [Allocators -> Allocation]
  OBVIOUS
<1>3. /\ [f EXCEPT ![a].at = "segments", ![a].command = TRUE]
           = [f EXCEPT ![a] = [f[a] EXCEPT !.at = "segments", !.command = TRUE]]
      /\ [f EXCEPT ![a].at = "given"] = [f EXCEPT ![a] = [f[a] EXCEPT !.at = "given"]]
  OBVIOUS
<1>4. QED
  BY <1>1, <1>2, <1>3

\* Whatever is asked for, the size of the buffer is a number.
LEMMA BufferSizeType ==
    \A count \in PageCounts, page \in PageSizes : BufferSize(count, page) \in Nat
<1> SUFFICES ASSUME NEW count \in PageCounts, NEW page \in PageSizes
             PROVE  BufferSize(count, page) \in Nat
  OBVIOUS
<1>1. count * page \in Nat /\ (count % 4) * GiB \in Nat /\ page \in Nat
  BY DmaAssumption
<1>2. QED
  BY <1>1 DEF BufferSize

-----------------------------------------------------------------------------
(* The steps *)

\* nv_set_dma_address_size: earlier buffers keep the limit that they were made with.
LEMMA SetDmaAddressSizeInv ==
    ASSUME IInv, NEW bits \in DmaWidths, SetDmaAddressSize(bits), UNCHANGED library
    PROVE  IInv'
<1> USE DEF IInv, SetDmaAddressSize
<1>1. TypeOK'
  BY DEF TypeOK
<1>2. Stages'
  BY DEF Stages, Stage, AtStage
<1>3. Ledger'
  BY DEF Ledger, Held, Holds
<1>4. Filled'
  BY DEF Filled, AtStage, BufferSize
<1>5. WithinReach'
  BY DEF WithinReach
<1>6. QED
  BY <1>1, <1>2, <1>3, <1>4, <1>5

\* A fresh buffer has its client's reference only; the kext may have wired it.
LEMMA AllocBufferInv ==
    ASSUME IInv, NEW a \in Allocators, NEW b \in Buffers, NEW count \in PageCounts,
           NEW page \in PageSizes, AllocBuffer(a, b, count, page), UNCHANGED library
    PROVE  IInv'
<1> USE DmaAssumption DEF IInv, AllocBuffer
<1>1. PICK reach \in Reaches, wired \in IF library = "kext" THEN BOOLEAN ELSE {FALSE} :
         /\ buffer' = [buffer EXCEPT ![b] = [size |-> BufferSize(count, page),
                          reach |-> reach, limit |-> width, wired |-> wired]]
         /\ prepared' = [prepared EXCEPT ![b] = IF wired THEN @ + 1 ELSE @]
  OBVIOUS
<1>2. ~Held(b) /\ strays[b] = 0 /\ prepared[b] = 0
  <2>1. \A c \in Allocators : ~Holds(c, b)
    BY DEF Ledger
  <2>2. QED
    BY <2>1 DEF Ledger, Held
<1>3. wired \in BOOLEAN /\ (library = "dext" => wired = FALSE)
  BY <1>1
<1>4. prepared' = [prepared EXCEPT ![b] = IF wired THEN 1 ELSE 0]
  <2>1. (IF wired THEN prepared[b] + 1 ELSE prepared[b]) = IF wired THEN 1 ELSE 0
    BY <1>2
  <2>2. QED
    BY <1>1, <2>1
<1>5. TypeOK'
  <2>1. buffer' \in [Buffers -> [size : Nat, reach : {0, 31, 64},
                                limit : DmaWidths \cup {0}, wired : BOOLEAN]]
    BY <1>1, <1>3, BufferSizeType DEF TypeOK, Reaches
  <2>2. prepared' \in [Buffers -> 0 .. 1]
    BY <1>4 DEF TypeOK
  <2>3. QED
    BY <2>1, <2>2 DEF TypeOK
<1>6. Stages'
  BY DEF TypeOK, Stages, Stage, AtStage, Libraries
<1>7. Ledger'
  <2>1. /\ alloc'[a].buffer = b /\ alloc'[a].command = FALSE
        /\ \A c \in Allocators : c # a => alloc'[c] = alloc[c]
        /\ ~ \E d \in Buffers : Holds(a, d)
    BY DEF TypeOK, Holds, Stages, Stage, AtStage, NoAlloc
  <2>2. \A c \in Allocators : \A d \in Buffers :
           Holds(c, d)' <=> IF c = a THEN d = b ELSE Holds(c, d)
    BY <2>1 DEF Holds
  <2>3. \A c \in Allocators : ~Holds(c, b)
    BY <1>2 DEF Held
  <2>4. \A d \in Buffers : d # b => (Held(d)' <=> Held(d))
    BY <2>1, <2>2 DEF Held
  <2>5. /\ refs'[b] = 1 /\ strays'[b] = 0
        /\ prepared'[b] = IF wired THEN 1 ELSE 0
        /\ buffer'[b].wired = wired
        /\ \A d \in Buffers : d # b => /\ refs'[d] = refs[d] /\ prepared'[d] = prepared[d]
                                       /\ buffer'[d] = buffer[d] /\ strays'[d] = strays[d]
    BY <1>1, <1>2, <1>4 DEF TypeOK
  <2>6. \A d \in Buffers : ~Held(d)' => refs'[d] = strays'[d] /\ prepared'[d] = 0
    BY <2>2, <2>4, <2>5 DEF Ledger, Held
  <2>7. \A c, e \in Allocators : \A d \in Buffers : Holds(c, d)' /\ Holds(e, d)' => c = e
    BY <2>2, <2>3 DEF Ledger
  <2>8. ASSUME NEW c \in Allocators, NEW d \in Buffers, Holds(c, d)'
        PROVE  /\ strays'[d] = 0
               /\ refs'[d] = IF alloc'[c].command THEN 2 ELSE 1
               /\ prepared'[d] = IF library' = "kext" /\ buffer'[d].wired THEN 1 ELSE 0
    <3>1. CASE c = a
      BY <1>3, <2>1, <2>2, <2>5, <2>8, <3>1 DEF Stages, Libraries
    <3>2. CASE c # a
      BY <2>1, <2>2, <2>3, <2>5, <2>8, <3>2 DEF Ledger
    <3>3. QED
      BY <3>1, <3>2
  <2>9. QED
    BY <2>6, <2>7, <2>8 DEF Ledger
<1>8. Filled'
  <2>1. /\ alloc'[a].buffer = b /\ alloc'[a].count = count /\ alloc'[a].page = page
        /\ alloc'[a].at # "given"
        /\ \A c \in Allocators : c # a => alloc'[c] = alloc[c] /\ alloc[c].buffer # b
    BY <1>2 DEF TypeOK, Held, Holds
  <2>2. buffer'[b].size = BufferSize(count, page) /\ \A d \in Buffers \ {b} : buffer'[d] = buffer[d]
    BY <1>1 DEF TypeOK
  <2>3. QED
    BY <2>1, <2>2 DEF Filled, AtStage, BufferSize
<1>9. WithinReach'
  BY <1>1 DEF TypeOK, WithinReach, Reaches
<1>10. QED
  BY <1>5, <1>6, <1>7, <1>8, <1>9

\* The kext's command takes a second reference on its client's own buffer.
LEMMA MakeCommandInv ==
    ASSUME IInv, NEW a \in Allocators, MakeCommand(a), UNCHANGED library
    PROVE  IInv'
<1> USE DmaAssumption DEF IInv, MakeCommand
<1>1. library = "kext" /\ alloc[a].buffer \in Buffers
  BY DEF Stages, Stage, AtStage, Libraries
<1>2. TypeOK'
  <2>1. refs' \in [Buffers -> Nat]
    BY <1>1 DEF TypeOK
  <2>2. alloc' \in [Allocators -> Allocation]
    BY AllocType, MoveType
  <2>3. QED
    BY <2>1, <2>2 DEF TypeOK, Allocation
<1>3. Stages'
  BY <1>1 DEF TypeOK, Stages, Stage, AtStage
<1>4. Ledger'
  <2> DEFINE held == alloc[a].buffer
  <2>1. alloc[a].command = FALSE /\ refs[held] = 1
    BY <1>1 DEF TypeOK, Ledger, Holds, Stages, Stage, AtStage
  <2>2. \A c \in Allocators : alloc'[c].buffer = alloc[c].buffer
    BY DEF TypeOK
  <2>3. \A c \in Allocators : c # a => alloc'[c] = alloc[c]
    BY DEF TypeOK
  <2>4. alloc'[a].command = TRUE
    BY DEF TypeOK
  <2>5. refs' = [refs EXCEPT ![held] = 2]
    BY <2>1
  <2>6. QED
    BY <1>1, <2>2, <2>3, <2>4, <2>5 DEF TypeOK, Ledger, Held, Holds
<1>5. Filled'
  BY <1>1 DEF Filled
<1>6. WithinReach'
  BY <1>1 DEF TypeOK, WithinReach, Ledger, Holds
<1>7. QED
  BY <1>2, <1>3, <1>4, <1>5, <1>6

\* An allocation ends: its references are given up but for one, perhaps, that its
\* command leaves behind.
LEMMA GivenUpInv ==
    ASSUME IInv, NEW a \in Allocators, NEW b \in Buffers, NEW left \in {0, 1},
           Holds(a, b), view[a] = {},
           alloc' = [alloc EXCEPT ![a] = NoAlloc],
           refs' = [refs EXCEPT ![b] = left],
           strays' = [strays EXCEPT ![b] = left],
           prepared' = [prepared EXCEPT ![b] = 0],
           entries' = [entries EXCEPT ![a] = <<>>],
           UNCHANGED <<library, width, buffer, view>>
    PROVE  IInv'
<1> USE DmaAssumption DEF IInv
<1>1. alloc'[a] = NoAlloc /\ \A c \in Allocators : c # a => alloc'[c] = alloc[c]
  BY DEF TypeOK
<1>2. \A c \in Allocators : entries'[c] = IF c = a THEN <<>> ELSE entries[c]
  BY DEF Stages
<1>3. TypeOK'
  <2>1. NoAlloc \in Allocation
    BY DEF NoAlloc, Allocation
  <2>2. alloc' \in [Allocators -> Allocation]
    BY <2>1, AllocType
  <2>3. refs' \in [Buffers -> Nat] /\ strays' \in [Buffers -> 0 .. 1]
        /\ prepared' \in [Buffers -> 0 .. 1]
    BY DEF TypeOK
  <2>4. \A c \in Allocators :
          /\ \A i \in DOMAIN entries'[c] : entries'[c][i] \in Addresses
          /\ \A v \in view'[c] : v[1] \in Nat /\ v[2] \in Addresses
    BY <1>2 DEF TypeOK
  <2>5. QED
    BY <2>2, <2>3, <2>4 DEF TypeOK, Allocation
<1>4. Stages'
  <2>1. Stage(a)'
    BY <1>1, <1>2 DEF Stage, AtStage, NoAlloc
  <2>2. ASSUME NEW c \in Allocators, c # a PROVE Stage(c)'
    BY <1>1, <1>2, <2>2 DEF Stages, Stage, AtStage
  <2>3. QED
    BY <2>1, <2>2 DEF Stages
<1>5. Ledger'
  <2>1. \A c \in Allocators : \A d \in Buffers :
          Holds(c, d)' <=> c # a /\ Holds(c, d)
    BY <1>1 DEF Holds, NoAlloc
  <2>2. ~Held(b)'
    BY <2>1 DEF Ledger, Held
  <2>3. \A d \in Buffers : d # b => (Held(d)' <=> Held(d))
    BY <2>1 DEF Ledger, Held, Holds
  <2>4. \A c \in Allocators : \A d \in Buffers : Holds(c, d)' => d # b /\ alloc'[c] = alloc[c]
    BY <1>1, <2>1 DEF Ledger
  <2>5. QED
    BY <2>1, <2>2, <2>3, <2>4 DEF TypeOK, Ledger
<1>6. Filled'
  BY <1>1, <1>2 DEF Filled, AtStage, NoAlloc, BufferSize
<1>7. WithinReach'
  BY DEF TypeOK, WithinReach, Ledger, Held
<1>8. QED
  BY <1>3, <1>4, <1>5, <1>6, <1>7

\* After complete() a buffer is not wired.
LEMMA CompleteUnwires ==
    ASSUME TypeOK, NEW b \in Buffers, Complete(b)
    PROVE  prepared' = [prepared EXCEPT ![b] = 0]
<1>1. prepared[b] \in 0 .. 1
  BY DEF TypeOK
<1>2. (IF prepared[b] = 0 THEN 0 ELSE prepared[b] - 1) = 0
  BY <1>1
<1>3. QED
  BY <1>2 DEF Complete

\* Without a command the buffer is unwired and given up.
LEMMA MakeCommandFailsInv ==
    ASSUME IInv, NEW a \in Allocators, MakeCommandFails(a), UNCHANGED library
    PROVE  IInv'
<1> DEFINE b == alloc[a].buffer
<1> USE DEF IInv, MakeCommandFails
<1>1. b \in Buffers /\ library = "kext" /\ alloc[a].command = FALSE
  BY DEF TypeOK, Stages, Stage, AtStage, Libraries
<1>2. refs[b] = 1 /\ strays[b] = 0 /\ prepared[b] \in {0, 1}
  BY <1>1 DEF Ledger, Holds
<1>3. entries' = [entries EXCEPT ![a] = <<>>] /\ view[a] = {}
  BY DEF Stages, Stage, AtStage
<1>4. refs' = [refs EXCEPT ![b] = 0] /\ strays' = [strays EXCEPT ![b] = 0]
      /\ prepared' = [prepared EXCEPT ![b] = 0]
  <2>1. prepared' = [prepared EXCEPT ![b] = 0]
    BY <1>1, <1>2, CompleteUnwires
  <2>2. QED
    BY <1>2, <2>1 DEF TypeOK
<1>5. Holds(a, b)
  BY DEF Holds
<1>6. QED
  BY <1>1, <1>3, <1>4, <1>5, GivenUpInv

\* A command that fails is given up; its reference may stay behind.
LEMMA SegmentsFailInv ==
    ASSUME IInv, NEW a \in Allocators, SegmentsFail(a), UNCHANGED library
    PROVE  IInv'
<1> DEFINE b == alloc[a].buffer
<1> USE DEF IInv, SegmentsFail
<1>1. PICK left \in {0, 1} :
         refs' = [refs EXCEPT ![b] = @ - 2 + left] /\ strays' = [strays EXCEPT ![b] = @ + left]
  OBVIOUS
<1>2. b \in Buffers /\ library = "kext" /\ alloc[a].command = TRUE
  BY DEF TypeOK, Stages, Stage, AtStage, Libraries
<1>3. refs[b] = 2 /\ strays[b] = 0 /\ prepared[b] \in {0, 1}
  BY <1>2 DEF Ledger, Holds
<1>4. entries' = [entries EXCEPT ![a] = <<>>] /\ view[a] = {}
  BY DEF Stages, Stage, AtStage
<1>5. refs' = [refs EXCEPT ![b] = left] /\ strays' = [strays EXCEPT ![b] = left]
      /\ prepared' = [prepared EXCEPT ![b] = 0]
  <2>1. 2 - 2 + left = left /\ 0 + left = left
    OBVIOUS
  <2>2. refs' = [refs EXCEPT ![b] = left]
    BY <1>1, <1>3, <2>1
  <2>3. strays' = [strays EXCEPT ![b] = left]
    BY <1>1, <1>3, <2>1
  <2>4. prepared' = [prepared EXCEPT ![b] = 0]
    BY <1>2, <1>3, CompleteUnwires
  <2>5. QED
    BY <2>2, <2>3, <2>4
<1>6. Holds(a, b)
  BY DEF Holds
<1>7. QED
  BY <1>2, <1>4, <1>5, <1>6, GivenUpInv

\* nv_free_pages gives up what the allocation holds; a command's reference may
\* stay behind.
LEMMA FreePagesInv ==
    ASSUME IInv, NEW a \in Allocators, FreePages(a), UNCHANGED library
    PROVE  IInv'
<1> DEFINE b == alloc[a].buffer
<1> USE DEF IInv, FreePages
<1>1. b \in Buffers /\ alloc[a].command = (library = "kext")
  BY DEF TypeOK, Stages, Stage, AtStage, Libraries
<1>2. refs[b] = (IF alloc[a].command THEN 2 ELSE 1) /\ strays[b] = 0
      /\ prepared[b] \in {0, 1} /\ (library # "kext" => prepared[b] = 0)
  BY <1>1 DEF Ledger, Holds
<1>3. refs' = [refs EXCEPT ![b] = 0] /\ strays' = [strays EXCEPT ![b] = 0]
      /\ prepared' = [prepared EXCEPT ![b] = 0]
  <2>1. refs' = [refs EXCEPT ![b] = 0]
    <3>1. (IF alloc[a].command THEN refs[b] - 2 ELSE refs[b] - 1) = 0
      BY <1>2
    <3>2. QED
      BY <3>1
  <2>2. strays' = [strays EXCEPT ![b] = 0]
    BY <1>2 DEF TypeOK
  <2>3. prepared' = [prepared EXCEPT ![b] = 0]
    <3>1. CASE library = "kext"
      BY <1>1, <1>2, <3>1, CompleteUnwires
    <3>2. CASE library # "kext"
      BY <1>2, <3>2 DEF TypeOK
    <3>3. QED
      BY <3>1, <3>2
  <2>4. QED
    BY <2>1, <2>2, <2>3
<1>4. Holds(a, b)
  BY DEF Holds
<1>5. QED
  BY <1>1, <1>3, <1>4, GivenUpInv

\* What Segments and Fill have in common: RM is given the allocation, and entries
\* that are pages.
LEMMA GivenInv ==
    ASSUME IInv, NEW a \in Allocators, alloc[a].at \in {"segments", "fill"},
           alloc' = [alloc EXCEPT ![a].at = "given"],
           NEW ptes, entries' = [entries EXCEPT ![a] = ptes],
           \A i \in DOMAIN ptes : ptes[i] \in Addresses,
           library = "dext" => ptes = Table(alloc[a]),
           UNCHANGED <<library, width, refs, prepared, buffer, strays, view>>
    PROVE  IInv'
<1> USE DmaAssumption DEF IInv
<1>1. /\ \A c \in Allocators : c # a => alloc'[c] = alloc[c]
      /\ \A c \in Allocators : /\ alloc'[c].buffer = alloc[c].buffer
                               /\ alloc'[c].count = alloc[c].count
                               /\ alloc'[c].page = alloc[c].page
                               /\ alloc'[c].command = alloc[c].command
      /\ alloc'[a].at = "given"
  BY DEF TypeOK
<1>2. \A c \in Allocators : entries'[c] = IF c = a THEN ptes ELSE entries[c]
  BY DEF Stages
<1>3. TypeOK'
  <2>1. alloc' \in [Allocators -> Allocation]
    BY AllocType, MoveType
  <2>2. QED
    BY <1>2, <2>1 DEF TypeOK, Allocation
<1>4. Stages'
  <2>1. Stage(a)'
    BY <1>1 DEF Stages, Stage, AtStage
  <2>2. ASSUME NEW c \in Allocators, c # a PROVE Stage(c)'
    BY <1>1, <1>2, <2>2 DEF Stages, Stage, AtStage
  <2>3. QED
    BY <2>1, <2>2 DEF Stages
<1>5. Ledger'
  <2>1. \A c \in Allocators : \A d \in Buffers : Holds(c, d)' <=> Holds(c, d)
    BY <1>1 DEF Holds
  <2>2. \A d \in Buffers : Held(d)' <=> Held(d)
    BY <2>1 DEF Held
  <2>3. QED
    BY <1>1, <2>1, <2>2 DEF Ledger
<1>6. Filled'
  <2>1. view[a] = {}
    BY DEF Stages, Stage, AtStage
  <2>2. SUFFICES ASSUME library = "dext", NEW c \in Allocators
                 PROVE  /\ alloc'[c].buffer \in Buffers =>
                              buffer[alloc'[c].buffer].size
                                 = BufferSize(alloc'[c].count, alloc'[c].page)
                        /\ alloc'[c].at = "given" =>
                              /\ entries'[c] = Table(alloc'[c])
                              /\ \A v \in view[c] :
                                    /\ v[1] \in Nat
                                    /\ v[1] < alloc'[c].count * alloc'[c].page
                                    /\ v[2] = <<alloc'[c].buffer, v[1]>>
    BY DEF Table, Filled, AtStage, BufferSize
  <2>3. CASE c = a
    <3>1. alloc[a].buffer \in Buffers =>
             buffer[alloc[a].buffer].size = BufferSize(alloc[a].count, alloc[a].page)
      BY <2>2 DEF Filled
    <3>2. view[c] = {} /\ entries'[c] = ptes
      BY <1>2, <2>1, <2>3
    <3>3. /\ alloc'[c].buffer = alloc[a].buffer /\ alloc'[c].count = alloc[a].count
          /\ alloc'[c].page = alloc[a].page
      BY <1>1, <2>3
    <3>4. ptes = Table(alloc'[c])
      BY <2>2, <3>3 DEF Table
    <3>5. QED
      BY <3>1, <3>2, <3>3, <3>4
  <2>4. CASE c # a
    BY <1>1, <1>2, <2>2, <2>4 DEF Filled, AtStage
  <2>5. QED
    BY <2>3, <2>4
<1>7. WithinReach'
  BY DEF WithinReach
<1>8. QED
  BY <1>3, <1>4, <1>5, <1>6, <1>7

\* The kext's allocation is complete, with what the command said of its segments.
LEMMA SegmentsInv ==
    ASSUME IInv, NEW a \in Allocators, Segments(a), UNCHANGED library
    PROVE  IInv'
<1> USE DEF IInv, Segments
<1>1. PICK first \in {<<alloc[a].buffer, 0>>, Unknown} :
         entries' = [entries EXCEPT ![a] =
                       [i \in 0 .. alloc[a].count - 1 |-> IF i = 0 THEN first ELSE Unknown]]
  OBVIOUS
<1> DEFINE ptes == [i \in 0 .. alloc[a].count - 1 |-> IF i = 0 THEN first ELSE Unknown]
<1>2. library # "dext" /\ alloc[a].buffer \in Buffers
  BY DEF Stages, Stage, AtStage
<1>3. first \in Addresses /\ Unknown \in Addresses
  BY <1>2 DEF Addresses, Unknown
<1>4. alloc[a].at = "segments"
  BY DEF AtStage
<1>5. \A i \in DOMAIN ptes : ptes[i] \in Addresses
  BY <1>3
<1>6. entries' = [entries EXCEPT ![a] = ptes]
  BY <1>1
<1> HIDE DEF ptes
<1>7. QED
  BY <1>2, <1>4, <1>5, <1>6, GivenInv

\* The dext's allocation is complete, with one entry for each page of the request.
LEMMA FillInv ==
    ASSUME IInv, NEW a \in Allocators, Fill(a), UNCHANGED library
    PROVE  IInv'
<1> DEFINE ptes == Table(alloc[a])
<1> USE DEF IInv, Fill
<1>1. /\ alloc[a].buffer \in Buffers /\ alloc[a].count \in Nat /\ alloc[a].page \in Nat
      /\ alloc[a].at = "fill"
  BY DmaAssumption DEF Stages, Stage, AtStage
<1>2. \A i \in DOMAIN ptes : ptes[i] \in Addresses
  <2>1. \A i \in 0 .. alloc[a].count - 1 : i * alloc[a].page \in Nat
    BY <1>1
  <2>2. QED
    BY <1>1, <2>1 DEF Addresses, Table
<1>3. entries' = [entries EXCEPT ![a] = ptes]
  BY DEF Table
<1>4. QED
  BY <1>1, <1>2, <1>3, GivenInv

\* A kernel or user mapping shows a place in the allocation.
LEMMA MapPageInv ==
    ASSUME IInv, NEW a \in Allocators, NEW index \in Nat, NEW offset \in Nat,
           MapPage(a, index, offset), UNCHANGED library
    PROVE  IInv'
<1> DEFINE place == index * OsPageSize + offset
<1> USE DmaAssumption DEF IInv, MapPage
<1>1. alloc[a].buffer \in Buffers /\ place \in Nat /\ place < alloc[a].count * alloc[a].page
  BY DEF Stages, Stage, AtStage
<1>2. \A c \in Allocators :
        view'[c] = IF c = a THEN {<<place, Mapped(a, index, offset)>>} ELSE view[c]
  BY DEF Stages
<1>3. Mapped(a, index, offset) \in Addresses
  BY <1>1 DEF Mapped, Addresses, Unknown
<1>4. TypeOK'
  BY <1>1, <1>2, <1>3 DEF TypeOK
<1>5. Stages'
  <2>1. \A c \in Allocators : Stage(c)'
    BY <1>2 DEF Stages, Stage, AtStage
  <2>2. QED
    BY <2>1 DEF Stages
<1>6. Ledger'
  BY DEF Ledger, Held, Holds
<1>7. Filled'
  <2>1. SUFFICES ASSUME library = "dext", NEW c \in Allocators, AtStage(c, "given"),
                        NEW v \in view'[c]
                 PROVE  /\ v[1] \in Nat /\ v[1] < alloc[c].count * alloc[c].page
                        /\ v[2] = <<alloc[c].buffer, v[1]>>
    BY DEF Filled, AtStage, BufferSize
  <2>2. CASE c = a
    <3>1. v = <<place, <<alloc[a].buffer, place>>>>
      BY <1>2, <2>1, <2>2 DEF Mapped
    <3>2. QED
      BY <1>1, <2>2, <3>1
  <2>3. CASE c # a
    <3>1. v \in view[c]
      BY <1>2, <2>1, <2>3
    <3>2. QED
      BY <2>1, <3>1 DEF Filled
  <2>4. QED
    BY <2>2, <2>3
<1>8. WithinReach'
  BY DEF WithinReach
<1>9. QED
  BY <1>4, <1>5, <1>6, <1>7, <1>8

\* A mapping that goes leaves the allocation as it is.
LEMMA UnmapPageInv ==
    ASSUME IInv, NEW a \in Allocators, UnmapPage(a), UNCHANGED library
    PROVE  IInv'
<1> USE DEF IInv, UnmapPage
<1>1. \A c \in Allocators : view'[c] = IF c = a THEN {} ELSE view[c]
  BY DEF Stages
<1>2. TypeOK'
  BY <1>1 DEF TypeOK
<1>3. Stages'
  <2>1. \A c \in Allocators : Stage(c)'
    BY <1>1 DEF Stages, Stage, AtStage
  <2>2. QED
    BY <2>1 DEF Stages
<1>4. Ledger'
  BY DEF Ledger, Held, Holds
<1>5. Filled'
  BY <1>1 DEF Filled, AtStage, BufferSize
<1>6. WithinReach'
  BY DEF WithinReach
<1>7. QED
  BY <1>2, <1>3, <1>4, <1>5, <1>6

-----------------------------------------------------------------------------
(* Theorems *)

\* Every step of every client preserves the invariant.
LEMMA NextInv == IInv /\ [Next]_vars => IInv'
<1> SUFFICES ASSUME IInv, [Next]_vars PROVE IInv'
  OBVIOUS
<1>1. ASSUME NEW bits \in DmaWidths, SetDmaAddressSize(bits), UNCHANGED library
      PROVE  IInv'
  BY <1>1, SetDmaAddressSizeInv
<1>2. ASSUME NEW a \in Allocators, Step(a), UNCHANGED library
      PROVE  IInv'
  <2>1. ASSUME NEW b \in Buffers, NEW count \in PageCounts, NEW page \in PageSizes,
               AllocBuffer(a, b, count, page)
        PROVE  IInv'
    BY <1>2, <2>1, AllocBufferInv
  <2>2. CASE MakeCommand(a)
    BY <1>2, <2>2, MakeCommandInv
  <2>3. CASE MakeCommandFails(a)
    BY <1>2, <2>3, MakeCommandFailsInv
  <2>4. CASE Segments(a)
    BY <1>2, <2>4, SegmentsInv
  <2>5. CASE SegmentsFail(a)
    BY <1>2, <2>5, SegmentsFailInv
  <2>6. CASE Fill(a)
    BY <1>2, <2>6, FillInv
  <2>7. ASSUME NEW index \in 0 .. (alloc[a].count * alloc[a].page) \div OsPageSize,
               NEW offset \in 0 .. OsPageSize - 1, MapPage(a, index, offset)
        PROVE  IInv'
    <3>1. alloc[a].count \in Nat /\ alloc[a].page \in Nat
      <4>1. alloc[a].count \in PageCounts \cup {0} /\ alloc[a].page \in PageSizes \cup {1}
        BY DEF IInv, TypeOK
      <4>2. PageCounts \cup {0} \subseteq Nat /\ PageSizes \cup {1} \subseteq Nat
        BY DmaAssumption
      <4>3. QED
        BY <4>1, <4>2
    <3>2. (alloc[a].count * alloc[a].page) \div OsPageSize \in Nat
      BY <3>1, DmaAssumption
    <3>3. index \in Nat /\ offset \in Nat
      BY <3>2, DmaAssumption
    <3>4. QED
      BY <1>2, <2>7, <3>3, MapPageInv
  <2>8. CASE UnmapPage(a)
    BY <1>2, <2>8, UnmapPageInv
  <2>9. CASE FreePages(a)
    BY <1>2, <2>9, FreePagesInv
  <2>10. QED
    BY <1>2, <2>1, <2>2, <2>3, <2>4, <2>5, <2>6, <2>7, <2>8, <2>9 DEF Step
<1>3. CASE UNCHANGED vars
  <2>1. TypeOK' /\ Stages' /\ WithinReach'
    BY <1>3 DEF vars, IInv, TypeOK, Stages, Stage, AtStage, WithinReach
  <2>2. Ledger'
    BY <1>3 DEF vars, IInv, Ledger, Held, Holds
  <2>3. Filled'
    BY <1>3 DEF vars, IInv, Filled, AtStage, BufferSize
  <2>4. QED
    BY <2>1, <2>2, <2>3 DEF IInv
<1>4. QED
  BY <1>1, <1>2, <1>3 DEF Next

\* The invariant holds in every reachable state.
LEMMA SpecIInv == Spec => []IInv
BY InitInv, NextInv, PTL DEF Spec

\* TypeOK: in particular no buffer is wired twice, and a command leaves at most
\* one reference behind on a buffer (memory_kernel.cpp:166-193).
THEOREM SpecTypeOK == Spec => []TypeOK
<1>1. IInv => TypeOK
  BY DEF IInv
<1>2. QED
  BY <1>1, SpecIInv, PTL

\* BuffersAccountedFor: nv_alloc_pages and nv_free_pages give up each reference
\* that they took, but for those that a command leaves behind.
THEOREM SpecBuffersAccountedFor == Spec => []BuffersAccountedFor
<1>1. IInv => BuffersAccountedFor
  <2> SUFFICES ASSUME IInv, NEW b \in Buffers
               PROVE  refs[b] = strays[b]
                        + Cardinality({a \in Allocators : Holds(a, b)})
                        + Cardinality({a \in Allocators : Holds(a, b) /\ alloc[a].command})
    BY DEF BuffersAccountedFor
  <2> DEFINE holders == {a \in Allocators : Holds(a, b)}
             commands == {a \in Allocators : Holds(a, b) /\ alloc[a].command}
  <2>1. refs[b] \in Nat /\ strays[b] \in Nat
    BY DEF IInv, TypeOK
  <2>2. CASE ~Held(b)
    <3>1. holders = {} /\ commands = {}
      BY <2>2 DEF Held
    <3>2. refs[b] = strays[b]
      BY <2>2 DEF IInv, Ledger
    <3>3. Cardinality(holders) = 0 /\ Cardinality(commands) = 0
      BY <3>1, FS_EmptySet
    <3>4. QED
      BY <2>1, <3>2, <3>3
  <2>3. CASE Held(b)
    <3>1. PICK a \in Allocators : Holds(a, b)
      BY <2>3 DEF Held
    <3>2. holders = {a}
      BY <3>1 DEF IInv, Ledger
    <3>3. strays[b] = 0 /\ refs[b] = IF alloc[a].command THEN 2 ELSE 1
      BY <3>1 DEF IInv, Ledger
    <3>4. CASE alloc[a].command
      <4>1. commands = {a}
        BY <3>2, <3>4
      <4>2. Cardinality(holders) = 1 /\ Cardinality(commands) = 1
        BY <3>2, <4>1, FS_Singleton
      <4>3. QED
        BY <3>3, <3>4, <4>2
    <3>5. CASE ~alloc[a].command
      <4>1. commands = {}
        BY <3>2, <3>5
      <4>2. Cardinality(holders) = 1 /\ Cardinality(commands) = 0
        BY <3>2, <4>1, FS_Singleton, FS_EmptySet
      <4>3. QED
        BY <3>3, <3>5, <4>2
    <3>6. QED
      BY <3>4, <3>5
  <2>4. QED
    BY <2>2, <2>3
<1>2. QED
  BY <1>1, SpecIInv, PTL

\* WiredWhileAllocated: on every path of the kext's nv_alloc_pages and
\* nv_free_pages, prepare and complete are balanced.
THEOREM SpecWiredWhileAllocated == Spec => []WiredWhileAllocated
<1>1. IInv => WiredWhileAllocated
  BY DEF IInv, Ledger, Held, WiredWhileAllocated
<1>2. QED
  BY <1>1, SpecIInv, PTL

\* Pages and places in them: each place below the end of the last page lies in one.
LEMMA PlaceInPage ==
    ASSUME NEW count \in Nat, NEW page \in Nat \ {0}, NEW place \in Nat, place < count * page
    PROVE  /\ place \div page \in 0 .. count - 1
           /\ (place \div page) * page + (place % page) = place
<1> DEFINE q == place \div page
<1>1. /\ q \in Nat /\ place % page \in 0 .. page - 1 /\ place = page * q + (place % page)
  OBVIOUS
<1>2. ASSUME q >= count PROVE FALSE
  <2>1. page * q >= page * count
    BY <1>1, <1>2
  <2>2. page * count = count * page
    OBVIOUS
  <2>3. QED
    BY <1>1, <2>1, <2>2
<1>3. q * page = page * q
  BY <1>1
<1>4. QED
  BY <1>1, <1>2, <1>3

\* SmallAllocationsFit: the addresses that the dext returns for less than a gibibyte
\* are those of pages in the buffer, and RM's mappings show the memory of its entries.
THEOREM SpecSmallAllocationsFit == Spec => []SmallAllocationsFit
<1>1. IInv => SmallAllocationsFit
  <2> SUFFICES ASSUME IInv, library = "dext", NEW a \in Allocators,
                      alloc[a].count * alloc[a].page < GiB
               PROVE  /\ \A i \in DOMAIN entries[a] : Within(a, entries[a][i], alloc[a].page)
                      /\ \A v \in view[a] :
                            LET entry == entries[a][v[1] \div alloc[a].page] IN
                            v[2] = <<entry[1], entry[2] + (v[1] % alloc[a].page)>>
    BY DEF SmallAllocationsFit
  <2>1. CASE ~AtStage(a, "given")
    BY <2>1 DEF IInv, Stages, Stage
  <2>2. CASE AtStage(a, "given")
    <3> DEFINE b == alloc[a].buffer
               count == alloc[a].count
               page == alloc[a].page
    <3>1. b \in Buffers /\ count \in Nat /\ page \in Nat \ {0}
      BY <2>2, DmaAssumption DEF IInv, Stages, Stage, AtStage
    <3>2. entries[a] = [i \in 0 .. count - 1 |-> <<b, i * page>>]
      BY <2>2 DEF IInv, Filled, Table
    <3>3. buffer[b].size = count * page
      <4>1. buffer[b].size = BufferSize(count, page)
        BY <3>1 DEF IInv, Filled
      <4>2. count * page \in Nat /\ ~(count * page >= GiB)
        BY <3>1, DmaAssumption
      <4>3. QED
        BY <4>1, <4>2 DEF BufferSize
    <3>4. refs[b] > 0 /\ Holds(a, b)
      BY <3>1 DEF IInv, Ledger, Holds
    <3>5. \A v \in view[a] : v[1] \in Nat /\ v[1] < count * page /\ v[2] = <<b, v[1]>>
      BY <2>2 DEF IInv, Filled
    <3> HIDE DEF b, count, page
    <3>6. ASSUME NEW i \in DOMAIN entries[a] PROVE Within(a, entries[a][i], page)
      <4>1. entries[a][i] = <<b, i * page>> /\ i \in 0 .. count - 1
        BY <3>2
      <4>2. (i + 1) * page <= count * page /\ (i + 1) * page = i * page + page
        BY <3>1, <4>1
      <4>3. i * page + page <= count * page
        BY <4>2
      <4>4. QED
        BY <3>1, <3>3, <3>4, <4>1, <4>3 DEF Within
    <3>7. ASSUME NEW v \in view[a]
          PROVE  LET entry == entries[a][v[1] \div page] IN
                 v[2] = <<entry[1], entry[2] + (v[1] % page)>>
      <4>1. v[1] \in Nat /\ v[1] < count * page /\ v[2] = <<b, v[1]>>
        BY <3>5
      <4>2. /\ v[1] \div page \in 0 .. count - 1
            /\ (v[1] \div page) * page + (v[1] % page) = v[1]
        BY <3>1, <4>1, PlaceInPage
      <4>3. entries[a][v[1] \div page] = <<b, (v[1] \div page) * page>>
        BY <3>2, <4>2
      <4>4. QED
        BY <4>1, <4>2, <4>3
    <3>8. QED
      BY <3>6, <3>7 DEF page
  <2>3. QED
    BY <2>1, <2>2
<1>2. QED
  BY <1>1, SpecIInv, PTL

\* WithinReach: in the kext the double shift of memory_kernel.cpp:158 leaves
\* every buffer below 2^31, which any address width that RM reports reaches.
THEOREM SpecWithinReach == Spec => []WithinReach
<1>1. IInv => WithinReach
  BY DEF IInv
<1>2. QED
  BY <1>1, SpecIInv, PTL

=============================================================================
