----------------------------- MODULE KernelMap -----------------------------
(***************************************************************************)
(* os_map_kernel_space and os_unmap_kernel_space of the dext: the mappings *)
(* of the device's BARs that RM asks for, and the OSDictionary             *)
(* global_mapped_memory that keeps them, keyed by their virtual addresses  *)
(* (Support/libnv-darwin/memory_driverkit.cpp:18, 52-141).                 *)
(*                                                                         *)
(* As in OsMem nothing serialises the calls, and a call is cut at its      *)
(* calls into IOKit and at each access to the dictionary: a lookup, the    *)
(* beginning of an update (when the collection is read) and its end (when  *)
(* it is written).  Which BAR is mapped makes no difference here.  A call  *)
(* that finds no BAR at the address it was given, or of which IOKit makes  *)
(* no descriptor, changes nothing.                                         *)
(*                                                                         *)
(* The kext's os_map_kernel_space never gets as far as its dictionary:     *)
(* mapDeviceMemoryWithRegister gets the index of a BAR for the offset of   *)
(* its register, so that it returns NULL, which line 68 dereferences.      *)
(***************************************************************************)
EXTENDS Library, Naturals, FiniteSets

CONSTANTS
    Clients,    \* threads of RM that map and unmap, each one range at a time
    Windows,    \* virtual ranges in which a mapping can be placed
    NoWindow

ASSUME MapAssumption == NoWindow \notin Windows

VARIABLES
    refs,       \* refs[w]: references to the IOMemoryMap at w; 0: there is none
    global_mapped_memory,   \* its entry for w refers to the mapping at w, or to
                \* one that has been freed
    view,       \* view[c]: the dictionary as c's unfinished update found it
    memory,     \* memory[c]: c's call holds a reference to an IOMemoryDescriptor
    call,       \* call[c]: [at, window]: where c is in its call, and for which mapping
    pointer,    \* pointer[c]: what os_map_kernel_space gave c, and c has not given back
    overlapped, \* history: the dictionary was accessed during another call's update
    refused     \* history: a setObject failed

mapVars == <<refs, global_mapped_memory, view, memory, call, pointer, overlapped, refused>>

Idle == [at |-> "idle", window |-> NoWindow]
NoEntries == [w \in Windows |-> "none"]

MapInit ==
    /\ refs = [w \in Windows |-> 0]
    /\ global_mapped_memory = NoEntries
    /\ view = [c \in Clients |-> NoEntries]
    /\ memory = [c \in Clients |-> FALSE]
    /\ call = [c \in Clients |-> Idle]
    /\ pointer = [c \in Clients |-> NoWindow]
    /\ overlapped = FALSE /\ refused = FALSE

At(c, at) == call[c].at = at
Advance(c, from, to) == At(c, from) /\ call' = [call EXCEPT ![c].at = to]
Return(c) == call' = [call EXCEPT ![c] = Idle]

-----------------------------------------------------------------------------
(* Accesses to the dictionary *)

Updating(c) == call[c].at \in {"recording", "removing"}

Access(c) == overlapped' = (overlapped \/ \E d \in Clients \ {c} : Updating(d))

BeginUpdate(c) == view' = [view EXCEPT ![c] = global_mapped_memory] /\ Access(c)

\* What c's update is applied to: another's update survives it or is overwritten.
Bases(c) == {global_mapped_memory, view[c]}

EndUpdate(c) == view' = [view EXCEPT ![c] = NoEntries]

-----------------------------------------------------------------------------
(* os_map_kernel_space *)

\* A BAR is found by its address, and its memory descriptor copied.
CopyMemory(c) ==
    /\ library = "dext"
    /\ pointer[c] = NoWindow
    /\ Advance(c, "idle", "create")
    /\ memory' = [memory EXCEPT ![c] = TRUE]
    /\ UNCHANGED <<refs, global_mapped_memory, view, pointer, overlapped, refused>>

\* A new IOMemoryMap at a free window, with one reference.
CreateMapping(c, w) ==
    /\ At(c, "create") /\ refs[w] = 0
    /\ refs' = [refs EXCEPT ![w] = 1]
    /\ call' = [call EXCEPT ![c] = [at |-> "record", window |-> w]]
    /\ UNCHANGED <<global_mapped_memory, view, memory, pointer, overlapped, refused>>

\* CreateMapping fails: the descriptor is released and NULL returned.
Mut_CreateMappingFails(c) ==
    /\ At(c, "create") /\ Return(c)
    /\ UNCHANGED <<refs, global_mapped_memory, view, memory, pointer, overlapped, refused>>
CreateMappingFails(c) ==
    /\ At(c, "create") /\ Return(c)
    /\ memory' = [memory EXCEPT ![c] = FALSE]
    /\ UNCHANGED <<refs, global_mapped_memory, view, pointer, overlapped, refused>>

BeginRecord(c) ==
    /\ Advance(c, "record", "recording")
    /\ BeginUpdate(c)
    /\ UNCHANGED <<refs, global_mapped_memory, memory, pointer, refused>>

\* setObject retains the mapping.  An entry that it replaces can only be one of a
\* mapping that was freed, which it would release: there the behaviour ends.
Mut_RecordMap(c) ==
    LET w == call[c].window IN
    /\ Advance(c, "recording", "release")
    /\ \E base \in Bases(c) :
          /\ base[w] = "none"
          /\ global_mapped_memory' = [base EXCEPT ![w] = "mapping"]
    /\ EndUpdate(c)
    /\ UNCHANGED <<refs, memory, pointer, overlapped, refused>>
RecordMap(c) ==
    LET w == call[c].window IN
    /\ Advance(c, "recording", "release")
    /\ \E base \in Bases(c) :
          /\ base[w] = "none"
          /\ global_mapped_memory' = [base EXCEPT ![w] = "mapping"]
    /\ refs' = [refs EXCEPT ![w] = @ + 1]
    /\ EndUpdate(c)
    /\ UNCHANGED <<memory, pointer, overlapped, refused>>

\* setObject fails (no memory to grow), and its result is ignored.
RecordMapFails(c) ==
    /\ Advance(c, "recording", "release")
    /\ refused' = TRUE
    /\ EndUpdate(c)
    /\ UNCHANGED <<refs, global_mapped_memory, memory, pointer, overlapped>>

\* The call's own references are released, and RM gets the pointer.
ReleaseOwn(c) ==
    LET w == call[c].window IN
    /\ At(c, "release") /\ Return(c)
    /\ refs' = [refs EXCEPT ![w] = @ - 1]
    /\ memory' = [memory EXCEPT ![c] = FALSE]
    /\ pointer' = [pointer EXCEPT ![c] = w]
    /\ UNCHANGED <<global_mapped_memory, view, overlapped, refused>>

-----------------------------------------------------------------------------
(* os_unmap_kernel_space *)

\* getObject finds an entry.  (One of a freed mapping ends the behaviour: the
\* object is cast.)
FindMap(c) ==
    LET w == pointer[c] IN
    /\ At(c, "idle") /\ w # NoWindow
    /\ global_mapped_memory[w] = "mapping"
    /\ call' = [call EXCEPT ![c] = [at |-> "unmap", window |-> w]]
    /\ pointer' = [pointer EXCEPT ![c] = NoWindow]
    /\ Access(c)
    /\ UNCHANGED <<refs, global_mapped_memory, view, memory, refused>>

\* getObject finds none: the call logs it and returns.
FindNone(c) ==
    LET w == pointer[c] IN
    /\ At(c, "idle") /\ w # NoWindow
    /\ global_mapped_memory[w] = "none"
    /\ pointer' = [pointer EXCEPT ![c] = NoWindow]
    /\ Access(c)
    /\ UNCHANGED <<refs, global_mapped_memory, view, memory, call, refused>>

BeginRemove(c) ==
    /\ Advance(c, "unmap", "removing")
    /\ BeginUpdate(c)
    /\ UNCHANGED <<refs, global_mapped_memory, memory, pointer, refused>>

\* The entry goes, and with its reference, the last one, the mapping.  Where other
\* updates have read the entry, it now refers to a mapping that is freed.
RemoveMap(c) ==
    LET w == call[c].window
        Expired(e) == IF e[w] = "mapping" THEN [e EXCEPT ![w] = "freed"] ELSE e
    IN  /\ At(c, "removing") /\ Return(c)
        /\ \E base \in Bases(c) :
              /\ base[w] = "mapping"
              /\ global_mapped_memory' = [base EXCEPT ![w] = "none"]
        /\ refs' = [refs EXCEPT ![w] = @ - 1]
        /\ view' = [d \in Clients |-> IF d = c THEN NoEntries ELSE Expired(view[d])]
        /\ UNCHANGED <<memory, pointer, overlapped, refused>>

\* The entry is gone already, overwritten by another call's update.
RemoveNone(c) ==
    /\ At(c, "removing") /\ Return(c)
    /\ \E base \in Bases(c) : base[call[c].window] = "none"
    /\ EndUpdate(c)
    /\ UNCHANGED <<refs, global_mapped_memory, memory, pointer, overlapped, refused>>

-----------------------------------------------------------------------------
MapStep(c) ==
    \/ CopyMemory(c)
    \/ \E w \in Windows : CreateMapping(c, w)
    \/ CreateMappingFails(c)
    \/ BeginRecord(c) \/ RecordMap(c) \/ RecordMapFails(c) \/ ReleaseOwn(c)
    \/ FindMap(c) \/ FindNone(c) \/ BeginRemove(c) \/ RemoveMap(c) \/ RemoveNone(c)

\* RM has been given a pointer to what is no longer mapped: its next access faults.
Faulting == \E c \in Clients : pointer[c] # NoWindow /\ refs[pointer[c]] = 0

MapNext == ~Faulting /\ \E c \in Clients : MapStep(c)

-----------------------------------------------------------------------------
(* Properties *)

Making(c) == call[c].at \in {"record", "recording", "release"}

Dictionary == [Windows -> {"none", "mapping", "freed"}]

MapTypeOK ==
    /\ refs \in [Windows -> 0 .. 2]
    /\ global_mapped_memory \in Dictionary
    /\ view \in [Clients -> Dictionary]
    /\ memory \in [Clients -> BOOLEAN]
    /\ call \in [Clients -> [at : {"idle", "create", "record", "recording", "release",
                                   "unmap", "removing"},
                             window : Windows \cup {NoWindow}]]
    /\ pointer \in [Clients -> Windows \cup {NoWindow}]
    /\ overlapped \in BOOLEAN /\ refused \in BOOLEAN

\* No IOMemoryDescriptor outlives the call that copied it.  As long as no access
\* to the dictionary falls into another call's update, every IOMemoryMap is
\* referenced by its entry and by the call that is making it and by nothing else,
\* no entry outlives its mapping, and some client can still give each mapping
\* back, whatever fails and however the calls interleave between their accesses
\* (memory_driverkit.cpp:80-116, 140).
MapsAccountedFor ==
    /\ \A c \in Clients : memory[c] => At(c, "create") \/ Making(c)
    /\ ~overlapped =>
          \A w \in Windows :
             /\ global_mapped_memory[w] # "freed"
             /\ refs[w] = (IF global_mapped_memory[w] = "mapping" THEN 1 ELSE 0)
                          + Cardinality({c \in Clients : Making(c) /\ call[c].window = w})
             /\ refs[w] > 0 => \E c \in Clients : w \in {pointer[c], call[c].window}

\* What RM was given by os_map_kernel_space stays mapped until RM unmaps it, even
\* when updates of the dictionary overwrite each other, unless a setObject failed;
\* and as long as none falls into another, os_unmap_kernel_space will find it
\* (memory_driverkit.cpp:113-119, 130-136).
PointerStaysMapped ==
    ~refused =>
       \A c \in Clients : pointer[c] # NoWindow =>
          /\ refs[pointer[c]] > 0
          /\ ~overlapped => global_mapped_memory[pointer[c]] = "mapping"
=============================================================================
