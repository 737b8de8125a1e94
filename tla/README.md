# NVMac: specifications, model checks and proofs

NVMac runs the resource manager (RM) of NVIDIA's open kernel driver on macOS.
RM itself (`nv-kernel.o_binary`) is not in the repository; the repository is
the part underneath it: a C interface of some 250 `os_*` and `nv_*` functions
that RM calls, implemented twice over IOKit, and the two drivers that start RM.
This directory models the parts of that code that keep state.

## 1. Inventory

| Part | Source | State | Operations | What makes it correct |
|---|---|---|---|---|
| Heap | `libnv-darwin/libc.cpp` 10-67 | `global_allocations`: pointer (as text) to size | `os_alloc_mem`, `os_free_mem` | a block has one owner; what is given back becomes free, with the size it was allocated with |
| NVLink's heap | `libnv-darwin/nvlink.cpp` | none of its own | `nvlink_malloc`, `nvlink_free` | what it returns is a block of the heap, or NULL |
| Spinlock, mutex, reader/writer lock | `libc_driverkit.cpp`, `libc_kernel.cpp` | one lock object each | alloc, free, acquire, conditional acquire, release | a caller told that it has the lock has it, in the mode it asked for; a writer is alone; a waiter is served |
| Semaphore | `libc.cpp` 113-173 | a Mach semaphore, its name in a heap cell | alloc, free, acquire, conditional acquire, release | an acquire takes a unit, a release gives one and never waits |
| Driver extension (dext) | `PCIHorrorKit/PCIHorrorKit.cpp` | the process's `nvd_state`, the PCI command register, the PCI session | `init`, `Start`, `Stop`, `free` | RM only sees a populated device; what Start did Stop undoes |
| Kernel extension (kext) | `NVMacRM/NVMacRMService.cpp` | `nvd_state`, a global that all instances of the class share | `init`, `probe`, `start`, `stop`, `free` | the same, for every instance |
| BAR table | both drivers, `nv_darwin.h` 38-59 | `nv_state_t.bars` | filled by `Start`, looked up by `os_map_kernel_space` | an entry describes a BAR of the device |
| Kernel mappings | `memory_driverkit.cpp` 18-141, `memory_kernel.cpp` 22-104 | `global_mapped_memory` | `os_map_kernel_space`, `os_unmap_kernel_space` | a mapping lives until it is unmapped |
| DMA pages | `memory_driverkit.cpp` 143-270, `memory_kernel.cpp` 106-270 | descriptors and DMA commands behind the `priv` pointer | `nv_alloc_pages`, `nv_free_pages`, kernel and user mappings | every object created is released once; the handle has the type its users cast it to |
| Firmware | `firmware_kernel.cpp`, `firmware_driverkit.cpp` | buffer, vnode, VFS context | `nv_get_firmware`, `nv_put_firmware` | nothing outlives a failed call |
| PCI configuration space | `pci_kernel.cpp`, `pci_driverkit.cpp` | the device's registers | `os_pci_read_*`, `os_pci_write_*` | an offset outside the space reads as all ones and writes nothing |
| Time | `os.cpp` 120-158 | the system's clocks | `os_get_current_time`, `os_delay`, `os_delay_us` | time does not go back; a delay is as long as asked |
| Strings | `libc.cpp` 70-109 | none | `os_string_copy`, `os_snprintf`, ... | what the C functions of the same names do |
| Capabilities | `iokit.cpp`, stubs elsewhere | fake entries | `nv_cap_*` | created entries are destroyed |
| libspdm | `libspdm-polyfill/*.c` | none | stubs | failure is reported as failure |
| Stubs | `stubs.c`, `acpi.cpp`, `userland.cpp`, `power.cpp`, most of `os.cpp` | none | constants, log messages | - |
| Installer | `Support/PCIHorror/` | the UI's status text | activate or deactivate the dext | - |
| RM | `libnv-kernel` (build files only) | not in the repository | calls all of the above | external |

How they interact: `Start` (dext) or `start` (kext) fills in `nv_state_t`, calls
RM (`rm_init_rm`, `rm_init_private_state`, `rm_is_supported_device`,
`rm_init_adapter`), and RM calls back into the library for memory, locks, PCI
registers, firmware and mappings. The library reaches the device through the
macros of `nv_darwin.h`, i.e. through `nvd_state`. RM is written for many threads
and asks the library for the locks that protect it; the library protects nothing
of its own (there is no lock around either `OSDictionary`, nor around
`nvd_state`). Today RM's work queue and timers are stubs, so one thread enters
RM per driver instance; the kext may have several instances at once.

What is hard about it: threads of RM that enter the unlocked dictionaries at the
same time; callbacks of IOKit and DriverKit that fail half-way and must be
undone; a device that is unplugged, or a process that dies, at any step; IOKit
instances that share one global; sizes that are kept in 8 or 32 bits; locks whose
conditional forms report what they did not obtain. `PROJECT.json` ("hazards")
names each at its line, with the property that watches it.

## 2. Plan

In the order of their importance to the system; RM cannot run without the parts
that come first.

| # | Module | Models | State |
|---|---|---|---|
| 1 | `OsMem`, implementing `HeapContract`; `OsMemProofs` | the heap | done, proved |
| 2 | `PCIHorrorKit`; `PCIHorrorKitProofs` | the dext's life, its device, RM's accesses to PCI configuration space | done, proved |
| 3 | `NVMacRMService`; `NVMacRMServiceProofs` | the kext's instances | done, proved |
| 4 | `RwLock` over `RwLockObject`, implementing `LockContract`; `RwLockProofs` | the reader/writer lock of both libraries | done, proved |
| 5 | `DmaPages`; `DmaPagesProofs` | memory shared with the GPU | done, proved |
| 6 | `KernelMap`, `Firmware`, composed by `Services`; `KernelMapProofs`, `ServicesProofs` | the dext's BAR mappings, firmware | done, proved |
| 7 | `NvLink`, an extension of `OsMem` | `nvlink_malloc`, which ignores a failed allocation | done; what it cannot do is proved in `OsMemProofs` |
| 8 | `Locks`, `Semaphore`, `Clock`, composed with `RwLock` by `Synchronization`; `SynchronizationProofs` | the other locks, and time | done, proved |
| 9 | further theorems in these modules | how far a disagreement of section 6 reaches: which calls, libraries and sizes it spares | done where sections 4 and 5 say so |
| 10 | the BAR table, with wide BARs | what `os_map_kernel_space` finds at an address | not begun |

Every module keeps its parameters as CONSTANTS with named assumptions and has one
action per step of an operation; none uses a RECURSIVE operator, so that all can
be proved about. `Library` holds what distinguishes the two implementations: a
variable that is "dext" or "kext" from the first state on, so that one run checks
both.

## 3. The modules

**`OsMem`** (`libc.cpp` 10-67). `heap` is the allocator below the library,
`global_allocations` the dictionary, `live` the blocks RM owns; `pc`, `ptr`,
`size` and `view` are the local state of the calls. A call is cut wherever it
touches what threads share: IOMallocZero (`AllocBlock`), the beginning and the end
of a dictionary update (`RecordBlock`, `RemoveEntry`, which read the collection
into `view` and write it back), the lookup (`FindBlock`, `MissBlock`) and IOFree
(`ReleaseBlock`). `RecordBlockFails` is a setObject that returns false.
`KeyOf` is the pointer printed into a buffer that has room for 15 digits of the
kernel's 16 (the least such pointer is `FullWidth`), and `RecordedSize` an OSNumber
of 8 bits. `disturbed` is a history variable: calls have overlapped, or a setObject
has failed. RM frees what it was given, once, and `OneOwner` and `HeapSafety` are
claims about such callers; the one that does not is `NvLink`'s.

**`HeapContract`** is what a caller relies on: each block goes free, reserved, held,
returned and free again. `OsMem` implements it under the mapping `Stage`.

**`NvLink`** (`nvlink.cpp` 56-64) extends `OsMem` by the calls that `nvlink_malloc` makes
when there is no memory: it returns a variable that nothing was written to (`MallocFails`
puts any member of `Garbage`, which need not be aligned, into `wild`), and `nvlink_free`
hands it to `os_free_mem`. If the lookup finds nothing, the call is refused
(`RejectWild`); if it finds an entry, IOFree is called on garbage (`FreeGarbage`):
`trespass` remembers it, and the behaviour ends there. With a lost digit, any address
within a block in use has the block's name, so that IOFree is reached without a race or
a failure; `TrespassHitsBlock` says that this is the only way.

**`PCIHorrorKit`** (`PCIHorrorKit.cpp`, `pci_driverkit.cpp`). `pc` is the step of
`init`, `Start_Impl`, `Stop_Impl` or `free` that comes next; `nvd_state` and
`retains` die with the process, `session`, `command` (the bits of the PCI command
register), `bar0` and `present` belong to the device. Each early return of
`Start_Impl` is an action. `RMUpdatesCommand` is what becomes of RM's
updates of the command register: they land in BAR 0. The environment launches,
terminates and kills the process, unplugs the device, and has another client
compete for it.

**`NVMacRMService`** (`NVMacRMService.cpp`, `pci_kernel.cpp`). The same life, for any
number of instances that share `nvd_state`, which nothing locks: a step is what runs
between two accesses to it. `init` overwrites the pointer and reads it again
(`AllocState`, `CheckState`); `start` takes the address of the `nv_state_t` once
(`TakeState`) and reads the global pointer again at each later line; `stop` does so in
each of its lines (`CheckDevice`, `CloseDevice`, `DisableDevice` twice, `ForgetDevice`);
`free` releases the device (`ReleaseDevice`), deletes the state (`DeleteState`) and
stores NULL (`ClearPointer`). A state is identified with the instance whose `init`
allocated it; `state[i] = NULL` means that it does not exist (any more), and a use of
one, a second delete included, is `panicked`. The results of `start` are those IOKit
sees: `KERN_SUCCESS` is `false`. `overlapped` and `strayed` are history variables.

**`RwLockObject`, `RwLock`** (`libc_driverkit.cpp` 63-109, `libc_kernel.cpp`
71-107). The object counts readers and queues waiters; the library
acquires it, tries it (the dext's conditional write tries to read; the kext's
conditional calls report success whatever they obtained), and releases it by one unlock for both modes.
`held` is what each thread was told. `misled` records that a conditional call
told a thread something else than it obtained. `AllocFails` is the dext's
`os_alloc_rwlock` without memory, which initializes a lock at NULL. **`LockContract`** is what RM
relies on.

**`Locks`** (`libc_driverkit.cpp` 10-61, `libc_kernel.cpp` 13-69). RM has a cell for each
spinlock and mutex. `objects` are the lock objects that exist, `taken` those that are
locked, `told` what RM's threads were told. `os_alloc_mutex` never writes the cell, so that
`AllocMutex` lets it hold nothing or any lock that was `forgotten` before: the code's
undefined behaviour, restricted to the contents that can work at all. What follows is
part of the model: two mutexes can share one lock, freeing the one frees the other's,
and a new spinlock can get the same memory. `inverted` and `orphaned` are history
variables: `os_cond_acquire_mutex` has been called, a lock was freed that was still in use.
`LockFaults` is a call on a cell that names no lock; nothing follows it. A thread
has one of these locks at a time.

**`Semaphore`** (`libc.cpp` 113-173). `units` is what the semaphore has whose name is in a
cell, `given` the cells that RM has. The calls cast the cell's address instead of reading
the cell, so that none of them reaches the semaphore: an acquire and a release both wait on
what the address names (`CallWait`) and return NV_OK if that returns (`WaitReturns`), and
`os_cond_acquire_semaphore` returns what its switch makes of the answer (`CondAcquire`,
`Answers`). What the system does with the wrong name is outside the repository; the module
claims no more of it than the types, and nothing about liveness.

**`Clock`** (`os.cpp` 120-158, `nvlink.cpp` 79-81). Time is the uptime in nanoseconds.
`CurrentUptime` is what the code takes for nanoseconds, in the kext the ticks of
mach_absolute_time, each of which is `Numer/Denom` nanoseconds; `Useconds` rounds it to
microseconds and keeps 32 bits. A thread reads the time, asks for a delay of `os_delay`
(whose product wraps at `Word`), `os_delay_us` or NVLink, and reads it again.

**`Synchronization`** composes these four services. They share no state and RM's calls
of one do not depend on another, so a behaviour `exercised` one of them, and the rest of
the state stays as it began.

**`DmaPages`** (`memory_driverkit.cpp` 143-270, `memory_kernel.cpp` 106-271,
`memory.cpp` 96-103). Buffers are counted by reference and wired by `prepare`, which may
fail unnoticed; `alloc` is the step of each allocation, `entries` the page table RM gets,
`view` what RM sees through a mapping. An address is a buffer and an offset: entries are
`page_size` apart, and mappings start at multiples of `os_page_size`, which need not be
the same (`PageSizes`, `OsPageSize`). The dext's entries are addresses of its own
process, which lines 198-199 of `memory_driverkit.cpp` doubt to be what the GPU needs;
the module says where they lie in the buffer, and nothing of what the GPU reaches.
Calls of the kext that fault (the write past the segment array, the bzero of a device's
address) end where they do.

**`KernelMap`** (`memory_driverkit.cpp` 18-141), the dext's mappings. `refs` are the
references to each IOMemoryMap, `global_mapped_memory` its entry, `call` where a client is
in its call, `pointer` what it has been given, `memory` the descriptor its call holds. As in
`OsMem` an update of the dictionary has a beginning and an end (`BeginRecord`,
`RecordMap`, `RecordMapFails`; `BeginRemove`, `RemoveMap`, `RemoveNone`), between which
others' updates can be lost, or an entry written back whose mapping is gone ("freed").
A cast of such an entry, and a client whose pointer is no longer mapped (`Faulting`), end the
behaviour. The kext's `os_map_kernel_space` dereferences NULL before it reaches its
dictionary (`memory_kernel.cpp` 67-68) and is not followed.
**`Firmware`** (`firmware_*.cpp`): the steps of a request, with vnode, vfs_context,
buffer and context counted. **`Services`** composes the two: any interleaving of both.

## 4. Runs

TLC evaluates each run completely; the numbers are distinct states (of those with
symmetry, up to symmetry).

| Run | States | What it shows |
|---|---|---|
| `osmem` | 30,575 | Two threads, two addresses, sizes 24 and 255, one failing setObject. Callers that free once what they were given: no race or failure gives a block two owners or frees it twice (`OneOwner`, `HeapSafety`). Until calls overlap or a setObject fails: the dictionary mirrors the blocks (`LedgerExact`), IOFree gets the right size (`ReleaseSizeExact`), nothing is lost (`NothingLeaked`), and what is given back becomes free (`ReturnedBlockIsFreed`) |
| `osmem_race` | violated | Two overlapping setObject calls lose an entry; the pointer can never be freed (`EveryLivePointerTracked`) |
| `nvlink_garbage` | violated | An uninitialized pointer of `nvlink_malloc` that lies within a block in use has that block's name, and goes to IOFree (`WildFreeRejected`) |
| `dext_lifecycle` | 411 | Whatever fails, dies, competes or is unplugged: `Stop_Impl` knows of every open session (`SessionMatchesState`), RM has a device that is open, retained and enabled (`RMDrivesReadyDevice`), and the session ends (`SessionEnds`) |
| `dext_stop` | violated | `Stop_Impl` sets the bits that it says it disables |
| `kext` | 267,536 | Three instances, two devices, any interleaving: the global pointer names a deleted state only while a `free` is between IODelete and its store of NULL (`DanglesOnlyWhileFreeing`), and RM is entered with its device open; while instances follow one another RM's device is ready and the only one it reaches (`RMGetsReadyDevice`), only a failed init faults (`PanicOnlyAfterFailedInit`), nothing is left behind (`FreedMeansReleased`) |
| `kext_start` | violated | `start` takes the success of `IOService::start` for an error, and reports it as success |
| `synchronization` | 236,782 | Either library. Three threads on a reader/writer lock: `HoldersCounted`, `NeverLeftLocked`, `WaitersServed`, and the contract until a thread is misled (`LockSafety`). Two threads, two spinlocks and two mutexes over three lock objects: who was told that it has a lock is the only one (`LockHeldByOne`), a spinlock faults for want of memory only (`SpinlockNeverFaults`), the locks that exist are the spinlocks and the forgotten ones (`LocksAccountedFor`), each until what its comment names. Two callers and two semaphores. RM never measures more time than has passed, whichever clock it reads and however often the readings wrap (`MeasuredNeverAhead`); a delay is short only if the product of `os_delay` wraps (`DelayShortOnlyIfWrapped`) |
| `rwlock_writer` | violated | A conditional write leaves a writer beside readers |
| `dma_pages` | 526,864 | Two allocations, either library, every failure: references and wiring balance (`BuffersAccountedFor`, `WiredWhileAllocated`), the dext's entries and mappings are in its buffer below a gibibyte, whatever the two page sizes (`SmallAllocationsFit`), the kext's buffers are within the GPU's reach (`WithinReach`) |
| `dma_entries` | violated | From a gibibyte on the dext hands out entries beyond its buffer (`EntriesBacked`) |
| `services` | 309,422 | Three clients map BARs in the dext and two load firmware in either library, every failure: what RM was given stays mapped, even when updates of the dictionary overwrite each other (`PointerStaysMapped`); until they do, each mapping is referenced and can be given back (`MapsAccountedFor`); `VnodesReleased`, `FirmwareAccountedFor`, `FirmwareComplete` |

Every property of a passing run has a mutant in `PROJECT.json`: a definition of the
code changed as a plausible mistake would change it, under which TLC finds the
property violated.

Bounds. Two threads and two addresses are the smallest instance in which updates
are lost and an address is reused while its old entry is being removed; 24 and
255 are sizes within and at the end of 8 bits (272 would be recorded as 16), and 4096
and 4112 adjacent slots that the cut digit must not confuse; as `FullWidth` is 4096, the
addresses are the kernel's. The garbage of `nvlink_garbage` is an address in the second slot.
Three instances on two devices let
one instance outlive another and meet a third. Three threads let a writer wait for
two readers. Three lock objects let two mutexes share one and a spinlock take the place
of another. `Thousand` = 2 makes a microsecond of two nanoseconds and a millisecond of four, `Word` = 8
lets a reading wrap every 16 nanoseconds, and `Numer/Denom` = 5/2 makes the kext's clock slower. Of the
delays in `SomeDelays` 1 and 2 milliseconds are slept in full, and the product of 5 wraps; the delays in
`SomeDelaysUs` are 3 and 4 microseconds; `MaxUptime` = 60 is long enough
for delays to begin late and end, and for readings that wrapped several times. A page of the
system has two units, RM's pages have one or four, and a gibibyte twelve (`OsPageSize`, `Sizes`, `GiB`):
requests of 2 large pages are below the point where the dext recomputes the size in 32 bits, the size of 4
wraps to nothing and that of 5 to twelve. With three clients and three windows two updates can cross
while a third client has a mapping. `MaxSize`, `MaxFailures` and `MaxSetFailures` bound the
file, the failing requests and the failing updates; the properties count failures,
so that each further one repeats what the first shows. Instances are created once each.

Symmetry. `kext`, `dma_pages` and `services` identify states that differ by a permutation
of instances and devices, of allocators and buffers, or of clients, windows and requesters.
No action compares them other than for equality, and these runs check invariants only.

Fairness. `OsMem`: a call in progress runs on (the library never blocks).
`PCIHorrorKit`: a callback in progress runs on, and DriverKit stops the service of
a device that is gone; nothing is assumed of other clients or of crashes.
`RwLock`: a thread that has the lock releases it, a waiter whose turn has come is
resumed by the kernel; nothing forces a thread to ask. The other specifications
claim no liveness and state no fairness.
CHECK_DEADLOCK is FALSE where the modelled system may stop: when all instances
were created, all addresses are lost to leaks, the bounded failures are used up, or
after a panic or a fault.

## 5. Proofs

For every value of the constants, by TLAPS.

Each proof has the same shape: an inductive invariant, checked by TLC on the instance of
the run first, one lemma for each action (or group of actions) that says that it
keeps the invariant, `SpecIInv`, and a theorem for each property that follows from it.
Every safety property of a passing run is a theorem.

`OsMemProofs` (667 obligations), about `OsMem`. Types and `OneOwner` are inductive
together, with any threads, racing or failing: each step changes one block's claim, and
`live`, `recording` and `freeing` are disjoint by the guard of IOMallocZero, which
never returns a block that is in use. `SpecHeapSafety` shows that each step is one of
the contract's or leaves every block's stage alone. For the rest, `Ledger` adds
what a single call knows: as long as `disturbed` is false at most one thread is in a
call, its `view` is the dictionary it will replace, and the entries are exactly
those of `Known`. `SpecLedgerExact` and `SpecNothingLeaked` follow, with the
lemma `KeyOfInjective`: aligned addresses keep distinct names when the last digit is
cut. `SpecReleaseSizeExact` assumes sizes below 256, because the code keeps eight bits.
About `NvLink`, `NvSpecTrespassHitsBlock`: whatever the garbage, IOFree is called on it only
if it shares its name with a block in use (`SharesName`). The ledger survives until then,
so that an entry that is found is that of a known block, and `SameKey` says which
values have the name of one.

`NVMacRMServiceProofs` (811 obligations). `IInv` has three parts. `Types`, and
`Pointers` (`DanglesOnlyWhileFreeing`; from its open to the end of `start` an
instance has its session), hold however instances overlap: only the `free` that
deletes a state leaves the pointer on it, and its own store of NULL comes next, while
`open` only succeeds on a device without a session. `Serial` says, while no two instances have
overlapped, what the one instance holds in each phase (`Holds`): no state before
`init`, then its own state and no other, the device in it from `publish`, one retain
on it from `retain`, nothing once freed, and between IODelete and the store a pointer to nothing. The properties alone are not inductive: that
`RMGetsReadyDevice` finds one retain, for example, needs that there was none before.
All five invariants of the run `kext` follow.

`PCIHorrorKitProofs` (148 obligations). The properties of the dext speak of the moments
between callbacks; the invariant says what the process's memory (`Memory`), the session
(`Session`) and the device (`Device`) are at each step within one, where the process
may die and the device may go. `StopDisablesOperation` fails, and the proof shows where it matters:
`command` may keep any bits after a stop, and `EnableDevice` sets those RM needs.

`RwLockProofs` (590 obligations). `Counting` relates the object to what the threads
were told: it never has more holders than threads believe to have it, and as many
until one was misled. The inequality is needed for `NeverLeftLocked`, which holds with misled threads, too: each thread that
believes to have the lock unlocks once, and that is enough. `Queueing` (who waits is in the queue once and
has nothing) is what makes handing the lock to the first waiters, a reader's neighbours included, add
exactly those to the holders. `Truthful` (nobody was misled: each mode told is the object's) gives
the refinement: `LockNextContract` maps each step of an acquire, of a wait, of its resumption, of a
release, to one of `LockContract` or to a stutter.

`SynchronizationProofs` (858 obligations). For the spinlocks and mutexes `Exclusion` (an
object is taken for one thread), `Separation` (until a lock is freed in use, spinlocks and
forgotten mutexes have objects of their own) and `SpinlocksHeld` are inductive together:
`os_alloc_mutex` may name any forgotten object, and only `Separation` keeps it off a spinlock's.
For the clock, what matters is how readings round. Division is reasoned about through lemmas
(`Division`, `QuotientMonotone`, `QuotientsApart`); `UptimesApart` says that two uptimes of either
library are no further apart than the nanoseconds between them and one of rounding, and
`ReadingsApart` that a difference modulo the width never exceeds the difference itself, so that
neither a wrap nor a slow tick can make a measured time too long. Readings carry no precondition.
A step of one service leaves the others' invariants alone, so `IInv` is their
conjunction. `SpecLockSafety` is the refinement of the contract by the composition.

`DmaPagesProofs` (644 obligations). The properties count references, but what makes the
counts right is `Ledger`: no buffer is shared, so a buffer with references is one allocation's, or
was left behind by a command that is gone. `Stages` says what an allocation has at each step, on
the failing paths too, and `Filled` what the dext writes: an entry for each page of the request, a page's size
apart, in a buffer of `BufferSize`, which is that of the request below a gibibyte. `PlaceInPage` is the
arithmetic of the mappings: an offset in the request lies in the page whose entry the division by
`page_size` finds.

`KernelMapProofs` (1047 obligations). The references of a mapping are those of the one client that deals
with it: `Ownership` (no two clients make, have or give back the same window), `CallSteps` (what a call
has at each step) and `References` (how many references the mapping of each client has). `Expiry` says
that an entry, in the dictionary or in any `view`, refers to a mapping that exists or is "freed". An
update that is lost, or an entry that is written back, thus neither gives nor takes a reference, and
the one that a client's setObject took goes with that client's own unmap:
`PointerStaysMapped` needs no precondition about races. `Orderly` is what is true of
the dictionary until accesses overlap: an update's view is the dictionary, and the references are the entry's and
the making call's. `QuietInv` serves the steps that leave references and dictionary alone.

`ServicesProofs` (384 obligations), over `KernelMapProofs`. Firmware: a request that moves
takes and gives up what its new step and its old one differ by (`Held`, `Change`), so that the
counts of contexts, buffers, vnodes and vfs_contexts are those of the requests at the steps
that hold one, and of the failures. All six invariants of the run follow.

Assumptions, which TLC evaluates in the runs:

| Assumption | Says | Why the code justifies it |
|---|---|---|
| `AddressAssumption` | blocks are 16-byte aligned; their addresses all have 16 digits, or all have fewer than 15 | IOMallocZero's alignment; addresses of the kernel and of a process |
| `SizeAssumption`, `BoundAssumption`, `FirmwareAssumption` | sizes and bounds are numbers | - |
| `NoneAssumption`, `NullAssumption`, `SemaphoreAssumption`, `MapAssumption` | the constants that stand for "nothing" are nothing else | - |
| `ThreadsAssumption` | finitely many threads use a lock | a process has finitely many; holders are counted |
| `LocksAssumption` | spinlocks' and mutexes' cells differ, `Nothing` is no object | they are different variables of RM |
| `ClockAssumption` | a delay fits its 32-bit argument; a tick is not less than a nanosecond | the type (`os.cpp` 150-158); timebases are 1/1 and 125/3 |
| `DmaAssumption` | a request has a page or more, and a page a byte or more; RM reports 31 to 63 bits | `DmaPages` says where the widths come from |

Two theorems have a premise of their own: `SpecReleaseSizeExact` (sizes below 256) and
`NvSpecTrespassHitsBlock` (garbage is a number).

Only model-checked: the liveness properties (`ReturnedBlockIsFreed`, `SessionEnds`,
`WaitersServed`), because the prover treats neither fairness nor
ENABLED, and the properties of the runs that expect a violation, which are false.

## 6. Disagreements found

With a run: the six "violated" rows above; `PROJECT.json` ("findings") has the lines.
Seen while modelling, and part of the models' behaviour:

- The size of a block is kept in 8 bits, so that IOFree is told 16 of a block of 272 bytes
  (`libc.cpp` 34); `ReleaseSizeExact` is proved for smaller sizes.
- Every start and stop of the dext leaves a retain on the IOPCIDevice: `Stop_Impl` clears
  the pointer that `free` would release (`PCIHorrorKit.cpp` 204). (The kext has the same
  line, 163, but its `stop` follows only a `start` that returned early and retained nothing.)
- An instance of the kext whose `start` went through is detached and freed without a
  `stop`; its session is never closed, and the device cannot be opened again.
- Instances of the kext that overlap delete each other's state; `stop` and `free` may then
  use or delete it once more (`NVMacRMService.cpp` 32-34, 157-163).
- Configuration accesses go to BAR 0 (dext) or the I/O space (kext) at the same
  offset (`pci_driverkit.cpp` 42-94, `pci_kernel.cpp` 38-92).
- Two calls of the dext that update `global_mapped_memory` at once can lose an entry, whose
  mapping can then never be unmapped (`memory_driverkit.cpp` 113, 140); a setObject that
  fails unmaps what RM is given (113-116).
- `nv_get_firmware` of the kext loses a context with every failure, and a buffer with
  every failed read (`firmware_kernel.cpp` 61-95); the vnode and the vfs_context it gives
  up on every way out.
- `nv_alloc_pages` of the kext does not look whether prepare() succeeded
  (`memory_kernel.cpp` 166), releases an IODMACommand whose buffer is still set (188-193),
  and its mappings take the pairing for a descriptor (232).
- `os_alloc_mutex` allocates a lock and forgets it; `os_cond_acquire_mutex` reports the
  opposite of what it did (`libc_driverkit.cpp` 32, 51; `libc_kernel.cpp` 40, 59).
- The dext's `os_alloc_spinlock` and `os_alloc_rwlock` do not look at what the allocator
  returned (`libc_driverkit.cpp` 11, 66).
- Semaphores are addressed by their cell, and released by a wait (`libc.cpp` 140, 171).
- `os_delay` sleeps a thousand times too long, or for what the product leaves of
  2^32 (`os.cpp` 156); the microseconds of `os_get_current_time` are the whole uptime's (137),
  and those of the kext count ticks (125-131).

Seen, and not modelled: the kext passes the index of a BAR to `mapDeviceMemoryWithRegister`,
which expects the offset of its register, and dereferences the NULL that it gets
(`memory_kernel.cpp` 67-68); the dext stores the raw registers 0 to 2 as BAR addresses, flags
included, and for a device whose BAR 1 is wide its upper half as BAR 2 (`PCIHorrorKit.cpp`
147-167); the kext keys its mappings by physical address, so that a BAR mapped twice would have
one entry (`memory_kernel.cpp` 77); its pairings of buffer and command are never
freed (223); `strncpy` overwrites the
directory of the firmware's path (`firmware_kernel.cpp` 51); a buffer of IOMallocData goes to IOFree
(`firmware_kernel.cpp` 110); the dext gives the GPU virtual addresses
(`memory_driverkit.cpp` 201); `os_string_copy` bounds the copy by the old contents
(`libc.cpp` 85); `nv_log_error` frees a stack buffer (`debug.cpp` 41).

## 7. Not modelled

Process information, strings, logging and capabilities read or copy values and keep no
state that another operation depends on. The BAR table is stored once, before RM runs;
`KernelMap` takes what its lookup finds as given. What follows the fault of the kext's
`os_map_kernel_space` is not followed. The DMA-mapping, NUMA, power, ACPI and user-land functions and
libspdm are stubs. RM is not in the repository and is modelled as a caller that
keeps to the interface: it frees what it was given, once (what `nvlink_malloc` returned
included), and releases the locks it believes it has. The installer sends one request.
