--------------------------- MODULE NVMacRMService ---------------------------
(***************************************************************************)
(* The kernel extension (NVMacRM/NVMacRMService.cpp): init, start, stop    *)
(* and free of its instances, one for each device that IOKit matches.      *)
(* Unlike the dext's, the instances share one address space, hence one     *)
(* nvd_state, which every one of them allocates in init and frees in free. *)
(*                                                                         *)
(* IOKit creates an instance, starts it, and when start returns true stops *)
(* it later; when start returns false it detaches the instance without a   *)
(* stop.  free comes with the last release, which may be late: a younger   *)
(* instance may be there already.  Nothing is locked: a step is what runs  *)
(* between two reads or writes of the global state.                        *)
(***************************************************************************)
EXTENDS Integers

CONSTANTS
    Instances,      \* the instances of the class, each created at most once (a bound)
    Devices,        \* the PCI devices that match
    NULL            \* no state, no device, no session

\* What an allocated state holds: the device, and the device whose identifiers
\* and BARs are in the nv_state_t.
States == [device : Devices \cup {NULL}, filled : Devices \cup {NULL}]

ASSUME NullAssumption == NULL \notin Instances \cup Devices \cup States

VARIABLES
    phase,      \* phase[i]: what instance i is about to do; "none": not created yet
    provider,   \* provider[i]: the device it was created for
    nvd_state,  \* the global pointer: the instance whose init allocated the state, or NULL
    state,      \* state[i]: what is in the state i's init allocated, or NULL
    nv,         \* nv[i]: the state that start of i fills in, read from nvd_state once
    session,    \* session[d]: the instance that has d open, or NULL
    enabled,    \* the devices whose memory space and bus mastering are enabled
    retains,    \* retains[d]: retains of d taken by this code
    panicked,   \* a NULL or freed state was used
    overlapped, \* history: an instance was created before another one was freed
    strayed     \* history: RM, called for one device, accessed another

vars == <<phase, provider, nvd_state, state, nv, session, enabled, retains, panicked,
          overlapped, strayed>>

history == <<overlapped, strayed>>

pci == <<session, enabled, retains>>
memory == <<nvd_state, state, nv>>

\* IONewZero
ZeroState == [device |-> NULL, filled |-> NULL]

Init ==
    /\ phase = [i \in Instances |-> "none"]
    /\ provider = [i \in Instances |-> NULL]
    /\ nvd_state = NULL
    /\ state = [i \in Instances |-> NULL]
    /\ nv = [i \in Instances |-> NULL]
    /\ session = [d \in Devices |-> NULL]
    /\ enabled = {}
    /\ retains = [d \in Devices |-> 0]
    /\ panicked = FALSE
    /\ overlapped = FALSE
    /\ strayed = FALSE

Goto(i, from, to) == phase[i] = from /\ phase' = [phase EXCEPT ![i] = to]

\* What the macro NV_GLOBAL_DEVICE yields when nvd_state is not NULL.
GlobalDevice == state[nvd_state].device

\* A state that is there, and neither NULL nor freed.
Valid(q) == q # NULL /\ state[q] # NULL

-----------------------------------------------------------------------------
(* IOKit *)

\* IOKit creates an instance for a device that none is attached to.  An older one
\* that is detached may still be there, and so may those of other devices.
Create(i, d) ==
    LET others == {j \in Instances : phase[j] \notin {"none", "freed"}}
    IN  /\ Goto(i, "none", "init")
        /\ \A j \in others : provider[j] = d => phase[j] = "free"
        /\ provider' = [provider EXCEPT ![i] = d]
        /\ overlapped' = (overlapped \/ others # {})
        /\ UNCHANGED <<memory, pci, panicked, strayed>>

\* IOKit stops an instance that it takes for running.
Terminate(i) ==
    /\ Goto(i, "running", "stop")
    /\ UNCHANGED <<provider, memory, pci, panicked, history>>

-----------------------------------------------------------------------------
(* init and free *)

\* The superclass's init failed: nvd_state is as it was.
SuperInitFails(i) ==
    /\ Goto(i, "init", "free")
    /\ UNCHANGED <<provider, memory, pci, panicked, history>>

\* The pointer is overwritten, with NULL if there is no memory ...
AllocState(i) ==
    /\ Goto(i, "init", "check")
    /\ \/ nvd_state' = i /\ state' = [state EXCEPT ![i] = ZeroState]
       \/ nvd_state' = NULL /\ UNCHANGED state
    /\ UNCHANGED <<provider, nv, pci, panicked, history>>

\* ... and read again.
Mut_CheckState(i) ==
    /\ Goto(i, "check", "start")
    /\ UNCHANGED <<provider, memory, pci, panicked, history>>
CheckState(i) ==
    /\ Goto(i, "check", IF nvd_state = NULL THEN "free" ELSE "start")
    /\ UNCHANGED <<provider, memory, pci, panicked, history>>

\* The device that the global state names is released ...
Mut_ReleaseDevice(i) ==
    /\ Valid(nvd_state)
    /\ Goto(i, "free", "delete")
    /\ UNCHANGED <<provider, memory, pci, panicked, history>>
ReleaseDevice(i) ==
    /\ Valid(nvd_state)
    /\ Goto(i, "free", "delete")
    /\ retains' = [d \in Devices |-> IF d = GlobalDevice THEN retains[d] - 1 ELSE retains[d]]
    /\ UNCHANGED <<provider, memory, session, enabled, panicked, history>>

\* ... the state, if there still is one, deleted ...
DeleteState(i) ==
    /\ Goto(i, "delete", IF nvd_state = NULL THEN "freed" ELSE "clear")
    /\ nvd_state # NULL => Valid(nvd_state)
    /\ state' = [j \in Instances |-> IF j = nvd_state THEN NULL ELSE state[j]]
    /\ UNCHANGED <<provider, nvd_state, nv, pci, panicked, history>>

\* ... and the pointer overwritten, whatever it has become.
Mut_ClearPointer(i) ==
    /\ Goto(i, "clear", "freed")
    /\ UNCHANGED <<provider, memory, pci, panicked, history>>
ClearPointer(i) ==
    /\ Goto(i, "clear", "freed")
    /\ nvd_state' = NULL
    /\ UNCHANGED <<provider, state, nv, pci, panicked, history>>

-----------------------------------------------------------------------------
(* start *)

\* IOService::start returned true, which is not KERN_SUCCESS: the code logs an
\* error, calls the kernel's Stop (no part of this class) and returns the 1.
StartReturnsEarly(i) ==
    /\ Goto(i, "start", "running")
    /\ UNCHANGED <<provider, memory, pci, panicked, history>>

\* IOService::start returned false, which is KERN_SUCCESS: the code goes on.
Announce(i) ==
    /\ Valid(nvd_state)
    /\ Goto(i, "start", "open")
    /\ UNCHANGED <<provider, memory, pci, panicked, history>>

\* No PCI device, or it could not be opened: kIOReturnNoDevice is not 0, so
\* IOKit takes the instance for started.
OpenFails(i) ==
    /\ Goto(i, "open", "running")
    /\ UNCHANGED <<provider, memory, pci, panicked, history>>

\* The device is opened and enabled.
OpenDevice(i) ==
    /\ Goto(i, "open", "take")
    /\ session[provider[i]] = NULL
    /\ session' = [session EXCEPT ![provider[i]] = i]
    /\ enabled' = enabled \cup {provider[i]}
    /\ UNCHANGED <<provider, memory, retains, panicked, history>>

\* The address of the state's nv_state_t is taken, without looking there ...
TakeState(i) ==
    /\ Goto(i, "take", "publish")
    /\ nv' = [nv EXCEPT ![i] = nvd_state]
    /\ UNCHANGED <<provider, nvd_state, state, pci, panicked, history>>

\* ... the device published ...
PublishDevice(i) ==
    /\ Valid(nvd_state)
    /\ Goto(i, "publish", "retain")
    /\ state' = [state EXCEPT ![nvd_state].device = provider[i]]
    /\ UNCHANGED <<provider, nvd_state, nv, pci, panicked, history>>

\* ... and whatever device the global state names by now is retained.
Mut_RetainDevice(i) ==
    /\ Valid(nvd_state) /\ GlobalDevice # NULL
    /\ Goto(i, "retain", "fill")
    /\ UNCHANGED <<provider, memory, pci, panicked, history>>
RetainDevice(i) ==
    /\ Valid(nvd_state) /\ GlobalDevice # NULL
    /\ Goto(i, "retain", "fill")
    /\ retains' = [retains EXCEPT ![GlobalDevice] = @ + 1]
    /\ UNCHANGED <<provider, memory, session, enabled, panicked, history>>

\* Identifiers, BAR table and pointers into it are written to nv, and so is the
\* device that the global state names, as a handle that nobody uses.
Mut_FillState(i) ==
    /\ Valid(nv[i]) /\ Valid(nvd_state)
    /\ Goto(i, "fill", "adapter")
    /\ UNCHANGED <<state, provider, nvd_state, nv, pci, panicked, history>>
FillState(i) ==
    /\ Valid(nv[i]) /\ Valid(nvd_state)
    /\ Goto(i, "fill", "adapter")
    /\ state' = [state EXCEPT ![nv[i]].filled = provider[i]]
    /\ UNCHANGED <<provider, nvd_state, nv, pci, panicked, history>>

\* RM, which start calls, accesses what it takes for the configuration space: all
\* of os_pci_init_handle, os_pci_read_* and os_pci_write_* go to the device that
\* the global state names, whatever handle they are given.
RMAccessesConfig(i) ==
    /\ phase[i] = "adapter" /\ Valid(nvd_state) /\ GlobalDevice # NULL
    /\ strayed' = (strayed \/ GlobalDevice # provider[i])
    /\ UNCHANGED <<phase, provider, memory, pci, panicked, overlapped>>

\* RM is handed NV_STATE_PTR and nv.  start returns KERN_SUCCESS, which is
\* false: IOKit detaches the instance.
InitAdapter(i) ==
    /\ Valid(nvd_state) /\ Valid(nv[i])
    /\ Goto(i, "adapter", "free")
    /\ UNCHANGED <<provider, memory, pci, panicked, history>>

-----------------------------------------------------------------------------
(* stop: the device is read from the global state again at every line *)

CheckDevice(i) ==
    /\ Valid(nvd_state)
    /\ Goto(i, "stop", IF GlobalDevice = NULL THEN "free" ELSE "close")
    /\ UNCHANGED <<provider, memory, pci, panicked, history>>

\* close only ends the session of the instance that asks.
CloseDevice(i) ==
    /\ Valid(nvd_state) /\ GlobalDevice # NULL
    /\ Goto(i, "close", "bus lead")
    /\ session' = [session EXCEPT ![GlobalDevice] = IF @ = i THEN NULL ELSE @]
    /\ UNCHANGED <<provider, memory, enabled, retains, panicked, history>>

\* Bus mastering is disabled, then the memory space.
DisableDevice(i) ==
    /\ Valid(nvd_state) /\ GlobalDevice # NULL
    /\ Goto(i, "bus lead", "memory") \/ Goto(i, "memory", "forget")
    /\ enabled' = enabled \ {GlobalDevice}
    /\ UNCHANGED <<provider, memory, session, retains, panicked, history>>

\* The pointer to the device is cleared without a release.
ForgetDevice(i) ==
    /\ Valid(nvd_state)
    /\ Goto(i, "forget", "free")
    /\ state' = [state EXCEPT ![nvd_state].device = NULL]
    /\ UNCHANGED <<provider, nvd_state, nv, pci, panicked, history>>

-----------------------------------------------------------------------------
(* Uses of a pointer to a state that is NULL or was freed *)

Panic(i, from, fault) ==
    /\ phase[i] = from /\ fault
    /\ panicked' = TRUE
    /\ UNCHANGED <<phase, provider, memory, pci, history>>

\* Through the global pointer, or through the device it should name.
GlobalFaults(i) ==
    \/ \E p \in {"start", "publish", "fill", "stop", "forget", "free"} :
          Panic(i, p, ~Valid(nvd_state))
    \/ \E p \in {"retain", "adapter", "close", "bus lead", "memory"} :
          Panic(i, p, IF Valid(nvd_state) THEN GlobalDevice = NULL ELSE TRUE)

\* The state is deleted twice.
DeleteFaults(i) == Panic(i, "delete", nvd_state # NULL /\ ~Valid(nvd_state))

\* Through the address of the nv_state_t that start took earlier.
LocalFaults(i) ==
    \E p \in {"fill", "adapter"} : Panic(i, p, ~Valid(nv[i]))

Step(i) ==
    \/ SuperInitFails(i) \/ AllocState(i) \/ CheckState(i)
    \/ StartReturnsEarly(i) \/ Announce(i) \/ OpenFails(i) \/ OpenDevice(i)
    \/ TakeState(i) \/ PublishDevice(i) \/ RetainDevice(i) \/ FillState(i)
    \/ RMAccessesConfig(i) \/ InitAdapter(i)
    \/ CheckDevice(i) \/ CloseDevice(i) \/ DisableDevice(i) \/ ForgetDevice(i)
    \/ ReleaseDevice(i) \/ DeleteState(i) \/ ClearPointer(i)
    \/ Terminate(i) \/ \E d \in Devices : Create(i, d)

Faults(i) == GlobalFaults(i) \/ DeleteFaults(i) \/ LocalFaults(i)

Next == ~panicked /\ \E i \in Instances : Step(i) \/ Faults(i)

Spec == Init /\ [][Next]_vars

-----------------------------------------------------------------------------
(* Properties *)

Phases == {"none", "init", "check", "start", "open", "take", "publish", "retain", "fill",
           "adapter", "running", "stop", "close", "bus lead", "memory", "forget",
           "free", "delete", "clear", "freed"}

\* The types of the variables; the number of retains is never negative when one
\* instance at a time takes and drops them.
TypeOK ==
    /\ phase \in [Instances -> Phases]
    /\ provider \in [Instances -> Devices \cup {NULL}]
    /\ nvd_state \in Instances \cup {NULL}
    /\ state \in [Instances -> States \cup {NULL}]
    /\ nv \in [Instances -> Instances \cup {NULL}]
    /\ session \in [Devices -> Instances \cup {NULL}]
    /\ enabled \subseteq Devices
    /\ retains \in [Devices -> Int]
    /\ ~overlapped => \A d \in Devices : retains[d] \in 0..1
    /\ panicked \in BOOLEAN /\ overlapped \in BOOLEAN /\ strayed \in BOOLEAN

\* With one instance at a time the state is there whenever it is used, but for
\* one case: free after a failed init (line 32 does not check the pointer).
PanicOnlyAfterFailedInit ==
    panicked /\ ~overlapped => \E i \in Instances : phase[i] = "free" /\ nvd_state = NULL

\* When RM gets the state (line 140 on), the device is open for the instance and
\* enabled; with one instance at a time it is also retained once, and the
\* nv_state_t describes that very device, the only one that RM's accesses reach.
RMGetsReadyDevice ==
    /\ strayed => overlapped
    /\ \A i \in Instances : phase[i] = "adapter" =>
          /\ session[provider[i]] = i
          /\ ~overlapped =>
                /\ provider[i] \in enabled /\ retains[provider[i]] = 1
                /\ state[nvd_state] = [device |-> provider[i], filled |-> provider[i]]

\* With one instance at a time a freed instance leaves neither its state nor a
\* retain on the device behind.
FreedMeansReleased ==
    ~overlapped /\ (\A i \in Instances : phase[i] \in {"none", "freed"}) =>
       /\ nvd_state = NULL /\ \A i \in Instances : state[i] = NULL
       /\ \A d \in Devices : retains[d] = 0

\* Instances that overlap do leave the global pointer on a state that is gone, but
\* only while a free is between its IODelete and its store of NULL (line 34): no
\* younger init, late store or second free makes that window any longer.
DanglesOnlyWhileFreeing ==
    nvd_state # NULL /\ state[nvd_state] = NULL => \E i \in Instances : phase[i] = "clear"

\* An instance that IOKit takes for started drives its device.
RunningInstanceDrives ==
    \A i \in Instances : phase[i] = "running" =>
       session[provider[i]] = i /\ nvd_state # NULL /\ state[nvd_state].device = provider[i]
=============================================================================
