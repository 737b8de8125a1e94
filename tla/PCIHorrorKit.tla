---------------------------- MODULE PCIHorrorKit ----------------------------
(***************************************************************************)
(* The driver extension (PCIHorrorKit/PCIHorrorKit.cpp): init, Start_Impl, *)
(* Stop_Impl and free of one instance, in a process of its own, and the    *)
(* PCI device it drives.  The device outlives the process: the session     *)
(* that Open establishes and the bits of the command register belong to    *)
(* the device, nvd_state belongs to the process.                           *)
(*                                                                         *)
(* The environment: DriverKit launches a process for a device that is      *)
(* there, calls Start and later Stop on one queue (so they never overlap)  *)
(* and drops the instance; another client may hold the device's session;   *)
(* the device may be unplugged (the personality is tunnel-compatible); and *)
(* the process may die at any step, after which the kernel closes its      *)
(* session.                                                                *)
(***************************************************************************)
EXTENDS Naturals

\* kIOPCICommandBusLead and kIOPCICommandMemorySpace.
CommandBits == {"BusLead", "MemorySpace"}

VARIABLES
    pc,         \* what the process is about to do; "none": there is no process
    nvd_state,  \* a set with one record, or the empty set for NULL
    retains,    \* retains of the IOPCIDevice that this process holds
    session,    \* who has the device open: "none", "dext" or "other"
    command,    \* the bits of CommandBits that are set in the device
    bar0,       \* what RM wrote at the command register's offset in BAR 0
    present     \* the device is plugged in

vars == <<pc, nvd_state, retains, session, command, bar0, present>>

process == <<pc, nvd_state, retains>>
device == <<session, command, bar0, present>>

\* IONewZero: no service, no device, an empty nv_state_t.
ZeroState == [service |-> FALSE, device |-> FALSE, nv |-> FALSE]

\* NV_GLOBAL_DEVICE # NULL
GlobalDevice == \E s \in nvd_state : s.device

Init ==
    /\ pc = "none"
    /\ nvd_state = {}
    /\ retains = 0
    /\ session = "none"
    /\ command \in SUBSET CommandBits
    /\ bar0 = {}
    /\ present = TRUE

Goto(from, to) == pc = from /\ pc' = to

-----------------------------------------------------------------------------
(* init and free *)

Mut_InitSucceeds ==
    /\ Goto("init", "start")
    /\ UNCHANGED <<nvd_state, retains, device>>
InitSucceeds ==
    /\ Goto("init", "start")
    /\ nvd_state' = {ZeroState}
    /\ UNCHANGED <<retains, device>>

\* super::init fails, or there is no memory for the state: DriverKit releases
\* the instance, so free is next.
InitFails ==
    /\ Goto("init", "free")
    /\ UNCHANGED <<nvd_state, retains, device>>

\* free releases the device that the state still names, and the state.  The
\* process ends with its only instance, and with it any retain it still held.
Free ==
    /\ nvd_state # {}
    /\ Goto("free", "none")
    /\ nvd_state' = {}
    /\ retains' = 0
    /\ UNCHANGED device

\* Without a state, free reads the device through a NULL pointer and the
\* process is killed.
FreeFaults ==
    /\ nvd_state = {}
    /\ Goto("free", "none")
    /\ retains' = 0
    /\ UNCHANGED <<nvd_state, device>>

-----------------------------------------------------------------------------
(* Start_Impl *)

SuperStartFails ==
    /\ Goto("start", "stop")
    /\ UNCHANGED <<nvd_state, retains, device>>

\* Start of the superclass succeeded: the service is announced and RM set up,
\* before the device is known.
Announce ==
    /\ Goto("start", "open")
    /\ nvd_state' = {[s EXCEPT !.service = TRUE] : s \in nvd_state}
    /\ UNCHANGED <<retains, device>>

\* The provider is no IOPCIDevice.
WrongProvider ==
    /\ Goto("open", "stop")
    /\ UNCHANGED <<nvd_state, retains, device>>

OpenDevice ==
    /\ session = "none"
    /\ Goto("open", "enable")
    /\ session' = "dext"
    /\ UNCHANGED <<nvd_state, retains, command, bar0, present>>

\* Open fails when somebody else has the session, or for a reason of its own.
\* The device is not in nvd_state yet, so the Stop that follows leaves it alone.
OpenFails ==
    /\ Goto("open", "stop")
    /\ UNCHANGED <<nvd_state, retains, device>>

\* Read-modify-write of the command register; a device that is gone ignores it.
EnableDevice ==
    /\ Goto("enable", "populate")
    /\ command' = IF present THEN command \cup CommandBits ELSE command
    /\ UNCHANGED <<nvd_state, retains, session, bar0, present>>

\* The device is published in nvd_state and retained, and nv_state_t filled in
\* (identifiers, the BAR table, the pointers into it).
Mut_PopulateState ==
    /\ Goto("populate", "adapter")
    /\ nvd_state' = {[s EXCEPT !.device = TRUE, !.nv = TRUE] : s \in nvd_state}
    /\ UNCHANGED <<retains, device>>
PopulateState ==
    /\ Goto("populate", "adapter")
    /\ nvd_state' = {[s EXCEPT !.device = TRUE, !.nv = TRUE] : s \in nvd_state}
    /\ retains' = retains + 1
    /\ UNCHANGED device

\* RM takes over the state.  Whether rm_init_adapter succeeds or not, Start
\* returns success: the result is only logged.
InitAdapter ==
    /\ Goto("adapter", "started")
    /\ UNCHANGED <<nvd_state, retains, device>>

\* os_pci_read_* and os_pci_write_*, which are the same code at three widths: the
\* offset is one of the configuration space and checked against its size, the
\* handle is not looked at, and the access goes to BAR 0 at that offset.  There a
\* device that decodes no memory reads as ones and ignores writes.
DecodesMemory == present /\ "MemorySpace" \in command
ReadCommand == IF DecodesMemory THEN bar0 ELSE CommandBits

\* RM sets or clears a bit of what it takes for the PCI command register.
RMUpdatesCommand(bit) ==
    /\ pc \in {"adapter", "started"} /\ GlobalDevice
    /\ \E bits \in {ReadCommand \cup {bit}, ReadCommand \ {bit}} :
          bar0' = IF DecodesMemory THEN bits ELSE bar0
    /\ UNCHANGED <<process, session, command, present>>

-----------------------------------------------------------------------------
(* Stop_Impl, called by DriverKit or by a failed Start *)

StopWithoutDevice ==
    /\ ~GlobalDevice
    /\ Goto("stop", "free")
    /\ UNCHANGED <<nvd_state, retains, device>>

\* Close ends this client's session, and no other's.
Mut_CloseDevice ==
    /\ GlobalDevice
    /\ Goto("stop", "disable")
    /\ UNCHANGED <<nvd_state, retains, device>>
CloseDevice ==
    /\ GlobalDevice
    /\ Goto("stop", "disable")
    /\ session' = IF session = "dext" THEN "none" ELSE session
    /\ UNCHANGED <<nvd_state, retains, command, bar0, present>>

\* The bits are set once more, if the device still takes writes from a client
\* whose session is closed; the pointer is cleared without a release.
DisableDevice ==
    /\ Goto("disable", "free")
    /\ command' \in {command, IF present THEN command \cup CommandBits ELSE command}
    /\ nvd_state' = {[s EXCEPT !.device = FALSE] : s \in nvd_state}
    /\ UNCHANGED <<retains, session, bar0, present>>

-----------------------------------------------------------------------------
(* DriverKit, the device and its other clients *)

\* DriverKit starts a process for a device that matches.
Launch ==
    /\ present
    /\ Goto("none", "init")
    /\ UNCHANGED <<nvd_state, retains, device>>

\* DriverKit stops the service: it was unloaded, or the device is gone.
Terminate ==
    /\ Goto("started", "stop")
    /\ UNCHANGED <<nvd_state, retains, device>>

\* The process dies and the kernel closes what it had open.
Crash ==
    /\ pc # "none"
    /\ pc' = "none"
    /\ nvd_state' = {}
    /\ retains' = 0
    /\ session' = IF session = "dext" THEN "none" ELSE session
    /\ UNCHANGED <<command, bar0, present>>

\* Another client opens the device, with either set of bits, or closes it.
OtherOpens ==
    /\ session = "none" /\ present
    /\ session' = "other"
    /\ command' \in SUBSET CommandBits
    /\ UNCHANGED <<process, bar0, present>>
OtherCloses ==
    /\ session = "other"
    /\ session' = "none"
    /\ UNCHANGED <<process, command, bar0, present>>

\* The device loses its registers with its power.
Unplug ==
    /\ present
    /\ present' = FALSE
    /\ command' = {}
    /\ bar0' = {}
    /\ UNCHANGED <<process, session>>
\* It comes back as a new device when the old one has no client left.
Plug ==
    /\ ~present /\ pc = "none" /\ session = "none"
    /\ present' = TRUE
    /\ UNCHANGED <<process, session, command, bar0>>

-----------------------------------------------------------------------------
Instance ==
    \/ InitSucceeds \/ InitFails \/ Free \/ FreeFaults
    \/ SuperStartFails \/ Announce \/ WrongProvider \/ OpenDevice \/ OpenFails
    \/ EnableDevice \/ PopulateState \/ InitAdapter
    \/ StopWithoutDevice \/ CloseDevice \/ DisableDevice

Environment ==
    \/ Launch \/ Terminate \/ Crash
    \/ OtherOpens \/ OtherCloses \/ Unplug \/ Plug

Next ==
    \/ Instance
    \/ \E bit \in CommandBits : RMUpdatesCommand(bit)
    \/ Environment

Spec == Init /\ [][Next]_vars

\* The instance's code runs until its callback returns (it never waits for
\* another thread), and DriverKit stops the service of a device that is gone.
FairSpec ==
    /\ Spec
    /\ WF_vars(Instance)
    /\ WF_vars(~present /\ Terminate)

-----------------------------------------------------------------------------
(* Properties *)

\* The types of the variables; a process that is past init and not faulting has
\* its state, and holds at most the one retain of Start_Impl.
TypeOK ==
    /\ pc \in {"none", "init", "start", "open", "enable", "populate", "adapter",
               "started", "stop", "disable", "free"}
    /\ nvd_state \in SUBSET [service : BOOLEAN, device : BOOLEAN, nv : BOOLEAN]
    /\ pc \notin {"none", "init", "free"} => \E s \in nvd_state : nvd_state = {s}
    /\ retains \in 0..1
    /\ session \in {"none", "dext", "other"}
    /\ command \subseteq CommandBits
    /\ bar0 \subseteq CommandBits
    /\ present \in BOOLEAN

\* When DriverKit and not this code is in charge, the device is open for the
\* process exactly if nvd_state names it: Stop_Impl, which only looks at
\* NV_GLOBAL_DEVICE (line 194), closes every session that Start_Impl opened.
SessionMatchesState ==
    pc \in {"none", "init", "start", "started", "stop", "free"} =>
       (session = "dext" <=> GlobalDevice)

\* While RM drives the device (line 177 on), the process has its session and a
\* retain on it, RM has been given a complete nv_state_t, and the device, unless
\* unplugged, is enabled: whatever RM writes to its command register, the bits
\* that Start_Impl set stay.
RMDrivesReadyDevice ==
    pc \in {"adapter", "started"} =>
       /\ session = "dext" /\ GlobalDevice /\ retains = 1
       /\ \A s \in nvd_state : s.service /\ s.nv
       /\ present => command = CommandBits

\* Once the device is gone, or the process has left it, the extension does not
\* hold its session for ever.
SessionEnds == ~present ~> session # "dext"

\* Stop_Impl leaves the device disabled.
StopDisablesOperation ==
    [][pc = "disable" /\ DisableDevice /\ session = "none" => command' = {}]_vars
=============================================================================
