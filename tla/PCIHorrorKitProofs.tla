------------------------- MODULE PCIHorrorKitProofs -------------------------
(***************************************************************************)
(* Proofs about PCIHorrorKit.  Its properties speak of the moments at      *)
(* which DriverKit or RM is in charge; the inductive invariant says what   *)
(* is true at each step of the callbacks in between, where the process may *)
(* die and the device may go.                                              *)
(***************************************************************************)
EXTENDS PCIHorrorKit, TLAPS

States == [service : BOOLEAN, device : BOOLEAN, nv : BOOLEAN]

Before == {"start", "open", "enable", "populate"}
Driven == {"adapter", "started"}
After == {"stop", "disable", "free"}

Types ==
    /\ pc \in {"none", "init"} \cup Before \cup Driven \cup After
    /\ retains \in 0..1
    /\ session \in {"none", "dext", "other"}
    /\ command \subseteq CommandBits /\ bar0 \subseteq CommandBits
    /\ present \in BOOLEAN

\* The state, and whether it names the device.
Memory ==
    /\ nvd_state = {} \/ \E s \in States : nvd_state = {s}
    /\ nvd_state = {} => pc \in {"none", "init", "free"}
    /\ pc \in {"none", "init"} => nvd_state = {}
    /\ pc \in Before \cup {"free"} => ~GlobalDevice
    /\ pc \in Driven \cup {"disable"} => GlobalDevice
    /\ pc \in {"open", "enable", "populate"} \cup Driven => \A s \in nvd_state : s.service
    /\ pc \in Driven => \A s \in nvd_state : s.nv

\* The session: opened before the state names the device, closed before it no
\* longer does.
Session ==
    /\ pc \in {"none", "init", "start", "open", "disable", "free"} => session # "dext"
    /\ pc \in {"enable", "populate"} \cup Driven => session = "dext"
    /\ pc = "stop" => (session = "dext" <=> GlobalDevice)

\* The retain, and the bits that nobody clears while the session lasts.
Device ==
    /\ pc \in {"none", "init"} \cup Before => retains = 0
    /\ pc \in Driven => retains = 1
    /\ pc \in {"populate"} \cup Driven /\ present => command = CommandBits

IInv == Types /\ Memory /\ Session /\ Device

\* There is no process at first, and no session.
LEMMA InitInv == Init => IInv
BY DEF Init, IInv, Types, Memory, Session, Device, Before, Driven, After, GlobalDevice

\* init and free.
LEMMA CreationInv ==
    ASSUME IInv, InitSucceeds \/ InitFails \/ Free \/ FreeFaults PROVE IInv'
<1> USE DEF IInv, Types, Memory, Session, Device, Before, Driven, After, GlobalDevice,
            Goto, device, States, ZeroState
<1>1. CASE InitSucceeds
  <2>1. /\ pc = "init" /\ pc' = "start" /\ nvd_state' = {ZeroState} /\ ZeroState \in States
        /\ ~ZeroState.device
        /\ UNCHANGED <<retains, session, command, bar0, present>>
    BY <1>1 DEF InitSucceeds
  <2>2. Memory' /\ ~GlobalDevice'
    BY <2>1
  <2>3. Types' /\ Session' /\ Device'
    BY <2>1
  <2>4. QED
    BY <2>2, <2>3
<1>2. CASE InitFails
  BY <1>2 DEF InitFails
<1>3. CASE Free
  BY <1>3 DEF Free
<1>4. CASE FreeFaults
  BY <1>4 DEF FreeFaults
<1>5. QED
  BY <1>1, <1>2, <1>3, <1>4

\* Start_Impl.
LEMMA StartInv ==
    ASSUME IInv,
           \/ SuperStartFails \/ Announce \/ WrongProvider \/ OpenDevice \/ OpenFails
           \/ EnableDevice \/ PopulateState \/ InitAdapter
    PROVE  IInv'
<1> USE DEF IInv, Types, Memory, Session, Device, Before, Driven, After, GlobalDevice,
            Goto, device, States
<1>1. CASE SuperStartFails
  BY <1>1 DEF SuperStartFails
<1>2. CASE Announce
  <2>1. PICK s \in States : nvd_state = {s}
    BY <1>2 DEF Announce
  <2>2. nvd_state' = {[s EXCEPT !.service = TRUE]}
    BY <1>2, <2>1 DEF Announce
  <2>3. QED
    BY <1>2, <2>1, <2>2 DEF Announce
<1>3. CASE WrongProvider
  BY <1>3 DEF WrongProvider
<1>4. CASE OpenDevice
  BY <1>4 DEF OpenDevice
<1>5. CASE OpenFails
  BY <1>5 DEF OpenFails
<1>6. CASE EnableDevice
  BY <1>6 DEF EnableDevice
<1>7. CASE PopulateState
  <2>1. PICK s \in States : nvd_state = {s}
    BY <1>7 DEF PopulateState
  <2>2. nvd_state' = {[s EXCEPT !.device = TRUE, !.nv = TRUE]}
    BY <1>7, <2>1 DEF PopulateState
  <2>3. /\ pc = "populate" /\ pc' = "adapter"
        /\ retains = 0 /\ retains' = 1
        /\ session = "dext" /\ session' = session
        /\ UNCHANGED <<command, bar0, present>>
    <3>1. /\ pc = "populate" /\ pc' = "adapter" /\ retains' = retains + 1
          /\ UNCHANGED <<session, command, bar0, present>>
      BY <1>7, Zenon DEF PopulateState
    <3>2. retains = 0 /\ session = "dext"
      BY <3>1
    <3>3. QED
      BY <3>1, <3>2
  <2>4. Memory' /\ GlobalDevice'
    <3> DEFINE s2 == [s EXCEPT !.device = TRUE, !.nv = TRUE]
    <3>1. s2 \in States /\ s2.device /\ s2.nv /\ s2.service = s.service /\ nvd_state' = {s2}
      BY <2>2
    <3>2. s.service
      BY <2>1, <2>3
    <3> HIDE DEF s2
    <3>3. QED
      BY <3>1, <3>2, <2>3
  <2>5. Types' /\ Session' /\ Device'
    BY <2>3
  <2>6. QED
    BY <2>4, <2>5
<1>8. CASE InitAdapter
  BY <1>8 DEF InitAdapter
<1>9. QED
  BY <1>1, <1>2, <1>3, <1>4, <1>5, <1>6, <1>7, <1>8

\* Stop_Impl.
LEMMA StopInv ==
    ASSUME IInv, StopWithoutDevice \/ CloseDevice \/ DisableDevice PROVE IInv'
<1> USE DEF IInv, Types, Memory, Session, Device, Before, Driven, After, GlobalDevice,
            Goto, device, States
<1>1. CASE StopWithoutDevice
  BY <1>1 DEF StopWithoutDevice
<1>2. CASE CloseDevice
  BY <1>2 DEF CloseDevice
<1>3. CASE DisableDevice
  <2>1. PICK s \in States : nvd_state = {s}
    BY <1>3 DEF DisableDevice
  <2>2. nvd_state' = {[s EXCEPT !.device = FALSE]}
    BY <1>3, <2>1 DEF DisableDevice
  <2>3. QED
    BY <1>3, <2>1, <2>2 DEF DisableDevice
<1>4. QED
  BY <1>1, <1>2, <1>3

\* DriverKit, other clients, and a device that goes or comes.
LEMMA EnvironmentInv == ASSUME IInv, Environment PROVE IInv'
<1> USE DEF IInv, Types, Memory, Session, Device, Before, Driven, After, GlobalDevice,
            Goto, device, process
<1>1. CASE Launch \/ Terminate
  BY <1>1 DEF Launch, Terminate
<1>2. CASE Crash
  BY <1>2 DEF Crash
<1>3. CASE OtherOpens \/ OtherCloses
  BY <1>3 DEF OtherOpens, OtherCloses
<1>4. CASE Unplug
  BY <1>4 DEF Unplug
<1>5. CASE Plug
  BY <1>5 DEF Plug
<1>6. QED
  BY <1>1, <1>2, <1>3, <1>4, <1>5 DEF Environment

\* RM writes what it takes for the command register, to BAR 0.
LEMMA AccessInv ==
    ASSUME IInv, NEW bit \in CommandBits, RMUpdatesCommand(bit) PROVE IInv'
<1>1. bar0' \subseteq CommandBits
  BY DEF RMUpdatesCommand, ReadCommand, IInv, Types
<1>2. UNCHANGED <<process, session, command, present>>
  BY DEF RMUpdatesCommand
<1>3. QED
  BY <1>1, <1>2 DEF IInv, Types, Memory, Session, Device, GlobalDevice, process

\* Every step of the process, of RM and of their environment keeps the invariant.
LEMMA NextInv == IInv /\ [Next]_vars => IInv'
<1> SUFFICES ASSUME IInv, [Next]_vars PROVE IInv'
  OBVIOUS
<1>1. CASE Instance
  BY <1>1, CreationInv, StartInv, StopInv DEF Instance
<1>2. CASE UNCHANGED vars
  BY <1>2 DEF vars, IInv, Types, Memory, Session, Device, GlobalDevice
<1>3. QED
  BY <1>1, <1>2, EnvironmentInv, AccessInv DEF Next

\* The invariant holds in every reachable state.
LEMMA SpecIInv == Spec => []IInv
BY InitInv, NextInv, PTL DEF Spec

\* The types, whatever interrupts the callbacks; no process takes a second retain.
THEOREM SpecTypeOK == Spec => []TypeOK
<1>1. IInv => TypeOK
  BY DEF IInv, Types, Memory, TypeOK, States, Before, Driven, After
<1>2. QED
  BY SpecIInv, <1>1, PTL

\* Between callbacks the process has the device open exactly if its state names the
\* device, which is what Stop_Impl goes by (PCIHorrorKit.cpp:194).
THEOREM SpecSessionMatchesState == Spec => []SessionMatchesState
<1>1. IInv => SessionMatchesState
  BY DEF IInv, Types, Memory, Session, SessionMatchesState, Before, Driven, After,
         GlobalDevice
<1>2. QED
  BY SpecIInv, <1>1, PTL

\* RM only runs on a device that is open, retained, described and enabled
\* (PCIHorrorKit.cpp:177), through crashes, unplugging and other clients.
THEOREM SpecRMDrivesReadyDevice == Spec => []RMDrivesReadyDevice
<1>1. IInv => RMDrivesReadyDevice
  BY DEF IInv, Memory, Session, Device, RMDrivesReadyDevice, Driven
<1>2. QED
  BY SpecIInv, <1>1, PTL
=============================================================================
