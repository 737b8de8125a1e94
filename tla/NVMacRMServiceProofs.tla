------------------------ MODULE NVMacRMServiceProofs ------------------------
(***************************************************************************)
(* Proofs about NVMacRMService, for every set of instances and devices.    *)
(*                                                                         *)
(* Whatever instances overlap: the types, and Pointers (the global pointer *)
(* dangles only while a free is about to clear it, and a start that got    *)
(* past the open keeps its session).                                       *)
(* As long as instances follow one another: Serial, which says what one    *)
(* instance has taken in each phase of its life.  It is inductive, and the *)
(* properties that kext.cfg checks follow from it.                         *)
(***************************************************************************)
EXTENDS NVMacRMService, TLAPS

-----------------------------------------------------------------------------
(* The inductive invariant *)

Types ==
    /\ phase \in [Instances -> Phases]
    /\ provider \in [Instances -> Devices \cup {NULL}]
    /\ nvd_state \in Instances \cup {NULL}
    /\ state \in [Instances -> States \cup {NULL}]
    /\ nv \in [Instances -> Instances \cup {NULL}]
    /\ session \in [Devices -> Instances \cup {NULL}]
    /\ enabled \subseteq Devices
    /\ retains \in [Devices -> Int]
    /\ panicked \in BOOLEAN /\ overlapped \in BOOLEAN /\ strayed \in BOOLEAN
    /\ \A i \in Instances : phase[i] # "none" => provider[i] \in Devices

\* The device is open for an instance from its open to the end of its start.
SessionHeld ==
    \A i \in Instances : phase[i] \in {"take", "publish", "retain", "fill", "adapter"} =>
       session[provider[i]] = i

Pointers == DanglesOnlyWhileFreeing /\ SessionHeld

Live(i) == phase[i] \notin {"none", "freed"}

\* No state and no retain.
Clean ==
    /\ nvd_state = NULL
    /\ \A i \in Instances : state[i] = NULL
    /\ \A d \in Devices : retains[d] = 0

\* There is neither, whatever the pointer is.
Deleted ==
    /\ \A i \in Instances : state[i] = NULL
    /\ \A d \in Devices : retains[d] = 0

\* There is one state, that of i, with device d in it, and one retain, on r.
Has(i, d, r) ==
    /\ nvd_state = i
    /\ state[i] # NULL /\ state[i].device = d
    /\ \A j \in Instances : j # i => state[j] = NULL
    /\ \A e \in Devices : retains[e] = IF e = r THEN 1 ELSE 0

\* What the code holds for i, the only instance there is, in each phase.
Holds(i) ==
    /\ phase[i] = "init" => Clean
    /\ phase[i] = "check" => Clean \/ Has(i, NULL, NULL)
    /\ phase[i] \in {"start", "open", "take", "publish", "running", "stop"} =>
          Has(i, NULL, NULL)
    /\ phase[i] = "retain" => Has(i, provider[i], NULL)
    /\ phase[i] \in {"fill", "adapter"} => Has(i, provider[i], provider[i])
    /\ phase[i] \in {"publish", "retain", "fill", "adapter"} => nv[i] = i
    /\ phase[i] \in {"take", "publish", "retain", "fill", "adapter"} => provider[i] \in enabled
    /\ phase[i] = "adapter" => state[i].filled = provider[i]
    /\ phase[i] = "free" =>
          Clean \/ \E d \in Devices \cup {NULL} : Has(i, d, d)
    /\ phase[i] = "delete" => \E d \in Devices \cup {NULL} : Has(i, d, NULL)
    /\ phase[i] = "clear" => Deleted
    /\ phase[i] \notin {"close", "bus lead", "memory", "forget"}

Serial ==
    ~overlapped =>
       /\ \A i, j \in Instances : Live(i) /\ Live(j) => i = j
       /\ (\A i \in Instances : ~Live(i)) => Clean
       /\ \A i \in Instances : Live(i) => Holds(i)
       /\ ~strayed
       /\ PanicOnlyAfterFailedInit

IInv == Types /\ Pointers /\ Serial

\* The steps of i that only lead to another phase.
Passes(i) ==
    \/ SuperInitFails(i) \/ CheckState(i) \/ StartReturnsEarly(i) \/ Announce(i)
    \/ OpenFails(i) \/ InitAdapter(i) \/ Terminate(i) \/ CheckDevice(i)

\* Nobody but i is there.
OnlyLive(i) == \A j \in Instances : Live(j) => j = i

-----------------------------------------------------------------------------
(* Types and pointers: any interleaving *)

\* A fresh state exists and names no device.
LEMMA ZeroStateIsState == ZeroState \in States /\ ZeroState # NULL /\ ZeroState.device = NULL
BY NullAssumption DEF ZeroState, States

\* Describing a device in one state leaves its pointer and the other states alone.
LEMMA SetFilled ==
    ASSUME NEW f \in [Instances -> States \cup {NULL}], NEW n \in Instances, f[n] # NULL,
           NEW x \in Devices \cup {NULL}, NEW g, g = [f EXCEPT ![n].filled = x]
    PROVE  /\ g \in [Instances -> States \cup {NULL}]
           /\ g[n] # NULL /\ g[n].filled = x /\ g[n].device = f[n].device
           /\ \A j \in Instances : j # n => g[j] = f[j]
<1>1. f[n] \in States
  OBVIOUS
<1>2. g = [f EXCEPT ![n] = [f[n] EXCEPT !.filled = x]]
  OBVIOUS
<1>3. [f[n] EXCEPT !.filled = x] = [device |-> f[n].device, filled |-> x]
  BY <1>1 DEF States
<1>4. g = [f EXCEPT ![n] = [device |-> f[n].device, filled |-> x]]
  BY <1>2, <1>3
<1>5. g[n] = [device |-> f[n].device, filled |-> x] /\ \A j \in Instances : j # n => g[j] = f[j]
  BY <1>4
<1>6. [device |-> f[n].device, filled |-> x] \in States
  BY <1>1 DEF States
<1>7. QED
  BY <1>4, <1>5, <1>6, NullAssumption

\* The types hold before any instance exists.
LEMMA InitTypes == Init => Types
<1> SUFFICES ASSUME Init PROVE Types
  OBVIOUS
<1>1. phase \in [Instances -> Phases]
  BY DEF Init, Phases
<1>2. /\ provider \in [Instances -> Devices \cup {NULL}]
      /\ state \in [Instances -> States \cup {NULL}]
      /\ nv \in [Instances -> Instances \cup {NULL}]
      /\ session \in [Devices -> Instances \cup {NULL}]
  BY DEF Init
<1>3. retains \in [Devices -> Int]
  BY DEF Init
<1>4. \A i \in Instances : phase[i] = "none"
  BY DEF Init
<1>5. nvd_state \in Instances \cup {NULL} /\ enabled \subseteq Devices
  BY DEF Init
<1>6. panicked \in BOOLEAN /\ overlapped \in BOOLEAN /\ strayed \in BOOLEAN
  BY DEF Init
<1>7. QED
  BY <1>1, <1>2, <1>3, <1>4, <1>5, <1>6 DEF Types

\* No step of any instance breaks the types.
LEMMA TypesStep ==
    ASSUME Types, [Next]_vars
    PROVE  Types'
<1> USE DEF Types
<1>1. CASE UNCHANGED vars
  BY <1>1 DEF vars
<1>2. ASSUME NEW i \in Instances, NEW d \in Devices, Create(i, d)
      PROVE  Types'
  BY <1>2 DEF Create, Goto, memory, pci, Phases
<1>3. ASSUME NEW i \in Instances, AllocState(i)
      PROVE  Types'
  <2>1. state' \in [Instances -> States \cup {NULL}] /\ nvd_state' \in Instances \cup {NULL}
    BY <1>3, ZeroStateIsState DEF AllocState
  <2>2. QED
    BY <1>3, <2>1 DEF AllocState, Goto, pci, history, Phases
<1>4. ASSUME NEW i \in Instances, Passes(i)
      PROVE  Types'
  <2>1. /\ UNCHANGED <<provider, memory, pci, panicked, history>>
        /\ phase' \in [Instances -> Phases]
        /\ \A j \in Instances : phase'[j] = "none" <=> phase[j] = "none"
    BY <1>4 DEF Passes, SuperInitFails, CheckState, StartReturnsEarly, Announce, OpenFails,
       InitAdapter, Terminate, CheckDevice, Goto, Phases
  <2>2. QED
    BY <2>1 DEF memory, pci, history
<1>5. ASSUME NEW i \in Instances, ReleaseDevice(i) \/ DeleteState(i) \/ ClearPointer(i)
      PROVE  Types'
  <2>1. CASE ReleaseDevice(i)
    <3>1. phase' \in [Instances -> Phases] /\ \A j \in Instances :
             phase'[j] # "none" => phase[j] # "none"
      BY <2>1 DEF ReleaseDevice, Goto, Phases
    <3>2. retains' \in [Devices -> Int]
      BY <2>1 DEF ReleaseDevice
    <3>3. QED
      BY <2>1, <3>1, <3>2 DEF ReleaseDevice, memory, history
  <2>2. CASE DeleteState(i)
    <3>1. phase' \in [Instances -> Phases]
      BY <2>2 DEF DeleteState, Goto, Phases
    <3>2. state' \in [Instances -> States \cup {NULL}]
      BY <2>2 DEF DeleteState
    <3>3. \A j \in Instances : phase'[j] # "none" => phase[j] # "none"
      BY <2>2 DEF DeleteState, Goto
    <3>4. QED
      BY <2>2, <3>1, <3>2, <3>3 DEF DeleteState, pci, history
  <2>3. CASE ClearPointer(i)
    BY <2>3 DEF ClearPointer, Goto, pci, history, Phases
  <2>4. QED
    BY <1>5, <2>1, <2>2, <2>3
<1>6. ASSUME NEW i \in Instances, OpenDevice(i)
      PROVE  Types'
  BY <1>6 DEF OpenDevice, Goto, memory, history, Phases
<1>7. ASSUME NEW i \in Instances, PublishDevice(i)
      PROVE  Types'
  <2>1. provider[i] \in Devices /\ state[nvd_state] \in States /\ nvd_state \in Instances
    BY <1>7 DEF PublishDevice, Valid, Goto
  <2>2. [state[nvd_state] EXCEPT !.device = provider[i]] \in States
    BY <2>1 DEF States
  <2>3. state' \in [Instances -> States \cup {NULL}]
    BY <1>7, <2>1, <2>2 DEF PublishDevice
  <2>4. QED
    BY <1>7, <2>1, <2>3 DEF PublishDevice, Goto, pci, history, Phases
<1>8. ASSUME NEW i \in Instances, RetainDevice(i)
      PROVE  Types'
  <2>1. GlobalDevice \in Devices
    BY <1>8 DEF RetainDevice, Valid, GlobalDevice, States
  <2>2. phase' \in [Instances -> Phases] /\ \A j \in Instances :
           phase'[j] # "none" => phase[j] # "none"
    BY <1>8 DEF RetainDevice, Goto, Phases
  <2>3. retains' \in [Devices -> Int]
    BY <1>8, <2>1 DEF RetainDevice
  <2>4. QED
    BY <1>8, <2>2, <2>3 DEF RetainDevice, memory, history
<1>9. ASSUME NEW i \in Instances, FillState(i)
      PROVE  Types'
  <2>1. provider[i] \in Devices /\ state[nv[i]] \in States /\ nv[i] \in Instances
    BY <1>9 DEF FillState, Valid, Goto
  <2>2. [state[nv[i]] EXCEPT !.filled = provider[i]] \in States
    BY <2>1 DEF States
  <2>3. state' \in [Instances -> States \cup {NULL}]
    BY <1>9, <2>1, <2>2 DEF FillState
  <2>4. QED
    BY <1>9, <2>1, <2>3 DEF FillState, Goto, pci, history, Phases
<1>10. ASSUME NEW i \in Instances, RMAccessesConfig(i)
       PROVE  Types'
  BY <1>10 DEF RMAccessesConfig, memory, pci
<1>11. ASSUME NEW i \in Instances, ForgetDevice(i)
       PROVE  Types'
  <2>1. state[nvd_state] \in States /\ nvd_state \in Instances
    BY <1>11 DEF ForgetDevice, Valid
  <2>2. [state[nvd_state] EXCEPT !.device = NULL] \in States
    BY <2>1 DEF States
  <2>3. state' \in [Instances -> States \cup {NULL}]
    BY <1>11, <2>1, <2>2 DEF ForgetDevice
  <2>4. QED
    BY <1>11, <2>1, <2>3 DEF ForgetDevice, Goto, pci, history, Phases
<1>12. ASSUME NEW i \in Instances, Faults(i)
       PROVE  Types'
  BY <1>12 DEF Faults, GlobalFaults, DeleteFaults, LocalFaults, Panic, memory, pci, history
<1>13. ASSUME NEW i \in Instances, CloseDevice(i)
       PROVE  Types'
  BY <1>13 DEF CloseDevice, Goto, memory, history, Phases
<1>14. ASSUME NEW i \in Instances, DisableDevice(i)
       PROVE  Types'
  BY <1>14 DEF DisableDevice, Goto, memory, history, Phases
<1>15. ASSUME NEW i \in Instances, TakeState(i)
       PROVE  Types'
  BY <1>15 DEF TakeState, Goto, pci, history, Phases
<1>16. QED
  BY <1>1, <1>2, <1>3, <1>4, <1>5, <1>6, <1>7, <1>8, <1>9, <1>10, <1>11, <1>12, <1>13,
     <1>14, <1>15
  DEF Next, Step, Passes

\* However instances overlap, only a free that is going to clear the global pointer
\* leaves it at a deleted state.
LEMMA PointersStep ==
    ASSUME Types, Pointers, [Next]_vars
    PROVE  Pointers'
<1> USE DEF Types, Pointers, DanglesOnlyWhileFreeing, SessionHeld
<1>1. CASE UNCHANGED vars
  BY <1>1 DEF vars
<1>2. ASSUME NEW i \in Instances, NEW d \in Devices, Create(i, d)
      PROVE  Pointers'
  BY <1>2 DEF Create, Goto, memory, pci
<1>3. ASSUME NEW i \in Instances, AllocState(i)
      PROVE  Pointers'
  <2>1. SessionHeld'
    BY <1>3 DEF AllocState, Goto, pci
  <2>2. CASE nvd_state' = NULL
    BY <2>1, <2>2
  <2>3. CASE nvd_state' = i /\ state' = [state EXCEPT ![i] = ZeroState]
    BY <2>1, <2>3, ZeroStateIsState
  <2>4. QED
    BY <1>3, <2>2, <2>3 DEF AllocState
<1>4. ASSUME NEW i \in Instances, Passes(i)
      PROVE  Pointers'
  <2>1. /\ UNCHANGED <<provider, memory, pci>>
        /\ \A j \in Instances : phase[j] = "clear" => phase'[j] = "clear"
        /\ \A j \in Instances : phase'[j] \in {"take", "publish", "retain", "fill", "adapter"}
              => phase[j] = phase'[j]
    BY <1>4 DEF Passes, SuperInitFails, CheckState, StartReturnsEarly, Announce, OpenFails,
       InitAdapter, Terminate, CheckDevice, Goto
  <2>2. QED
    BY <2>1 DEF memory, pci
<1>5. ASSUME NEW i \in Instances, ReleaseDevice(i) \/ DeleteState(i) \/ ClearPointer(i)
      PROVE  Pointers'
  <2>1. CASE ReleaseDevice(i)
    BY <2>1 DEF ReleaseDevice, Goto, memory
  <2>2. CASE DeleteState(i)
    <3>1. SessionHeld'
      BY <2>2 DEF DeleteState, Goto, pci
    <3>2. CASE nvd_state = NULL
      BY <2>2, <3>1, <3>2 DEF DeleteState
    <3>3. CASE nvd_state # NULL
      <4>1. phase'[i] = "clear"
        BY <2>2, <3>3 DEF DeleteState, Goto
      <4>2. QED
        BY <3>1, <4>1
    <3>4. QED
      BY <3>2, <3>3
  <2>3. CASE ClearPointer(i)
    BY <2>3 DEF ClearPointer, Goto, pci
  <2>4. QED
    BY <1>5, <2>1, <2>2, <2>3
<1>6. ASSUME NEW i \in Instances, OpenDevice(i)
      PROVE  Pointers'
  <2>1. provider[i] \in Devices /\ i # NULL
    BY <1>6, NullAssumption DEF OpenDevice, Goto
  <2>2. ASSUME NEW j \in Instances, phase'[j] \in {"take", "publish", "retain", "fill", "adapter"}
        PROVE  session'[provider'[j]] = j
    <3>1. CASE j = i
      BY <1>6, <2>1, <3>1 DEF OpenDevice, Goto
    <3>2. CASE j # i
      <4>1. session[provider[j]] = j /\ j # NULL /\ provider[j] \in Devices
        BY <1>6, <2>2, <3>2, NullAssumption DEF OpenDevice, Goto
      <4>2. provider[j] # provider[i]
        BY <1>6, <4>1 DEF OpenDevice
      <4>3. QED
        BY <1>6, <4>1, <4>2 DEF OpenDevice
    <3>3. QED
      BY <3>1, <3>2
  <2>3. DanglesOnlyWhileFreeing'
    BY <1>6 DEF OpenDevice, Goto, memory
  <2>4. QED
    BY <2>2, <2>3
<1>7. ASSUME NEW i \in Instances, PublishDevice(i)
      PROVE  Pointers'
  <2>1. provider[i] \in Devices /\ state[nvd_state] # NULL /\ nvd_state \in Instances
    BY <1>7 DEF PublishDevice, Valid, Goto
  <2>2. state' = [state EXCEPT ![nvd_state].device = provider[i]]
    BY <1>7 DEF PublishDevice
  <2>3. state'[nvd_state] # NULL
    <3>1. state \in [Instances -> States \cup {NULL}]
      OBVIOUS
    <3>2. state[nvd_state] \in States
      BY <2>1, <3>1
    <3>3. state'[nvd_state] = [state[nvd_state] EXCEPT !.device = provider[i]]
      BY <2>1, <2>2, <3>1
    <3>4. state'[nvd_state] = [device |-> provider[i], filled |-> state[nvd_state].filled]
      BY <3>2, <3>3 DEF States
    <3>5. [device |-> provider[i], filled |-> state[nvd_state].filled] \in States
      BY <2>1, <3>2 DEF States
    <3>6. QED
      BY <3>4, <3>5, NullAssumption
  <2>4. SessionHeld'
    BY <1>7 DEF PublishDevice, Goto, pci
  <2>5. QED
    BY <1>7, <2>3, <2>4 DEF PublishDevice, Goto
<1>8. ASSUME NEW i \in Instances, RetainDevice(i)
      PROVE  Pointers'
  BY <1>8 DEF RetainDevice, Goto, memory
<1>9. ASSUME NEW i \in Instances, FillState(i)
      PROVE  Pointers'
  <2>1. provider[i] \in Devices /\ state[nv[i]] # NULL /\ nv[i] \in Instances
    BY <1>9 DEF FillState, Valid, Goto
  <2>2. state' = [state EXCEPT ![nv[i]].filled = provider[i]]
    BY <1>9 DEF FillState
  <2>3. state'[nv[i]] # NULL
    <3>1. state \in [Instances -> States \cup {NULL}]
      OBVIOUS
    <3>2. state[nv[i]] \in States
      BY <2>1, <3>1
    <3>3. state'[nv[i]] = [state[nv[i]] EXCEPT !.filled = provider[i]]
      BY <2>1, <2>2, <3>1
    <3>4. state'[nv[i]] = [device |-> state[nv[i]].device, filled |-> provider[i]]
      BY <3>2, <3>3 DEF States
    <3>5. [device |-> state[nv[i]].device, filled |-> provider[i]] \in States
      BY <2>1, <3>2 DEF States
    <3>6. QED
      BY <3>4, <3>5, NullAssumption
  <2>4. SessionHeld'
    BY <1>9 DEF FillState, Goto, pci
  <2>5. \A j \in Instances : j # nv[i] => state'[j] = state[j]
    BY <2>2
  <2>6. QED
    BY <1>9, <2>3, <2>4, <2>5 DEF FillState, Goto
<1>10. ASSUME NEW i \in Instances, RMAccessesConfig(i)
       PROVE  Pointers'
  BY <1>10 DEF RMAccessesConfig, memory, pci
<1>11. ASSUME NEW i \in Instances, ForgetDevice(i)
       PROVE  Pointers'
  <2>1. state[nvd_state] # NULL /\ nvd_state \in Instances
    BY <1>11 DEF ForgetDevice, Valid
  <2>2. state' = [state EXCEPT ![nvd_state].device = NULL]
    BY <1>11 DEF ForgetDevice
  <2>3. state'[nvd_state] # NULL
    <3>1. state \in [Instances -> States \cup {NULL}]
      OBVIOUS
    <3>2. state[nvd_state] \in States
      BY <2>1, <3>1
    <3>3. state'[nvd_state] = [state[nvd_state] EXCEPT !.device = NULL]
      BY <2>1, <2>2, <3>1
    <3>4. state'[nvd_state] = [device |-> NULL, filled |-> state[nvd_state].filled]
      BY <3>2, <3>3 DEF States
    <3>5. [device |-> NULL, filled |-> state[nvd_state].filled] \in States
      BY <2>1, <3>2 DEF States
    <3>6. QED
      BY <3>4, <3>5, NullAssumption
  <2>4. DanglesOnlyWhileFreeing'
    BY <1>11, <2>3 DEF ForgetDevice
  <2>5. SessionHeld'
    BY <1>11 DEF ForgetDevice, Goto, pci
  <2>6. QED
    BY <2>4, <2>5
<1>12. ASSUME NEW i \in Instances, Faults(i)
       PROVE  Pointers'
  BY <1>12 DEF Faults, GlobalFaults, DeleteFaults, LocalFaults, Panic, memory, pci
<1>13. ASSUME NEW i \in Instances, CloseDevice(i)
       PROVE  Pointers'
  <2>1. GlobalDevice \in Devices /\ phase[i] = "close" /\ phase'[i] = "bus lead"
    BY <1>13 DEF CloseDevice, Valid, GlobalDevice, States, Goto
  <2>2. ASSUME NEW j \in Instances, phase'[j] \in {"take", "publish", "retain", "fill", "adapter"}
        PROVE  session'[provider'[j]] = j
    <3>1. j # i /\ phase[j] = phase'[j]
      BY <1>13, <2>1, <2>2 DEF CloseDevice, Goto
    <3>2. session[provider[j]] = j /\ provider[j] \in Devices
      BY <2>2, <3>1
    <3>3. QED
      BY <1>13, <2>1, <3>1, <3>2 DEF CloseDevice
  <2>3. DanglesOnlyWhileFreeing'
    BY <1>13 DEF CloseDevice, Goto, memory
  <2>4. QED
    BY <2>2, <2>3
<1>14. ASSUME NEW i \in Instances, DisableDevice(i)
       PROVE  Pointers'
  BY <1>14 DEF DisableDevice, Goto, memory
<1>15. ASSUME NEW i \in Instances, TakeState(i)
       PROVE  Pointers'
  BY <1>15 DEF TakeState, Goto, pci
<1>16. QED
  BY <1>1, <1>2, <1>3, <1>4, <1>5, <1>6, <1>7, <1>8, <1>9, <1>10, <1>11, <1>12, <1>13,
     <1>14, <1>15
  DEF Next, Step, Passes

-----------------------------------------------------------------------------
(* Serial: instances that follow one another *)

\* With no instance there is no state, session or retain.
LEMMA InitSerial == Init => Pointers /\ Serial
BY DEF Init, Pointers, DanglesOnlyWhileFreeing, SessionHeld, Serial, Live, Clean,
   PanicOnlyAfterFailedInit

\* With at most one instance i, Serial is what i holds, or that nothing is held.
LEMMA SerialFromOne ==
    ASSUME NEW i \in Instances, OnlyLive(i)', Live(i)' => Holds(i)', ~Live(i)' => Clean',
           ~strayed', PanicOnlyAfterFailedInit'
    PROVE  Serial'
BY DEF Serial, OnlyLive

\* What Serial says when i acts.
LEMMA SerialOfActor ==
    ASSUME Serial, ~overlapped, NEW i \in Instances, Live(i)
    PROVE  OnlyLive(i) /\ Holds(i) /\ ~strayed
BY DEF Serial, OnlyLive

\* As long as instances follow one another, each step takes and gives up what Holds
\* says of the phase it leads to.
LEMMA SerialStep ==
    ASSUME IInv, [Next]_vars
    PROVE  Serial'
<1> USE DEF IInv, Types, Pointers
<1>1. CASE UNCHANGED vars
  <2>1. /\ UNCHANGED <<phase, provider, nvd_state, state, nv, retains, enabled, panicked>>
        /\ UNCHANGED <<overlapped, strayed>>
    BY <1>1 DEF vars
  <2>2. /\ Clean' <=> Clean
        /\ Deleted' <=> Deleted
        /\ \A i \in Instances : Live(i)' <=> Live(i)
        /\ \A i \in Instances, d, r \in Devices \cup {NULL} : Has(i, d, r)' <=> Has(i, d, r)
    BY <2>1 DEF Clean, Deleted, Live, Has
  <2>3. PanicOnlyAfterFailedInit' <=> PanicOnlyAfterFailedInit
    BY <2>1 DEF PanicOnlyAfterFailedInit
  <2>4. ASSUME NEW i \in Instances, Live(i), Holds(i)
        PROVE  Holds(i)'
    <3>1. provider[i] \in Devices
      BY <2>4 DEF Live
    <3>2. QED
      BY <2>1, <2>2, <2>4, <3>1 DEF Holds
  <2>5. QED
    BY <2>1, <2>2, <2>3, <2>4 DEF Serial
<1>2. ASSUME NEW i \in Instances, NEW d \in Devices, Create(i, d), ~panicked
      PROVE  Serial'
  <2>1. SUFFICES ASSUME ~overlapped'
        PROVE  Serial'
    BY DEF Serial
  <2>2. ~overlapped /\ \A j \in Instances : ~Live(j)
    BY <1>2, <2>1 DEF Create, Live
  <2>3. Clean /\ ~strayed
    BY <2>2 DEF Serial
  <2>4. phase'[i] = "init" /\ \A j \in Instances : j # i => phase'[j] = phase[j]
    BY <1>2 DEF Create, Goto
  <2>5. OnlyLive(i)'
    BY <2>2, <2>4 DEF OnlyLive, Live
  <2>6. Clean'
    BY <1>2, <2>3 DEF Create, Clean, memory, pci
  <2>7. Holds(i)'
    BY <2>4, <2>6 DEF Holds
  <2>8. ~strayed' /\ PanicOnlyAfterFailedInit'
    BY <1>2, <2>3 DEF Create, PanicOnlyAfterFailedInit
  <2>9. QED
    BY <2>5, <2>6, <2>7, <2>8, SerialFromOne
<1>3. ASSUME NEW i \in Instances, ~panicked,
             Step(i) \/ Faults(i),
             \A d \in Devices : ~Create(i, d)
      PROVE  Serial'
  <2>1. SUFFICES ASSUME ~overlapped'
        PROVE  Serial'
    BY DEF Serial
  <2>2. ~overlapped
    BY <1>3, <2>1 DEF Step, SuperInitFails, AllocState, CheckState, ReleaseDevice, DeleteState,
       ClearPointer, StartReturnsEarly, Announce, OpenFails, OpenDevice, TakeState,
       PublishDevice, RetainDevice, FillState, RMAccessesConfig, InitAdapter, CheckDevice,
       CloseDevice, DisableDevice, ForgetDevice, Terminate, Faults, GlobalFaults,
       DeleteFaults, LocalFaults, Panic, history
  <2>3. Live(i)
    BY <1>3 DEF Step, SuperInitFails, AllocState, CheckState, ReleaseDevice, DeleteState,
       ClearPointer, StartReturnsEarly, Announce, OpenFails, OpenDevice, TakeState,
       PublishDevice, RetainDevice, FillState, RMAccessesConfig, InitAdapter, CheckDevice,
       CloseDevice, DisableDevice, ForgetDevice, Terminate, Faults, GlobalFaults,
       DeleteFaults, LocalFaults, Panic, Goto, Live
  <2>4. OnlyLive(i) /\ Holds(i) /\ ~strayed
    BY <1>3, <2>2, <2>3, SerialOfActor
  <2>5. NULL \notin Devices /\ \A j \in Instances : j # NULL
    BY NullAssumption
  <2>6. OnlyLive(i)'
    BY <1>3, <2>4 DEF Step, SuperInitFails, AllocState, CheckState, ReleaseDevice, DeleteState,
       ClearPointer, StartReturnsEarly, Announce, OpenFails, OpenDevice, TakeState,
       PublishDevice, RetainDevice, FillState, RMAccessesConfig, InitAdapter, CheckDevice,
       CloseDevice, DisableDevice, ForgetDevice, Terminate, Faults, GlobalFaults,
       DeleteFaults, LocalFaults, Panic, Goto, OnlyLive, Live
  <2> SUFFICES /\ Live(i)' => Holds(i)'
               /\ ~Live(i)' => Clean'
               /\ ~strayed'
               /\ PanicOnlyAfterFailedInit'
    BY <2>6, SerialFromOne
  <2>7. CASE AllocState(i)
    <3>1. phase'[i] = "check" /\ phase[i] = "init"
      BY <2>7 DEF AllocState, Goto
    <3>2. Clean
      BY <2>4, <3>1 DEF Holds
    <3>3. Clean' \/ Has(i, NULL, NULL)'
      BY <2>5, <2>7, <3>2, ZeroStateIsState DEF AllocState, Clean, Has, pci
    <3>4. QED
      BY <1>3, <2>4, <2>7, <3>1, <3>3
      DEF Holds, Live, AllocState, history, PanicOnlyAfterFailedInit
  <2>8. CASE SuperInitFails(i) \/ CheckState(i)
    <3>1. /\ phase[i] \in {"init", "check"}
          /\ phase'[i] = IF phase[i] = "init" \/ nvd_state = NULL THEN "free" ELSE "start"
          /\ UNCHANGED <<provider, memory, pci, panicked, history>>
      BY <2>8 DEF SuperInitFails, CheckState, Goto
    <3>2. Clean \/ (Has(i, NULL, NULL) /\ phase[i] = "check")
      BY <2>4, <3>1 DEF Holds
    <3>3. phase'[i] = "start" => Has(i, NULL, NULL)'
      BY <3>1, <3>2 DEF Clean, Has, memory, pci
    <3>4. phase'[i] = "free" => Clean'
      BY <2>5, <3>1, <3>2 DEF Clean, Has, memory, pci
    <3>5. QED
      BY <1>3, <2>4, <3>1, <3>3, <3>4 DEF Holds, Live, history, PanicOnlyAfterFailedInit
  <2>9. CASE ReleaseDevice(i)
    <3>1. /\ phase'[i] = "delete" /\ phase[i] = "free" /\ nvd_state # NULL
          /\ UNCHANGED <<provider, memory, session, enabled, panicked, history>>
      BY <2>9 DEF ReleaseDevice, Goto, Valid
    <3>2. PICK d \in Devices \cup {NULL} : Has(i, d, d)
      BY <2>4, <3>1 DEF Holds, Clean
    <3>3. GlobalDevice = d
      BY <3>2 DEF Has, GlobalDevice
    <3>4. \A e \in Devices : retains'[e] = 0
      BY <2>5, <2>9, <3>2, <3>3 DEF ReleaseDevice, Has
    <3>5. Has(i, d, NULL)'
      BY <2>5, <3>1, <3>2, <3>4 DEF Has, memory
    <3>6. QED
      BY <1>3, <2>4, <3>1, <3>5 DEF Holds, Live, history, PanicOnlyAfterFailedInit
  <2>20. CASE DeleteState(i)
    <3>1. /\ phase[i] = "delete" /\ phase'[i] \in {"freed", "clear"}
          /\ UNCHANGED <<provider, nvd_state, nv, pci, panicked, history>>
          /\ phase'[i] = IF nvd_state = NULL THEN "freed" ELSE "clear"
      BY <2>20 DEF DeleteState, Goto
    <3>2. PICK d \in Devices \cup {NULL} : Has(i, d, NULL)
      BY <2>4, <3>1 DEF Holds
    <3>3. phase'[i] = "clear"
      BY <2>5, <3>1, <3>2 DEF Has
    <3>4. Deleted'
      BY <2>5, <2>20, <3>1, <3>2 DEF DeleteState, Deleted, Has, pci
    <3>5. QED
      BY <1>3, <2>4, <3>1, <3>3, <3>4 DEF Holds, Live, history, PanicOnlyAfterFailedInit
  <2>21. CASE ClearPointer(i)
    <3>1. /\ phase[i] = "clear" /\ phase'[i] = "freed" /\ nvd_state' = NULL
          /\ UNCHANGED <<provider, state, nv, pci, panicked, history>>
      BY <2>21 DEF ClearPointer, Goto
    <3>2. Deleted
      BY <2>4, <3>1 DEF Holds
    <3>3. Clean'
      BY <3>1, <3>2 DEF Clean, Deleted, pci
    <3>4. QED
      BY <1>3, <2>4, <3>1, <3>3 DEF Live, history, PanicOnlyAfterFailedInit
  <2>22. CASE TakeState(i)
    <3>1. /\ phase[i] = "take" /\ phase'[i] = "publish"
          /\ nv' = [nv EXCEPT ![i] = nvd_state]
          /\ UNCHANGED <<provider, nvd_state, state, pci, panicked, history>>
      BY <2>22 DEF TakeState, Goto
    <3>2. Has(i, NULL, NULL) /\ provider[i] \in enabled
      BY <2>4, <3>1 DEF Holds
    <3>3. Has(i, NULL, NULL)' /\ nv'[i] = i
      BY <3>1, <3>2 DEF Has, pci
    <3>4. QED
      BY <1>3, <2>4, <3>1, <3>2, <3>3 DEF Holds, Live, pci, history, PanicOnlyAfterFailedInit
  <2>10. CASE StartReturnsEarly(i) \/ Announce(i) \/ OpenFails(i) \/ Terminate(i)
    <3>1. /\ phase'[i] \in {"open", "running", "stop"}
          /\ phase[i] \in {"start", "open", "running"}
          /\ UNCHANGED <<provider, memory, pci, history>> /\ panicked' = panicked
      BY <2>10 DEF StartReturnsEarly, Announce, OpenFails, Terminate, Goto, history
    <3>2. Has(i, NULL, NULL)
      BY <2>4, <3>1 DEF Holds
    <3>3. Has(i, NULL, NULL)'
      BY <3>1, <3>2 DEF Has, memory, pci
    <3>4. QED
      BY <1>3, <2>4, <3>1, <3>3 DEF Holds, Live, history, PanicOnlyAfterFailedInit
  <2>11. CASE OpenDevice(i)
    <3>1. /\ phase'[i] = "take" /\ phase[i] = "open"
          /\ UNCHANGED <<provider, memory, retains, panicked, history>>
          /\ provider[i] \in enabled'
      BY <2>11 DEF OpenDevice, Goto
    <3>2. Has(i, NULL, NULL)'
      BY <2>4, <3>1 DEF Holds, Has, memory
    <3>3. QED
      BY <1>3, <2>4, <3>1, <3>2 DEF Holds, Live, history, PanicOnlyAfterFailedInit
  <2>12. CASE PublishDevice(i)
    <3>1. /\ phase'[i] = "retain" /\ phase[i] = "publish"
          /\ state' = [state EXCEPT ![nvd_state].device = provider[i]]
          /\ UNCHANGED <<provider, nvd_state, nv, pci, panicked, history>>
          /\ provider[i] \in Devices
      BY <2>12 DEF PublishDevice, Goto
    <3>2. Has(i, NULL, NULL) /\ nv[i] = i /\ provider[i] \in enabled
      BY <2>4, <3>1 DEF Holds
    <3>3. nvd_state = i /\ state[i] # NULL
      BY <3>2 DEF Has
    <3>4. /\ state'[i] # NULL /\ state'[i].device = provider[i]
          /\ \A j \in Instances : j # i => state'[j] = state[j]
      <4>1. state[i] \in States
        BY <3>3
      <4>2. /\ state'[i] = [state[i] EXCEPT !.device = provider[i]]
            /\ \A j \in Instances : j # i => state'[j] = state[j]
        BY <3>1, <3>3
      <4>3. state'[i] = [device |-> provider[i], filled |-> state[i].filled]
        BY <4>1, <4>2 DEF States
      <4>4. [device |-> provider[i], filled |-> state[i].filled] \in States
        BY <3>1, <4>1 DEF States
      <4>5. QED
        BY <4>2, <4>3, <4>4, NullAssumption
    <3>5. Has(i, provider[i], NULL)' /\ nv'[i] = i
      BY <3>1, <3>2, <3>3, <3>4 DEF Has, pci
    <3>6. QED
      BY <1>3, <2>4, <3>1, <3>2, <3>5 DEF Holds, Live, pci, history, PanicOnlyAfterFailedInit
  <2>13. CASE RetainDevice(i)
    <3>1. /\ phase'[i] = "fill" /\ phase[i] = "retain"
          /\ retains' = [retains EXCEPT ![GlobalDevice] = @ + 1]
          /\ UNCHANGED <<provider, memory, session, enabled, panicked, history>>
          /\ provider[i] \in Devices
      BY <2>13 DEF RetainDevice, Goto
    <3>2. Has(i, provider[i], NULL) /\ nv[i] = i /\ provider[i] \in enabled
      BY <2>4, <3>1 DEF Holds
    <3>3. GlobalDevice = provider[i]
      BY <3>2 DEF Has, GlobalDevice
    <3>4. \A e \in Devices : retains'[e] = IF e = provider[i] THEN 1 ELSE 0
      BY <2>5, <3>1, <3>2, <3>3 DEF Has
    <3>5. Has(i, provider[i], provider[i])'
      BY <3>1, <3>2, <3>4 DEF Has, memory
    <3>6. QED
      BY <1>3, <2>4, <3>1, <3>2, <3>5 DEF Holds, Live, memory, history,
         PanicOnlyAfterFailedInit
  <2>14. CASE FillState(i)
    <3>1. /\ phase'[i] = "adapter" /\ phase[i] = "fill"
          /\ state' = [state EXCEPT ![nv[i]].filled = provider[i]]
          /\ UNCHANGED <<provider, nvd_state, nv, pci, panicked, history>>
          /\ provider[i] \in Devices
      BY <2>14 DEF FillState, Goto
    <3>2. Has(i, provider[i], provider[i]) /\ nv[i] = i /\ provider[i] \in enabled
      BY <2>4, <3>1 DEF Holds
    <3>3. state[i] # NULL
      BY <3>2 DEF Has
    <3>4. /\ state'[i] # NULL /\ state'[i].filled = provider[i]
          /\ state'[i].device = state[i].device
          /\ \A j \in Instances : j # i => state'[j] = state[j]
      BY <3>1, <3>2, <3>3, SetFilled
    <3>5. Has(i, provider[i], provider[i])'
      BY <3>1, <3>2, <3>4 DEF Has, pci
    <3>6. QED
      BY <1>3, <2>4, <3>1, <3>2, <3>4, <3>5 DEF Holds, Live, pci, history,
         PanicOnlyAfterFailedInit
  <2>15. CASE RMAccessesConfig(i)
    <3>1. /\ phase'[i] = "adapter" /\ phase[i] = "adapter"
          /\ UNCHANGED <<phase, provider, memory, pci, panicked>>
      BY <2>15 DEF RMAccessesConfig
    <3>2. GlobalDevice = provider[i]
      BY <2>4, <3>1 DEF Holds, Has, GlobalDevice
    <3>3. ~strayed'
      BY <2>4, <2>15, <3>2 DEF RMAccessesConfig
    <3>4. Holds(i)'
      BY <2>4, <3>1 DEF Holds, Has, memory, pci
    <3>5. QED
      BY <1>3, <3>1, <3>3, <3>4 DEF Live, PanicOnlyAfterFailedInit
  <2>16. CASE InitAdapter(i)
    <3>1. /\ phase'[i] = "free" /\ phase[i] = "adapter"
          /\ UNCHANGED <<provider, memory, pci, panicked, history>>
          /\ provider[i] \in Devices
      BY <2>16 DEF InitAdapter, Goto
    <3>2. Has(i, provider[i], provider[i])
      BY <2>4, <3>1 DEF Holds
    <3>3. Has(i, provider[i], provider[i])'
      BY <3>1, <3>2 DEF Has, memory, pci
    <3>4. \E d \in Devices \cup {NULL} : Has(i, d, d)'
      BY <3>1, <3>3
    <3>5. QED
      BY <1>3, <2>4, <3>1, <3>4 DEF Holds, Live, history, PanicOnlyAfterFailedInit
  <2>17. CASE CheckDevice(i)
    <3>1. /\ phase[i] = "stop" /\ phase'[i] = IF GlobalDevice = NULL THEN "free" ELSE "close"
          /\ UNCHANGED <<provider, memory, pci, panicked, history>>
      BY <2>17 DEF CheckDevice, Goto
    <3>2. Has(i, NULL, NULL)
      BY <2>4, <3>1 DEF Holds
    <3>3. phase'[i] = "free"
      BY <3>1, <3>2 DEF Has, GlobalDevice
    <3>4. Has(i, NULL, NULL)'
      BY <3>1, <3>2 DEF Has, memory, pci
    <3>5. QED
      BY <1>3, <2>4, <3>1, <3>3, <3>4 DEF Holds, Live, history, PanicOnlyAfterFailedInit
  <2>18. CASE CloseDevice(i) \/ DisableDevice(i) \/ ForgetDevice(i)
    <3>1. phase[i] \in {"close", "bus lead", "memory", "forget"}
      BY <2>18 DEF CloseDevice, DisableDevice, ForgetDevice, Goto
    <3>2. QED
      BY <2>4, <3>1 DEF Holds
  <2>19. CASE Faults(i)
    <3>1. UNCHANGED <<phase, provider, memory, pci, history>>
      BY <2>19 DEF Faults, GlobalFaults, DeleteFaults, LocalFaults, Panic
    <3>2. phase[i] \notin {"close", "bus lead", "memory", "forget"}
      BY <2>4 DEF Holds
    <3>3. Has(i, NULL, NULL) => Valid(nvd_state)
      BY <2>5 DEF Has, Valid
    <3>4. \A d \in Devices \cup {NULL}, r \in Devices \cup {NULL} :
             Has(i, d, r) => Valid(nvd_state) /\ nvd_state = i /\ GlobalDevice = d
      BY <2>5 DEF Has, Valid, GlobalDevice
    <3>5. ~DeleteFaults(i)
      BY <2>4, <3>4 DEF DeleteFaults, Panic, Holds
    <3>6. phase[i] \in {"retain", "fill", "adapter"} =>
             Valid(nvd_state) /\ nvd_state = nv[i] /\ GlobalDevice = provider[i]
                /\ provider[i] \in Devices
      BY <2>4, <3>4 DEF Holds
    <3>7. phase[i] = "free" /\ nvd_state = NULL
      <4>1. CASE GlobalFaults(i)
        BY <2>4, <2>5, <3>2, <3>3, <3>4, <3>6, <4>1 DEF GlobalFaults, Panic, Holds, Clean
      <4>2. CASE LocalFaults(i)
        BY <3>6, <4>2 DEF LocalFaults, Panic
      <4>3. QED
        BY <2>19, <3>5, <4>1, <4>2 DEF Faults
    <3>8. Holds(i)'
      BY <2>4, <3>1 DEF Holds, Has, Clean, Deleted, memory, pci
    <3>9. QED
      BY <2>4, <3>1, <3>7, <3>8 DEF Live, memory, history, PanicOnlyAfterFailedInit
  <2>23. QED
    BY <1>3, <2>7, <2>8, <2>9, <2>10, <2>11, <2>12, <2>13, <2>14, <2>15, <2>16, <2>17, <2>18,
       <2>19, <2>20, <2>21, <2>22
    DEF Step
<1>4. QED
  BY <1>1, <1>2, <1>3 DEF Next, Step

\* The three parts hold in every reachable state.
LEMMA SpecIInv == Spec => []IInv
<1>1. Init => IInv
  BY InitTypes, InitSerial DEF IInv
<1>2. IInv /\ [Next]_vars => IInv'
  BY TypesStep, PointersStep, SerialStep DEF IInv
<1>3. QED
  BY <1>1, <1>2, PTL DEF Spec

-----------------------------------------------------------------------------
(* Theorems *)

\* With any number of instances and devices, in any interleaving, the variables
\* have their types, and one instance at a time never takes a second retain.
THEOREM SpecTypeOK == Spec => []TypeOK
<1>1. IInv => TypeOK
  <2> SUFFICES ASSUME IInv PROVE TypeOK
    OBVIOUS
  <2> USE DEF IInv, Types
  <2>1. ASSUME ~overlapped, NEW d \in Devices
        PROVE  retains[d] \in 0..1
    <3>1. CASE \A i \in Instances : ~Live(i)
      BY <2>1, <3>1 DEF Serial, Clean
    <3>2. CASE \E i \in Instances : Live(i)
      <4>1. PICK i \in Instances : Live(i) /\ Holds(i)
        BY <2>1, <3>2 DEF Serial
      <4>2. phase[i] \in Phases \ {"none", "freed"}
        BY <4>1 DEF Live
      <4>3. Clean \/ Deleted
               \/ \E r \in Devices \cup {NULL} : \E e \in Devices \cup {NULL} : Has(i, e, r)
        BY <4>1, <4>2 DEF Holds, Phases
      <4>4. QED
        BY <4>3 DEF Clean, Deleted, Has
    <3>3. QED
      BY <3>1, <3>2
  <2>2. QED
    BY <2>1 DEF TypeOK
<1>2. QED
  BY <1>1, SpecIInv, PTL

\* Whatever instances overlap, the global pointer is left on a state that is gone
\* only while a free is between its IODelete and its store of NULL.
THEOREM SpecDanglesOnlyWhileFreeing == Spec => []DanglesOnlyWhileFreeing
<1>1. IInv => DanglesOnlyWhileFreeing
  BY DEF IInv, Pointers
<1>2. QED
  BY <1>1, SpecIInv, PTL

\* As long as instances follow one another, only a failed init leads to a fault.
THEOREM SpecPanicOnlyAfterFailedInit == Spec => []PanicOnlyAfterFailedInit
<1>1. IInv => PanicOnlyAfterFailedInit
  BY DEF IInv, Serial, PanicOnlyAfterFailedInit
<1>2. QED
  BY <1>1, SpecIInv, PTL

\* RM is entered with the device open for its instance; as long as instances
\* follow one another it is also enabled, retained once and described by the
\* nv_state_t, and RM reaches no other device.
THEOREM SpecRMGetsReadyDevice == Spec => []RMGetsReadyDevice
<1>1. IInv => RMGetsReadyDevice
  <2> SUFFICES ASSUME IInv PROVE RMGetsReadyDevice
    OBVIOUS
  <2> USE DEF IInv, Types
  <2>1. strayed => overlapped
    BY DEF Serial
  <2>2. ASSUME NEW i \in Instances, phase[i] = "adapter"
        PROVE  session[provider[i]] = i
    BY <2>2 DEF Pointers, SessionHeld
  <2>3. ASSUME NEW i \in Instances, phase[i] = "adapter", ~overlapped
        PROVE  /\ provider[i] \in enabled /\ retains[provider[i]] = 1
               /\ state[nvd_state] = [device |-> provider[i], filled |-> provider[i]]
    <3>1. /\ Has(i, provider[i], provider[i]) /\ provider[i] \in enabled
          /\ state[i].filled = provider[i] /\ provider[i] \in Devices
      BY <2>3 DEF Serial, Live, Holds
    <3>2. /\ nvd_state = i /\ state[i] \in States /\ state[i].device = provider[i]
          /\ retains[provider[i]] = 1
      BY <3>1 DEF Has
    <3>3. state[i] = [device |-> provider[i], filled |-> provider[i]]
      BY <3>1, <3>2 DEF States
    <3>4. QED
      BY <3>1, <3>2, <3>3
  <2>4. QED
    BY <2>1, <2>2, <2>3 DEF RMGetsReadyDevice
<1>2. QED
  BY <1>1, SpecIInv, PTL

\* As long as instances follow one another, what is freed leaves no state and no
\* retain behind.
THEOREM SpecFreedMeansReleased == Spec => []FreedMeansReleased
<1>1. IInv => FreedMeansReleased
  BY DEF IInv, Serial, Live, Clean, FreedMeansReleased
<1>2. QED
  BY <1>1, SpecIInv, PTL
=============================================================================
