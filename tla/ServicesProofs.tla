--------------------------- MODULE ServicesProofs ---------------------------
(***************************************************************************)
(* Proofs about Services, for every set of requesters and every size of    *)
(* the firmware.                                                           *)
(*                                                                         *)
(* What the requests hold is counted by what they are at: a request that   *)
(* moves takes and gives up exactly what its new step and its old one      *)
(* differ by.  The requests that run are finitely many although the set of *)
(* requesters need not be finite, since each step adds at most one.        *)
(***************************************************************************)
EXTENDS Services, KernelMapProofs

-----------------------------------------------------------------------------
(* Firmware *)

Steps == {"none", "lookup", "getattr", "read", "given"}
Request == [at : Steps, size : 0 .. MaxSize, filled : 0 .. MaxSize]

Running == Steps \ {"none"}

FirmwareTypes ==
    /\ library \in Libraries
    /\ file \in 1 .. MaxSize
    /\ request \in [Requesters -> Request]
    /\ failures \in Nat /\ unread \in Nat
    /\ IsFiniteSet(Requesting(Running))

\* The dext's requests have no steps in between, and leave nothing behind; the
\* buffer of a request that reads has the size that the file had.
FirmwareSteps ==
    /\ library = "dext" => failures = 0 /\ Requesting({"lookup", "getattr", "read"}) = {}
    /\ \A r \in Requesting({"read"}) : request[r].size > 0

FirmwareInv ==
    /\ FirmwareTypes /\ FirmwareSteps
    /\ VnodesReleased /\ FirmwareAccountedFor /\ FirmwareComplete

\* One more request at one of these stages, one less, or as many as before.
Change(stages, from, to) ==
    (IF to \in stages THEN 1 ELSE 0) - (IF from \in stages THEN 1 ELSE 0)

\* What the process holds changes with the stage of a request, but for a context and
\* a buffer that a request leaves behind when it fails.
Held(from, to, failed, lost) ==
    /\ iocounts' = iocounts + Change({"getattr", "read"}, from, to)
    /\ vfsContexts' = vfsContexts + Change({"lookup", "getattr", "read"}, from, to)
    /\ contexts' = contexts + failed
                    + (IF library = "kext"
                       THEN Change({"lookup", "getattr", "read", "given"}, from, to) ELSE 0)
    /\ buffers' = buffers + lost + Change({"read", "given"}, from, to)

\* When one request moves, the number of those at given stages changes with it.
LEMMA RequestingChange ==
    ASSUME FirmwareTypes, NEW r \in Requesters, NEW to \in Request,
           request' = [request EXCEPT ![r] = to], NEW stages \in SUBSET Running
    PROVE  /\ IsFiniteSet(Requesting(stages)')
           /\ Cardinality(Requesting(stages)) \in Nat
           /\ Cardinality(Requesting(stages)') \in Nat
           /\ Cardinality(Requesting(stages)') =
                 Cardinality(Requesting(stages)) + Change(stages, request[r].at, to.at)
<1> DEFINE others == Requesting(stages) \ {r}
<1>1. \A q \in Requesters : request'[q] = IF q = r THEN to ELSE request[q]
  BY DEF FirmwareTypes
<1>2. IsFiniteSet(Requesting(stages))
  <2>1. Requesting(stages) \subseteq Requesting(Running)
    BY DEF Requesting
  <2>2. QED
    BY <2>1, FS_Subset DEF FirmwareTypes
<1>3. IsFiniteSet(others) /\ r \notin others
  BY <1>2, FS_RemoveElement
<1>4. IsFiniteSet(others \cup {r}) /\ Cardinality(others) \in Nat
      /\ Cardinality(others \cup {r}) = Cardinality(others) + 1
  BY <1>3, FS_AddElement, FS_CardinalityType
<1>5. Requesting(stages) = IF request[r].at \in stages THEN others \cup {r} ELSE others
  BY DEF Requesting
<1>6. Requesting(stages)' = IF to.at \in stages THEN others \cup {r} ELSE others
  BY <1>1 DEF Requesting
<1> HIDE DEF others
<1>7. QED
  BY <1>3, <1>4, <1>5, <1>6 DEF Change

\* At first there is no request, and nothing is held.
LEMMA FirmwareInitInv == library \in Libraries /\ FirmwareInit => FirmwareInv
<1> SUFFICES ASSUME library \in Libraries, FirmwareInit PROVE FirmwareInv
  OBVIOUS
<1>1. \A stages \in SUBSET Running : Requesting(stages) = {}
  BY DEF FirmwareInit, NoRequest, Requesting, Running
<1>2. /\ Requesting({"getattr", "read"}) = {} /\ Requesting({"lookup", "getattr", "read"}) = {}
      /\ Requesting({"lookup", "getattr", "read", "given"}) = {}
      /\ Requesting({"read", "given"}) = {} /\ Requesting({"read"}) = {}
      /\ Requesting({"given"}) = {} /\ Requesting(Running) = {}
  BY <1>1 DEF Running, Steps
<1>3. FirmwareTypes
  BY <1>2, FS_EmptySet, FirmwareAssumption
     DEF FirmwareTypes, FirmwareInit, NoRequest, Request, Steps
<1>4. FirmwareSteps
  BY <1>2 DEF FirmwareSteps, FirmwareInit
<1>5. VnodesReleased /\ FirmwareAccountedFor /\ FirmwareComplete
  <2>1. Cardinality({}) = 0
    BY FS_EmptySet
  <2>2. QED
    BY <1>2, <2>1 DEF VnodesReleased, FirmwareAccountedFor, FirmwareComplete, FirmwareInit
<1>6. QED
  BY <1>3, <1>4, <1>5 DEF FirmwareInv

\* A request moves, and the process holds what its stages call for.
LEMMA FirmwareMoveInv ==
    ASSUME FirmwareInv, NEW r \in Requesters, NEW to \in Request,
           request' = [request EXCEPT ![r] = to],
           NEW failed \in {0, 1}, failures' = failures + failed,
           NEW lost \in {0, 1}, unread' = unread + lost,
           Held(request[r].at, to.at, failed, lost),
           library = "dext" => failed = 0 /\ to.at \in {"none", "given"},
           to.at = "read" => to.size > 0,
           to.at = "given" => to.filled = to.size /\ to.size > 0,
           UNCHANGED <<library, file>>
    PROVE  FirmwareInv'
<1> USE DEF FirmwareInv
<1>1. \A q \in Requesters : request'[q] = IF q = r THEN to ELSE request[q]
  BY DEF FirmwareTypes
<1>2. FirmwareTypes'
  <2>1. IsFiniteSet(Requesting(Running)')
    BY RequestingChange
  <2>2. request' \in [Requesters -> Request]
    BY DEF FirmwareTypes
  <2>3. failures' \in Nat /\ unread' \in Nat
    BY DEF FirmwareTypes
  <2>4. QED
    BY <2>1, <2>2, <2>3 DEF FirmwareTypes
<1>3. FirmwareSteps'
  <2>1. library' = "dext" => failures' = 0
    BY DEF FirmwareTypes, FirmwareSteps
  <2>2. library' = "dext" => Requesting({"lookup", "getattr", "read"})' = {}
    BY <1>1 DEF FirmwareSteps, Requesting
  <2>3. \A q \in Requesting({"read"})' : request'[q].size > 0
    BY <1>1 DEF FirmwareSteps, Requesting
  <2>4. QED
    BY <2>1, <2>2, <2>3 DEF FirmwareSteps
<1>4. VnodesReleased'
  <2>1. {"getattr", "read"} \in SUBSET Running /\ {"lookup", "getattr", "read"} \in SUBSET Running
    BY DEF Running, Steps
  <2>2. Cardinality(Requesting({"getattr", "read"})')
          = Cardinality(Requesting({"getattr", "read"}))
            + Change({"getattr", "read"}, request[r].at, to.at)
    BY <2>1, RequestingChange
  <2>3. Cardinality(Requesting({"lookup", "getattr", "read"})')
          = Cardinality(Requesting({"lookup", "getattr", "read"}))
            + Change({"lookup", "getattr", "read"}, request[r].at, to.at)
    BY <2>1, RequestingChange
  <2>4. QED
    BY <2>2, <2>3 DEF VnodesReleased, Held
<1>5. FirmwareAccountedFor'
  <2> DEFINE had == {"lookup", "getattr", "read", "given"}
             full == {"read", "given"}
  <2>1. had \in SUBSET Running /\ full \in SUBSET Running
    BY DEF Running, Steps
  <2>2. /\ Cardinality(Requesting(had)) \in Nat
        /\ Cardinality(Requesting(had)')
              = Cardinality(Requesting(had)) + Change(had, request[r].at, to.at)
    BY <2>1, RequestingChange
  <2>3. /\ Cardinality(Requesting(full)) \in Nat
        /\ Cardinality(Requesting(full)')
              = Cardinality(Requesting(full)) + Change(full, request[r].at, to.at)
    BY <2>1, RequestingChange
  <2>4. Change(had, request[r].at, to.at) \in Int /\ Change(full, request[r].at, to.at) \in Int
    BY DEF Change
  <2>5. contexts' = failures' + (IF library = "kext" THEN Cardinality(Requesting(had)') ELSE 0)
    BY <2>2, <2>4 DEF FirmwareTypes, FirmwareAccountedFor, Held
  <2>6. buffers' = unread' + Cardinality(Requesting(full)')
    BY <2>3, <2>4 DEF FirmwareTypes, FirmwareAccountedFor, Held
  <2>7. QED
    BY <2>5, <2>6 DEF FirmwareAccountedFor
<1>6. FirmwareComplete'
  BY <1>1 DEF FirmwareComplete, Requesting
<1>7. QED
  BY <1>2, <1>3, <1>4, <1>5, <1>6

\* Each count is a number of requests, or of failures, so none is below zero.
LEMMA FirmwareCountsType ==
    FirmwareInv => {contexts, buffers, iocounts, vfsContexts} \subseteq Nat
<1> SUFFICES ASSUME FirmwareInv PROVE {contexts, buffers, iocounts, vfsContexts} \subseteq Nat
  OBVIOUS
<1>1. ASSUME NEW stages \in SUBSET Running PROVE Cardinality(Requesting(stages)) \in Nat
  <2>1. Requesting(stages) \subseteq Requesting(Running)
    BY DEF Requesting
  <2>2. QED
    BY <2>1, FS_Subset, FS_CardinalityType DEF FirmwareInv, FirmwareTypes
<1>2. /\ Cardinality(Requesting({"getattr", "read"})) \in Nat
      /\ Cardinality(Requesting({"lookup", "getattr", "read"})) \in Nat
      /\ Cardinality(Requesting({"lookup", "getattr", "read", "given"})) \in Nat
      /\ Cardinality(Requesting({"read", "given"})) \in Nat
  BY <1>1 DEF Running, Steps
<1>3. QED
  BY <1>2 DEF FirmwareInv, FirmwareTypes, VnodesReleased, FirmwareAccountedFor

\* Every step of a request preserves the invariant.
LEMMA FirmwareNextInv ==
    ASSUME FirmwareInv, FirmwareNext, UNCHANGED library
    PROVE  FirmwareInv'
<1> USE DEF FirmwareInv
<1>0. \A n \in 1 .. MaxSize : n \in 0 .. MaxSize /\ n > 0
  BY FirmwareAssumption
<1>1. ASSUME NEW r \in Requesters, GetFirmware(r) PROVE FirmwareInv'
  <2> DEFINE to == [request[r] EXCEPT !.at = "lookup"]
  <2>1. request[r].at = "none" /\ request' = [request EXCEPT ![r] = to]
    BY <1>1 DEF GetFirmware, Move, FirmwareTypes
  <2>2. to \in Request /\ to.at = "lookup"
    BY DEF FirmwareTypes, Request, Steps
  <2>3. library = "kext"
    BY <1>1 DEF GetFirmware
  <2>4. failures' = failures + 0 /\ unread' = unread + 0
    BY <1>1 DEF GetFirmware, FirmwareTypes
  <2>5. Held("none", "lookup", 0, 0)
    BY <1>1, <2>3, FirmwareCountsType DEF GetFirmware, Held, Change, FirmwareTypes
  <2> HIDE DEF to
  <2>6. UNCHANGED file
    BY <1>1 DEF GetFirmware
  <2>7. QED
    BY <2>1, <2>2, <2>3, <2>4, <2>5, <2>6, FirmwareMoveInv
<1>2. ASSUME NEW r \in Requesters, LookupFails(r) PROVE FirmwareInv'
  <2> DEFINE to == NoRequest
  <2>1. request[r].at = "lookup" /\ request' = [request EXCEPT ![r] = to]
    BY <1>2 DEF LookupFails, Fail, FirmwareTypes
  <2>2. to \in Request /\ to.at = "none"
    BY FirmwareAssumption DEF NoRequest, Request, Steps
  <2>3. library # "dext"
    BY <2>1 DEF FirmwareSteps, Requesting
  <2>4. failures' = failures + 1 /\ unread' = unread + 0
    BY <1>2 DEF LookupFails, FirmwareTypes
  <2>5. Held("lookup", "none", 1, 0)
    BY <1>2, <2>3, FirmwareCountsType DEF LookupFails, Held, Change, FirmwareTypes, Libraries
  <2> HIDE DEF to
  <2>6. UNCHANGED file
    BY <1>2 DEF LookupFails
  <2>7. QED
    BY <2>1, <2>2, <2>3, <2>4, <2>5, <2>6, FirmwareMoveInv
<1>3. ASSUME NEW r \in Requesters, Lookup(r) PROVE FirmwareInv'
  <2> DEFINE to == [request[r] EXCEPT !.at = "getattr"]
  <2>1. request[r].at = "lookup" /\ request' = [request EXCEPT ![r] = to]
    BY <1>3 DEF Lookup, Move, FirmwareTypes
  <2>2. to \in Request /\ to.at = "getattr"
    BY DEF FirmwareTypes, Request, Steps
  <2>3. library # "dext"
    BY <2>1 DEF FirmwareSteps, Requesting
  <2>4. failures' = failures + 0 /\ unread' = unread + 0
    BY <1>3 DEF Lookup, FirmwareTypes
  <2>5. Held("lookup", "getattr", 0, 0)
    BY <1>3, <2>3, FirmwareCountsType DEF Lookup, Held, Change, FirmwareTypes, Libraries
  <2> HIDE DEF to
  <2>6. UNCHANGED file
    BY <1>3 DEF Lookup
  <2>7. QED
    BY <2>1, <2>2, <2>3, <2>4, <2>5, <2>6, FirmwareMoveInv
<1>4. ASSUME NEW r \in Requesters, GetAttrFails(r) PROVE FirmwareInv'
  <2> DEFINE to == NoRequest
  <2>1. request[r].at = "getattr" /\ request' = [request EXCEPT ![r] = to]
    BY <1>4 DEF GetAttrFails, Fail, FirmwareTypes
  <2>2. to \in Request /\ to.at = "none"
    BY FirmwareAssumption DEF NoRequest, Request, Steps
  <2>3. library # "dext"
    BY <2>1 DEF FirmwareSteps, Requesting
  <2>4. failures' = failures + 1 /\ unread' = unread + 0
    BY <1>4 DEF GetAttrFails, FirmwareTypes
  <2>5. Held("getattr", "none", 1, 0)
    BY <1>4, <2>3, FirmwareCountsType DEF GetAttrFails, Held, Change, FirmwareTypes, Libraries
  <2> HIDE DEF to
  <2>6. UNCHANGED file
    BY <1>4 DEF GetAttrFails
  <2>7. QED
    BY <2>1, <2>2, <2>3, <2>4, <2>5, <2>6, FirmwareMoveInv
<1>5. ASSUME NEW r \in Requesters, GetAttr(r) PROVE FirmwareInv'
  <2> DEFINE to == [at |-> "read", size |-> file, filled |-> 0]
  <2>1. request[r].at = "getattr" /\ request' = [request EXCEPT ![r] = to]
    BY <1>5 DEF GetAttr, FirmwareTypes
  <2>2. to \in Request /\ to.at = "read" /\ to.size > 0
    BY <1>0, FirmwareAssumption DEF FirmwareTypes, Request, Steps
  <2>3. library # "dext"
    BY <2>1 DEF FirmwareSteps, Requesting
  <2>4. failures' = failures + 0 /\ unread' = unread + 0
    BY <1>5 DEF GetAttr, FirmwareTypes
  <2>5. Held("getattr", "read", 0, 0)
    BY <1>5, <2>3, FirmwareCountsType DEF GetAttr, Held, Change, FirmwareTypes, Libraries
  <2> HIDE DEF to
  <2>6. UNCHANGED file
    BY <1>5 DEF GetAttr
  <2>7. QED
    BY <2>1, <2>2, <2>3, <2>4, <2>5, <2>6, FirmwareMoveInv
<1>6. ASSUME NEW r \in Requesters, ReadFails(r) PROVE FirmwareInv'
  <2> DEFINE to == NoRequest
  <2>1. request[r].at = "read" /\ request' = [request EXCEPT ![r] = to]
    BY <1>6 DEF ReadFails, Fail, FirmwareTypes
  <2>2. to \in Request /\ to.at = "none"
    BY FirmwareAssumption DEF NoRequest, Request, Steps
  <2>3. library # "dext"
    BY <2>1 DEF FirmwareSteps, Requesting
  <2>4. failures' = failures + 1 /\ unread' = unread + 1
    BY <1>6 DEF ReadFails, FirmwareTypes
  <2>5. Held("read", "none", 1, 1)
    BY <1>6, <2>3, FirmwareCountsType DEF ReadFails, Held, Change, FirmwareTypes, Libraries
  <2> HIDE DEF to
  <2>6. UNCHANGED file
    BY <1>6 DEF ReadFails
  <2>7. QED
    BY <2>1, <2>2, <2>3, <2>4, <2>5, <2>6, FirmwareMoveInv
<1>7. ASSUME NEW r \in Requesters, Read(r) PROVE FirmwareInv'
  <2> DEFINE to == [request[r] EXCEPT !.at = "given", !.filled = request[r].size]
  <2>1. request[r].at = "read" /\ request' = [request EXCEPT ![r] = to]
    BY <1>7 DEF Read, FirmwareTypes
  <2>2. to \in Request /\ to.at = "given" /\ to.filled = to.size /\ to.size > 0
    BY <2>1, <1>0 DEF FirmwareTypes, FirmwareSteps, Requesting, Request, Steps
  <2>3. library # "dext"
    BY <2>1 DEF FirmwareSteps, Requesting
  <2>4. failures' = failures + 0 /\ unread' = unread + 0
    BY <1>7 DEF Read, FirmwareTypes
  <2>5. Held("read", "given", 0, 0)
    BY <1>7, <2>3, FirmwareCountsType DEF Read, Held, Change, FirmwareTypes, Libraries
  <2> HIDE DEF to
  <2>6. UNCHANGED file
    BY <1>7 DEF Read
  <2>7. QED
    BY <2>1, <2>2, <2>3, <2>4, <2>5, <2>6, FirmwareMoveInv
<1>8. ASSUME NEW r \in Requesters, LoadResource(r) PROVE FirmwareInv'
  <2> DEFINE to == [at |-> "given", size |-> file, filled |-> file]
  <2>1. request[r].at = "none" /\ request' = [request EXCEPT ![r] = to]
    BY <1>8 DEF LoadResource, FirmwareTypes
  <2>2. to \in Request /\ to.at = "given" /\ to.filled = to.size /\ to.size > 0
    BY <1>0 DEF FirmwareTypes, Request, Steps
  <2>3. library = "dext"
    BY <1>8 DEF LoadResource
  <2>4. failures' = failures + 0 /\ unread' = unread + 0
    BY <1>8 DEF LoadResource, FirmwareTypes
  <2>5. Held("none", "given", 0, 0)
    BY <1>8, <2>3, FirmwareCountsType DEF LoadResource, Held, Change, FirmwareTypes
  <2> HIDE DEF to
  <2>6. UNCHANGED file
    BY <1>8 DEF LoadResource
  <2>7. QED
    BY <2>1, <2>2, <2>3, <2>4, <2>5, <2>6, FirmwareMoveInv
<1>9. ASSUME NEW r \in Requesters, PutFirmware(r) PROVE FirmwareInv'
  <2> DEFINE to == NoRequest
  <2>1. request[r].at = "given" /\ request' = [request EXCEPT ![r] = to]
    BY <1>9 DEF PutFirmware, Fail, FirmwareTypes
  <2>2. to \in Request /\ to.at = "none"
    BY FirmwareAssumption DEF NoRequest, Request, Steps
  <2>3. library \in {"dext", "kext"}
    BY DEF FirmwareTypes, Libraries
  <2>4. failures' = failures + 0 /\ unread' = unread + 0
    BY <1>9 DEF PutFirmware, FirmwareTypes
  <2>5. Held("given", "none", 0, 0)
    BY <1>9, <2>3, FirmwareCountsType DEF PutFirmware, Held, Change, FirmwareTypes
  <2> HIDE DEF to
  <2>6. UNCHANGED file
    BY <1>9 DEF PutFirmware
  <2>7. QED
    BY <2>1, <2>2, <2>3, <2>4, <2>5, <2>6, FirmwareMoveInv
<1>10. ASSUME NEW n \in 1 .. MaxSize, ReplaceFile(n) PROVE FirmwareInv'
  <2>1. FirmwareTypes'
    BY <1>10 DEF ReplaceFile, FirmwareTypes, Requesting
  <2>2. FirmwareSteps'
    BY <1>10 DEF ReplaceFile, FirmwareSteps, Requesting
  <2>3. VnodesReleased' /\ FirmwareAccountedFor' /\ FirmwareComplete'
    BY <1>10 DEF ReplaceFile, VnodesReleased, FirmwareAccountedFor, FirmwareComplete, Requesting
  <2>4. QED
    BY <2>1, <2>2, <2>3
<1>11. QED
  BY <1>1, <1>2, <1>3, <1>4, <1>5, <1>6, <1>7, <1>8, <1>9, <1>10 DEF FirmwareNext

\* So does a step of another service.
LEMMA FirmwareStutterInv ==
    ASSUME FirmwareInv, UNCHANGED <<library, firmwareVars>>
    PROVE  FirmwareInv'
<1> USE DEF FirmwareInv, firmwareVars
<1>1. FirmwareTypes' /\ FirmwareSteps'
  BY DEF FirmwareTypes, FirmwareSteps, Requesting
<1>2. VnodesReleased' /\ FirmwareAccountedFor' /\ FirmwareComplete'
  BY DEF VnodesReleased, FirmwareAccountedFor, FirmwareComplete, Requesting
<1>3. QED
  BY <1>1, <1>2

-----------------------------------------------------------------------------
(* Both services *)

IInv == MapInv /\ FirmwareInv

\* The two services begin with their invariants.
LEMMA InitInv == Init => IInv
BY MapInitInv, FirmwareInitInv DEF Init, IInv

\* Each step is one of one service, which leaves the other's state alone.
LEMMA NextInv == IInv /\ [Next]_vars => IInv'
<1> SUFFICES ASSUME MapInv, FirmwareInv, [Next]_vars PROVE MapInv' /\ FirmwareInv'
  BY DEF IInv
<1>1. CASE MapNext /\ UNCHANGED firmwareVars /\ UNCHANGED library
  BY <1>1, MapNextInv, FirmwareStutterInv
<1>2. CASE FirmwareNext /\ UNCHANGED mapVars /\ UNCHANGED library
  BY <1>2, FirmwareNextInv, MapStutterInv
<1>3. CASE UNCHANGED vars
  BY <1>3, FirmwareStutterInv, MapStutterInv DEF vars
<1>4. QED
  BY <1>1, <1>2, <1>3 DEF Next

\* Both invariants hold in every reachable state.
LEMMA SpecIInv == Spec => []IInv
BY InitInv, NextInv, PTL DEF Spec

\* TypeOK: the counts of what the services hold never fall below none, and a
\* mapping has at most two references.
THEOREM SpecTypeOK == Spec => []TypeOK
<1>1. IInv => TypeOK
  BY FirmwareCountsType DEF IInv, MapInv, FirmwareInv, FirmwareTypes, TypeOK, Request, Steps
<1>2. QED
  BY <1>1, SpecIInv, PTL

\* MapsAccountedFor: as long as no access to global_mapped_memory falls into another
\* call's update, every IOMemoryMap is referenced by its entry and by the call that
\* is making it and by nothing else, and some client can give it back.
THEOREM SpecMapsAccountedFor == Spec => []MapsAccountedFor
<1>1. IInv => MapsAccountedFor
  BY InvMapsAccountedFor DEF IInv
<1>2. QED
  BY <1>1, SpecIInv, PTL

\* PointerStaysMapped: what os_map_kernel_space returned stays mapped until RM
\* unmaps it, even when updates of the dictionary overwrite each other, unless a
\* setObject failed; and as long as none falls into another it keeps its entry.
THEOREM SpecPointerStaysMapped == Spec => []PointerStaysMapped
<1>1. IInv => PointerStaysMapped
  BY InvPointerStaysMapped DEF IInv
<1>2. QED
  BY <1>1, SpecIInv, PTL

\* VnodesReleased: every way out of nv_get_firmware gives up the vnode and the
\* vfs_context.
THEOREM SpecVnodesReleased == Spec => []VnodesReleased
<1>1. IInv => VnodesReleased
  BY DEF IInv, FirmwareInv
<1>2. QED
  BY <1>1, SpecIInv, PTL

\* FirmwareAccountedFor: each failed request of the kext leaves one context behind,
\* and a buffer if it had one; nothing else does.
THEOREM SpecFirmwareAccountedFor == Spec => []FirmwareAccountedFor
<1>1. IInv => FirmwareAccountedFor
  BY DEF IInv, FirmwareInv
<1>2. QED
  BY <1>1, SpecIInv, PTL

\* FirmwareComplete: RM is given no buffer that was not read to its end, however
\* the file changes.
THEOREM SpecFirmwareComplete == Spec => []FirmwareComplete
<1>1. IInv => FirmwareComplete
  BY DEF IInv, FirmwareInv
<1>2. QED
  BY <1>1, SpecIInv, PTL

=============================================================================
