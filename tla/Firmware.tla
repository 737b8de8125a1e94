------------------------------ MODULE Firmware ------------------------------
(***************************************************************************)
(* nv_get_firmware and nv_put_firmware: the GPU's firmware, which the kext *)
(* reads from a file into a buffer and the dext maps from its bundle       *)
(* (Support/libnv-darwin/firmware_kernel.cpp:36-114 and                    *)
(* firmware_driverkit.cpp:15-41).  Each requester loads one firmware at a  *)
(* time; the file may change between the steps of a request.  A failure to *)
(* allocate the context changes nothing, and one to allocate the buffer is *)
(* a panic; both are left out.                                             *)
(***************************************************************************)
EXTENDS Library, Naturals, FiniteSets

CONSTANTS
    Requesters,
    MaxSize,        \* bound on the size of the file
    MaxFailures     \* bound on the requests that fail and leave memory behind

ASSUME FirmwareAssumption == MaxSize \in Nat \ {0} /\ MaxFailures \in Nat

VARIABLES
    file,           \* size of the file
    request,        \* request[r]: [at, size, filled]: the step that r's request
                    \* is at, the size of its buffer, and what was read into it
    contexts,       \* nv_darwin_fw_contexts allocated
    buffers,        \* buffers (the dext: OSMappedFiles) allocated
    iocounts,       \* references to the file's vnode
    vfsContexts,    \* references to vfs_contexts
    failures,       \* requests of the kext that failed
    unread          \* and those of them that had allocated a buffer

firmwareVars == <<file, request, contexts, buffers, iocounts, vfsContexts, failures, unread>>

NoRequest == [at |-> "none", size |-> 0, filled |-> 0]
Move(r, from, to) == request[r].at = from /\ request' = [request EXCEPT ![r].at = to]
Fail(r, from) == request[r].at = from /\ request' = [request EXCEPT ![r] = NoRequest]
Requesting(stages) == {r \in Requesters : request[r].at \in stages}

FirmwareInit ==
    /\ file \in 1 .. MaxSize
    /\ request = [r \in Requesters |-> NoRequest]
    /\ contexts = 0 /\ buffers = 0 /\ iocounts = 0 /\ vfsContexts = 0
    /\ failures = 0 /\ unread = 0

-----------------------------------------------------------------------------
(* nv_get_firmware of the kext *)

\* The context is allocated, and a vfs_context created.
GetFirmware(r) ==
    /\ library = "kext" /\ failures < MaxFailures
    /\ Move(r, "none", "lookup")
    /\ contexts' = contexts + 1
    /\ vfsContexts' = vfsContexts + 1
    /\ UNCHANGED <<file, buffers, iocounts, failures, unread>>

Mut_LookupFails(r) ==
    /\ Fail(r, "lookup")
    /\ iocounts' = iocounts - 1
    /\ vfsContexts' = vfsContexts - 1
    /\ failures' = failures + 1
    /\ UNCHANGED <<file, contexts, buffers, unread>>
LookupFails(r) ==
    /\ Fail(r, "lookup")
    /\ vfsContexts' = vfsContexts - 1
    /\ failures' = failures + 1
    /\ UNCHANGED <<file, contexts, buffers, iocounts, unread>>

Lookup(r) ==
    /\ Move(r, "lookup", "getattr")
    /\ iocounts' = iocounts + 1
    /\ UNCHANGED <<file, contexts, buffers, vfsContexts, failures, unread>>

Mut_GetAttrFails(r) ==
    /\ Fail(r, "getattr")
    /\ vfsContexts' = vfsContexts - 1
    /\ failures' = failures + 1
    /\ UNCHANGED <<file, contexts, buffers, iocounts, unread>>
GetAttrFails(r) ==
    /\ Fail(r, "getattr")
    /\ iocounts' = iocounts - 1
    /\ vfsContexts' = vfsContexts - 1
    /\ failures' = failures + 1
    /\ UNCHANGED <<file, contexts, buffers, unread>>

\* The size is read, and a buffer of that size allocated.
GetAttr(r) ==
    /\ request[r].at = "getattr"
    /\ request' = [request EXCEPT ![r] = [at |-> "read", size |-> file, filled |-> 0]]
    /\ buffers' = buffers + 1
    /\ UNCHANGED <<file, contexts, iocounts, vfsContexts, failures, unread>>

\* vn_rdwr reports an error of its own, or that the file is shorter by now.
ReadFails(r) ==
    /\ Fail(r, "read")
    /\ iocounts' = iocounts - 1
    /\ vfsContexts' = vfsContexts - 1
    /\ failures' = failures + 1
    /\ unread' = unread + 1
    /\ UNCHANGED <<file, contexts, buffers>>

\* The whole buffer is read.
Mut_Read(r) ==
    /\ request[r].at = "read"
    /\ request' = [request EXCEPT ![r].at = "given",
                                  ![r].filled =
                    IF file < request[r].size THEN file ELSE request[r].size]
    /\ iocounts' = iocounts - 1
    /\ vfsContexts' = vfsContexts - 1
    /\ UNCHANGED <<file, contexts, buffers, failures, unread>>
Read(r) ==
    /\ request[r].at = "read" /\ request[r].size <= file
    /\ request' = [request EXCEPT ![r].at = "given", ![r].filled = request[r].size]
    /\ iocounts' = iocounts - 1
    /\ vfsContexts' = vfsContexts - 1
    /\ UNCHANGED <<file, contexts, buffers, failures, unread>>

-----------------------------------------------------------------------------
(* The dext, and nv_put_firmware *)

\* loadResource maps the file; when it fails there is nothing to undo.
LoadResource(r) ==
    /\ library = "dext" /\ request[r].at = "none"
    /\ request' = [request EXCEPT ![r] = [at |-> "given", size |-> file, filled |-> file]]
    /\ buffers' = buffers + 1
    /\ UNCHANGED <<file, contexts, iocounts, vfsContexts, failures, unread>>

\* The buffer and, in the kext, the context are freed.
Mut_PutFirmware(r) ==
    /\ Fail(r, "given")
    /\ contexts' = IF library = "kext" THEN contexts - 1 ELSE contexts
    /\ UNCHANGED <<file, buffers, iocounts, vfsContexts, failures, unread>>
PutFirmware(r) ==
    /\ Fail(r, "given")
    /\ buffers' = buffers - 1
    /\ contexts' = IF library = "kext" THEN contexts - 1 ELSE contexts
    /\ UNCHANGED <<file, iocounts, vfsContexts, failures, unread>>

\* The file is replaced by one of another size.
ReplaceFile(n) ==
    /\ file' = n
    /\ UNCHANGED <<request, contexts, buffers, iocounts, vfsContexts, failures, unread>>

FirmwareNext ==
    \/ \E r \in Requesters :
          \/ GetFirmware(r) \/ LookupFails(r) \/ Lookup(r) \/ GetAttrFails(r)
          \/ GetAttr(r) \/ ReadFails(r) \/ Read(r)
          \/ LoadResource(r) \/ PutFirmware(r)
    \/ \E n \in 1 .. MaxSize : ReplaceFile(n)

-----------------------------------------------------------------------------
(* Properties *)

\* The vnode and the vfs_context are given up on every way out of
\* nv_get_firmware (firmware_kernel.cpp:64, 75-76, 92-93, 98-99): only requests
\* that are running hold any.
VnodesReleased ==
    /\ iocounts = Cardinality(Requesting({"getattr", "read"}))
    /\ vfsContexts = Cardinality(Requesting({"lookup", "getattr", "read"}))

\* Contexts and buffers belong to requests that run or have succeeded, but for
\* those of requests that failed: each of these leaves exactly one context
\* behind, and a buffer if it had one (firmware_kernel.cpp:61-95, 106-114).
FirmwareAccountedFor ==
    /\ contexts = failures + (IF library = "kext"
                              THEN Cardinality(Requesting({"lookup", "getattr", "read", "given"}))
                              ELSE 0)
    /\ buffers = unread + Cardinality(Requesting({"read", "given"}))

\* RM is never given a buffer of which a part was not read, even if the file
\* shrinks between the calls that get its size and its contents
\* (firmware_kernel.cpp:79-95).
FirmwareComplete ==
    \A r \in Requesting({"given"}) : request[r].filled = request[r].size /\ request[r].size > 0
=============================================================================
