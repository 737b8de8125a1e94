------------------------------ MODULE Services ------------------------------
(***************************************************************************)
(* What RM asks of the library while it initializes the GPU: mappings of   *)
(* the device's BARs (KernelMap, the dext) and firmware (Firmware, either  *)
(* library).  The two services share no state, so that every step of the   *)
(* one leaves the other alone.                                             *)
(***************************************************************************)
EXTENDS KernelMap, Firmware

vars == <<library, mapVars, firmwareVars>>

Init == library \in Libraries /\ MapInit /\ FirmwareInit

Next ==
    /\ \/ MapNext /\ UNCHANGED firmwareVars
       \/ FirmwareNext /\ UNCHANGED mapVars
    /\ UNCHANGED library

Spec == Init /\ [][Next]_vars

\* The types of all variables of the two services.
TypeOK ==
    /\ MapTypeOK
    /\ file \in 1 .. MaxSize
    /\ request \in [Requesters ->
                      [at : {"none", "lookup", "getattr", "read", "given"},
                       size : 0 .. MaxSize, filled : 0 .. MaxSize]]
    /\ {contexts, buffers, iocounts, vfsContexts, failures, unread} \subseteq Nat
=============================================================================
