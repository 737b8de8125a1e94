-------------------------- MODULE MCNVMacRMService --------------------------
(* Instances of NVMacRMService for TLC. *)
EXTENDS NVMacRMService, TLC

CONSTANTS i1, i2, i3, d1, d2

OneInstance == {i1}
ThreeInstances == {i1, i2, i3}
OneDevice == {d1}
TwoDevices == {d1, d2}

\* No action tells instances or devices apart, and kext.cfg checks no liveness.
Symmetry == Permutations(ThreeInstances) \cup Permutations(TwoDevices)
=============================================================================
