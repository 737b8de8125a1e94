------------------------------- MODULE MCOsMem -------------------------------
(* Instances of OsMem for TLC. *)
EXTENDS OsMem

CONSTANTS t1, t2

\* Adjacent 16-byte slots: keys that lost one digit are told apart, keys that lost
\* two would not be.  All digits of the kernel's addresses are significant.
TwoAddresses == {4096, 4112}

TwoThreads == {t1, t2}

\* The largest size that 8 bits hold is among them.
FittingSizes == {24, 255}
OneSize == {24}
=============================================================================
