------------------------------ MODULE MCNvLink ------------------------------
(* An instance of NvLink for TLC. *)
EXTENDS NvLink

CONSTANTS t1, t2

\* Adjacent 16-byte slots of the kernel, and garbage that lies in the second.
TwoAddresses == {4096, 4112}
Unaligned == {4117}

TwoThreads == {t1, t2}

OneSize == {24}
=============================================================================
