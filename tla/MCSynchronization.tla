------------------------- MODULE MCSynchronization -------------------------
(* Instances of Synchronization for TLC.  A microsecond has 2 nanoseconds *)
(* and a millisecond 4, the readings of the microseconds wrap every 16     *)
(* nanoseconds, and those of the kext are slower by 5/2.  Of the delays in *)
(* milliseconds the last wraps before the sleep.                           *)
EXTENDS Synchronization

CONSTANTS t1, t2, t3, s1, s2, m1, m2, o1, o2, o3

ThreeThreads == {t1, t2, t3}
TwoUsers == {t1, t2}
TwoCells == {s1, s2}
TwoMutexes == {m1, m2}
ThreeObjects == {o1, o2, o3}
Units == {0, 1}
SomeDelays == {1, 2, 5}
SomeDelaysUs == {3, 4}
=============================================================================
