------------------------------- MODULE Clock -------------------------------
(***************************************************************************)
(* The clock that RM reads (Support/libnv-darwin/os.cpp:120-148), its two  *)
(* delays (150-158) and that of NVLink, as a thread sees them that reads   *)
(* the time, asks for a delay, and reads the time again.  Time is the      *)
(* uptime in nanoseconds; a reading of the microseconds, and the argument  *)
(* of a sleep, has 32 bits.                                                *)
(***************************************************************************)
EXTENDS Library, Naturals

CONSTANTS
    Word,           \* 2^32
    Thousand,       \* nanoseconds in a microsecond, and so on
    Numer, Denom,   \* mach_timebase_info: a tick of the kernel is Numer/Denom nanoseconds
    Delays,         \* milliseconds that os_delay is asked for
    DelaysUs,       \* microseconds that os_delay_us is asked for
    MaxUptime       \* bound of the uptime

\* A tick is not less than a nanosecond: 1/1 on Intel, 125/3 on Apple silicon.
ASSUME ClockAssumption ==
    /\ {Word, Thousand, Numer, Denom} \subseteq Nat \ {0} /\ MaxUptime \in Nat
    /\ Denom <= Numer
    /\ Delays \cup DelaysUs \subseteq 0 .. Word - 1

VARIABLES
    uptime,     \* the system's clock
    delay       \* what a thread is doing: NoDelay, or [asked, wraps, begun, until]

clockVars == <<uptime, delay>>

NoDelay == [asked |-> 0, wraps |-> FALSE, begun |-> 0, until |-> 0]

ClockInit == uptime = 0 /\ delay = NoDelay

Tick ==
    /\ uptime < MaxUptime
    /\ uptime' = uptime + 1
    /\ UNCHANGED delay

\* What the code takes for nanoseconds: the dext's are, the kext's are ticks.
CurrentUptime(t) == IF library = "dext" THEN t ELSE (t * Denom) \div Numer

\* os_get_current_time: the whole uptime, not the part below a second.
Mut_Useconds(t) ==
    ((CurrentUptime(t) \div Thousand) % (Thousand * Thousand)) % Word
Useconds(t) == (CurrentUptime(t) \div Thousand) % Word

\* IOSleep takes milliseconds, and lasts at least as long as asked.
Sleep(millis, asked, wraps) ==
    LET until == uptime + millis * Thousand * Thousand IN
    /\ delay = NoDelay
    /\ until <= MaxUptime
    /\ delay' = [asked |-> asked, wraps |-> wraps, begun |-> uptime, until |-> until]
    /\ UNCHANGED uptime

\* os_delay passes it a thousand times the milliseconds, in 32 bits ...
OsDelay(ms) ==
    Sleep((ms * Thousand) % Word, ms * Thousand * Thousand, ms * Thousand >= Word)

\* ... and os_delay_us the microseconds.
Mut_OsDelayUs(us) == Sleep(us \div Thousand, us * Thousand, FALSE)
OsDelayUs(us) == Sleep(us, us * Thousand, FALSE)

\* nvlink_sleep (nvlink.cpp:79-81) passes it the milliseconds.
NvlinkSleep(ms) == Sleep(ms, ms * Thousand * Thousand, FALSE)

MayWake == delay # NoDelay /\ delay.until <= uptime

Wake == MayWake /\ delay' = NoDelay /\ UNCHANGED uptime

ClockNext ==
    \/ Tick \/ Wake
    \/ \E ms \in Delays : OsDelay(ms) \/ NvlinkSleep(ms)
    \/ \E us \in DelaysUs : OsDelayUs(us)

-----------------------------------------------------------------------------
(* Properties *)

Times == 0 .. MaxUptime

ClockTypeOK ==
    /\ uptime \in Times
    /\ delay \in [asked : Nat, wraps : BOOLEAN, begun : Times, until : Times]

\* What RM's arithmetic in 32 bits makes of the microseconds of two readings.
Measured(from, to) == (Useconds(to) + Word - Useconds(from)) % Word

\* However often the readings wrapped since (os.cpp:137), and although the kext takes
\* ticks for nanoseconds (os.cpp:130), RM never measures more time than has passed,
\* but for the unit to which a reading is rounded: no timeout of RM expires early.
MeasuredNeverAhead ==
    Thousand * Measured(delay.begun, uptime) < uptime - delay.begun + Thousand

\* A delay is short only when the milliseconds of os_delay wrap (os.cpp:156): taking
\* microseconds for milliseconds (151), and milliseconds times a thousand too, errs on
\* the long side.
DelayShortOnlyIfWrapped ==
    MayWake /\ uptime < delay.begun + delay.asked => delay.wraps
=============================================================================
