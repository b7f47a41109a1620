----------------------------- MODULE ApicTimer -----------------------------
(***************************************************************************)
(* How kstart() finds out how fast the timer of the local APIC runs:       *)
(* timerTicksPer() lets it count down while Hpet::wait() waits for 10ms,   *)
(* and setUpTimer() then makes it periodic with what was counted.          *)
(***************************************************************************)
EXTENDS Integers

CONSTANTS CounterModulus,   \* 2^64 for the HPET's counter
          TimeModulus,      \* 2^64 for nanoTime()'s product
          Femtos,           \* frequencyFemtos: femtoseconds per HPET tick
          FemtosPerNano,    \* 1000000
          BootTicks,        \* bound on the HPET's ticks before the calibration
          MaxElapsed,       \* bound on those until the end of the wait is noticed
          WaitNanos,        \* 10000000
          Ratio,            \* the ticks of the APIC's timer in one of the HPET
          CountModulus,     \* 2^32 for the timer's count and for an unsigned
          Divide            \* 16

\* With less the kernel could not calibrate: the wait ends before the product
\* wraps, and what is counted meanwhile, times 16, fits into an unsigned.
ASSUME TimerAssumption ==
  /\ {CounterModulus, TimeModulus, Femtos, FemtosPerNano, WaitNanos, BootTicks, MaxElapsed, Ratio, CountModulus, Divide} \subseteq Nat \ {0}
  /\ CounterModulus * Femtos >= TimeModulus
  /\ BootTicks * Femtos + WaitNanos * FemtosPerNano + Femtos < TimeModulus
  /\ CountModulus > Divide * Ratio * (CounterModulus - 1)

VARIABLES boot,       \* where kstart() is
          counter,    \* HPET_REGISTER_COUNTER
          until,      \* wait()'s currentNanos + nanos
          remaining,  \* the timer's current count register
          initialCount, periodic, timerMasked,   \* its other registers
          ticksPer10ms,
          elapsed     \* history: HPET ticks since the timer began to count

timerVars == <<counter, until, remaining, initialCount, periodic, timerMasked, ticksPer10ms, elapsed>>

\* The firmware may leave the HPET anywhere.
TimerInit ==
  /\ boot = "hpet"
  /\ counter \in {0, CounterModulus - 1}
  /\ until = 0 /\ remaining = 0 /\ initialCount = 0
  /\ periodic = FALSE /\ timerMasked = TRUE
  /\ ticksPer10ms = 0 /\ elapsed = 0

nanoTime == ((counter * Femtos) % TimeModulus) \div FemtosPerNano

\* Where the loop of wait() ends.
WaitOver == nanoTime >= until

BootStep(from, to) == boot = from /\ boot' = to

\* Mutant: the counter is not set to 0.
HpetNotReset ==
  /\ BootStep("hpet", "ioApics")
  /\ UNCHANGED timerVars

\* The constructor of Hpet ends with reset().
HpetReset ==
  /\ BootStep("hpet", "ioApics")
  /\ counter' = 0
  /\ UNCHANGED <<until, remaining, initialCount, periodic, timerMasked, ticksPer10ms, elapsed>>

\* timerTicksPer() up to the first nanoTime() of wait().
StartTimer ==
  /\ BootStep("timer", "wait")
  /\ periodic' = FALSE /\ timerMasked' = FALSE
  /\ initialCount' = CountModulus - 1 /\ remaining' = CountModulus - 1
  /\ until' = nanoTime + WaitNanos
  /\ elapsed' = 0
  /\ UNCHANGED <<counter, ticksPer10ms>>

\* Mutant: the count that remains is taken for the count that has passed.
StopTimerRemaining ==
  /\ BootStep("wait", "mask") /\ WaitOver
  /\ timerMasked' = TRUE
  /\ ticksPer10ms' = (remaining * Divide) % CountModulus
  /\ UNCHANGED <<counter, until, remaining, initialCount, periodic, elapsed>>

\* The end of wait() and the rest of timerTicksPer().
StopTimer ==
  /\ BootStep("wait", "mask") /\ WaitOver
  /\ timerMasked' = TRUE
  /\ ticksPer10ms' = ((CountModulus - 1 - remaining) * Divide) % CountModulus
  /\ UNCHANGED <<counter, until, remaining, initialCount, periodic, elapsed>>

\* maskAllInternal(): the timer's LVT register; the others are not used.
MaskAllInternal ==
  /\ BootStep("mask", "enable")
  /\ timerMasked' = TRUE
  /\ UNCHANGED <<counter, until, remaining, initialCount, periodic, ticksPer10ms, elapsed>>

SetUpTimer ==
  /\ BootStep("setUp", "done")
  /\ periodic' = TRUE /\ timerMasked' = FALSE
  /\ initialCount' = ticksPer10ms \div Divide
  /\ counter' = 0 /\ until' = 0 /\ remaining' = 0   \* not followed any more
  /\ UNCHANGED <<ticksPer10ms, elapsed>>

\* Time passes; it matters until the timer is calibrated.
HpetTick ==
  /\ \/ boot = "ioApics" /\ counter < BootTicks
     \/ boot = "wait" /\ (~WaitOver \/ elapsed < MaxElapsed)
  /\ counter' = (counter + 1) % CounterModulus
  /\ remaining' = IF remaining > Ratio THEN remaining - Ratio ELSE 0
  /\ elapsed' = IF elapsed < CounterModulus THEN elapsed + 1 ELSE elapsed
  /\ UNCHANGED <<boot, until, initialCount, periodic, timerMasked, ticksPer10ms>>
-----------------------------------------------------------------------------
\* The period of the timer interrupt is the time that the calibration took,
\* which is no less than the 10ms asked for, but for the nanosecond that
\* nanoTime() rounds off (apicTimer.cpp:22-35).
PeriodIsCalibrated ==
  boot = "done" =>
    /\ periodic /\ ~timerMasked
    /\ initialCount = Ratio * elapsed
    /\ elapsed * Femtos > (WaitNanos - 1) * FemtosPerNano

\* Hpet::wait() ends.  nanoTime() begins anew when its product wraps, after
\* five hours: a wait across that moment would not see its end (hpet.h:37,44).
WaitEnds == boot = "wait" ~> boot # "wait"
=============================================================================
