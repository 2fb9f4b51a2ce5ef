-------------------------------- MODULE Clock --------------------------------
(***************************************************************************)
(* The platform's clock (src/plat/api/clock.rs): it turns the host's       *)
(* monotonic timer into TPM milliseconds, at a rate the library adjusts.   *)
(* ClockState is part of the platform state, so a saved state carries it   *)
(* into another process, whose timer started at another moment.            *)
(*                                                                         *)
(* A read that would let wrapping_sub wrap ends the process in every       *)
(* build: the next product overflows where overflow is checked, and where  *)
(* it is not, its quotient is still about 2^128 / adjust_rate and does     *)
(* not fit the u64 the read returns.  Both panic inside an extern "C"      *)
(* function.                                                               *)
(***************************************************************************)
EXTENDS Integers

CONSTANTS
  CLOCK_NOMINAL,        \* ticks per millisecond (30000)
  CLOCK_ADJUST_LIMIT,   \* how far the rate may move (5000)
  CLOCK_ADJUST_COARSE, CLOCK_ADJUST_MEDIUM, CLOCK_ADJUST_FINE,
  Adjustments,          \* the adjustments the library asks for
  Migration,            \* TRUE: states are restored under another timer
  MaxNow, MaxTpmTime,   \* bounds of the exploration
  NoClock

ASSUME RateAssumption ==
  /\ CLOCK_NOMINAL \in Nat /\ CLOCK_ADJUST_LIMIT \in Nat
  /\ CLOCK_ADJUST_LIMIT < CLOCK_NOMINAL
  /\ {CLOCK_ADJUST_COARSE, CLOCK_ADJUST_MEDIUM, CLOCK_ADJUST_FINE} \subseteq Nat
  /\ Adjustments \subseteq Int

ASSUME BoundAssumption ==
  Migration \in BOOLEAN /\ MaxNow \in Nat /\ MaxTpmTime \in Nat

VARIABLES
  clock,    \* ClockState
  now,      \* what callbacks.monotonic_timer() returns, in milliseconds
  saved,    \* the ClockState in the host's saved state, or NoClock
  aborted   \* TRUE: a read panicked

vars == <<clock, now, saved, aborted>>

LIMIT_LOW  == CLOCK_NOMINAL - CLOCK_ADJUST_LIMIT
LIMIT_HIGH == CLOCK_NOMINAL + CLOCK_ADJUST_LIMIT

ClockStates ==
  [adjust_rate : LIMIT_LOW .. LIMIT_HIGH,
   timer_reset : BOOLEAN, timer_stopped : BOOLEAN,
   last_system_time : Nat, last_reported_time : Nat,
   last_real_time : Nat, tpm_time : Nat]

ASSUME NoClockAssumption == NoClock \notin ClockStates

NewClock ==
  [adjust_rate |-> CLOCK_NOMINAL, timer_reset |-> TRUE, timer_stopped |-> TRUE,
   last_system_time |-> 0, last_reported_time |-> 0,
   last_real_time |-> 0, tpm_time |-> 0]

Init ==
  /\ clock = NewClock
  /\ now = 0
  /\ saved = NoClock
  /\ aborted = FALSE

-----------------------------------------------------------------------------
(* timer_read                                                              *)

\* The first read of a new clock.
Started(c, t) ==
  IF c.last_system_time = 0
  THEN [c EXCEPT !.last_system_time = t, !.last_reported_time = 0,
                 !.last_real_time = 0]
  ELSE c

\* The time the reported time is advanced from: the host's own when the host's
\* timer shows less than what was reported already.
Since(c, t) == IF t < c.last_reported_time THEN t ELSE c.last_system_time

ReadWraps(c, t) == c.last_reported_time + t < Since(c, t)

\* The reported time moves with the host's timer.
Reported(c, t) ==
  [c EXCEPT !.last_reported_time = @ + t - Since(c, t), !.last_system_time = t]

\* Mutant: rounding up.
AdjustedUp(diff, rate) == (diff * CLOCK_NOMINAL + rate - 1) \div rate

\* Milliseconds scaled by the rate, and back to what was used up of them.
Adjusted(diff, rate) == (diff * CLOCK_NOMINAL) \div rate
Readjusted(adjusted, rate) == (adjusted * rate) \div CLOCK_NOMINAL

\* Mutants: the rounding is not made good; the sampled time stays; there is no
\* early return.
AdvancedByDiff(c) ==
  LET diff == c.last_reported_time - c.last_real_time
  IN IF c.last_real_time >= c.last_reported_time
     THEN c
     ELSE [c EXCEPT !.tpm_time = @ + Adjusted(diff, c.adjust_rate),
                    !.last_real_time = @ + diff]

AdvancedInPlace(c) ==
  LET diff == c.last_reported_time - c.last_real_time
  IN IF c.last_real_time >= c.last_reported_time
     THEN c
     ELSE [c EXCEPT !.tpm_time = @ + Adjusted(diff, c.adjust_rate)]

AdvancedAlways(c) ==
  LET diff == c.last_reported_time - c.last_real_time
      adjusted == Adjusted(diff, c.adjust_rate)
  IN [c EXCEPT !.tpm_time = @ + adjusted,
               !.last_real_time = @ + Readjusted(adjusted, c.adjust_rate)]

\* The TPM's time follows what was reported since the last time it moved.
Advanced(c) ==
  LET diff == c.last_reported_time - c.last_real_time
      adjusted == Adjusted(diff, c.adjust_rate)
  IN IF c.last_real_time >= c.last_reported_time
     THEN c
     ELSE [c EXCEPT !.tpm_time = @ + adjusted,
                    !.last_real_time = @ + Readjusted(adjusted, c.adjust_rate)]

ReadAborts ==
  /\ ReadWraps(Started(clock, now), now)
  /\ aborted' = TRUE
  /\ UNCHANGED <<clock, now, saved>>

ReadSucceeds ==
  /\ ~ReadWraps(Started(clock, now), now)
  /\ clock' = Advanced(Reported(Started(clock, now), now))
  /\ UNCHANGED <<now, saved, aborted>>

\* _plat__TimerRead
TimerRead == clock.tpm_time < MaxTpmTime /\ (ReadAborts \/ ReadSucceeds)

-----------------------------------------------------------------------------
(* The rest of the platform's clock.                                       *)

TickDelta(adjustment) ==
  CASE adjustment = -3 -> CLOCK_ADJUST_COARSE
    [] adjustment = -2 -> CLOCK_ADJUST_MEDIUM
    [] adjustment = -1 -> CLOCK_ADJUST_FINE
    [] adjustment =  1 -> -CLOCK_ADJUST_FINE
    [] adjustment =  2 -> -CLOCK_ADJUST_MEDIUM
    [] adjustment =  3 -> -CLOCK_ADJUST_COARSE
    [] OTHER -> 0

\* Mutant: only the lower limit is kept.
ClampLow(rate) == IF rate < LIMIT_LOW THEN LIMIT_LOW ELSE rate

Clamp(rate) ==
  IF rate < LIMIT_LOW THEN LIMIT_LOW
  ELSE IF rate > LIMIT_HIGH THEN LIMIT_HIGH
  ELSE rate

\* _plat__ClockRateAdjust
ClockRateAdjust ==
  /\ \E a \in Adjustments :
       clock' = [clock EXCEPT !.adjust_rate = Clamp(@ + TickDelta(a))]
  /\ UNCHANGED <<now, saved, aborted>>

\* _plat__TimerWasReset and _plat__TimerWasStopped clear what they report.
TimerWasReset ==
  /\ clock' = [clock EXCEPT !.timer_reset = FALSE]
  /\ UNCHANGED <<now, saved, aborted>>

TimerWasStopped ==
  /\ clock' = [clock EXCEPT !.timer_stopped = FALSE]
  /\ UNCHANGED <<now, saved, aborted>>

\* timer_reset, from signal_power_on (initialize and reset).
PowerOn ==
  /\ clock' = NewClock
  /\ UNCHANGED <<now, saved, aborted>>

SaveState ==
  /\ saved' = clock
  /\ UNCHANGED <<clock, now, aborted>>

\* restore_state replaces the whole ClockState.
RestoreState ==
  /\ saved # NoClock
  /\ clock' = saved
  /\ UNCHANGED <<now, saved, aborted>>

\* The state is restored in another process: the timer starts anew.
Migrate ==
  /\ Migration
  /\ saved # NoClock
  /\ clock' = saved
  /\ now' \in 0 .. MaxNow
  /\ UNCHANGED <<saved, aborted>>

\* The host's timer is monotonic.
Tick ==
  /\ now < MaxNow
  /\ now' = now + 1
  /\ UNCHANGED <<clock, saved, aborted>>

Next ==
  /\ ~aborted
  /\ \/ TimerRead \/ ClockRateAdjust \/ TimerWasReset \/ TimerWasStopped
     \/ PowerOn \/ SaveState \/ RestoreState \/ Migrate \/ Tick

Spec == Init /\ [][Next]_vars

-----------------------------------------------------------------------------
(* Properties                                                              *)

\* Every variable has its type: the rate never leaves its limits.
TypeOK ==
  /\ clock \in ClockStates
  /\ now \in Nat
  /\ saved \in ClockStates \cup {NoClock}
  /\ aborted \in BOOLEAN

\* "We could not have use more time than we started with" (clock.rs:120-122):
\* the sampled time never passes the reported one, whatever the rate does
\* between two reads and whenever a saved state is restored.  (Under another
\* timer the reported time itself goes back.)
RealBehindReported == clock.last_real_time <= clock.last_reported_time

\* The TPM's time keeps up with the host's at the slowest rate, but for the two
\* milliseconds a read may leave: however often the clock is read, its rounding
\* does not add up to time lost (clock.rs:106-125, 166-168).
NotTooSlow ==
  (clock.last_reported_time - 2) * CLOCK_NOMINAL <= clock.tpm_time * LIMIT_HIGH

\* A read leaves at most two milliseconds for the next one to account for.
LittleLeft ==
  [][ReadSucceeds =>
       clock'.last_reported_time - clock'.last_real_time <= 2]_vars

\* The TPM's time never goes back (clock.rs:85-87) but by a power cycle or by
\* restoring an earlier state, even when the host's timer does.
TpmTimeMonotonic ==
  [][clock'.tpm_time >= clock.tpm_time \/ clock' \in {NewClock, saved}]_vars

\* While the library only slows the clock down, the TPM's time is never ahead
\* of the time that passed on the host, however often and whenever it is read
\* and however the rate changes between two reads.
NeverAhead == clock.tpm_time <= clock.last_reported_time

\* clock.rs:85-87: "The system time can bounce around and that's OK": no read
\* ends the process.
NeverPanics == ~aborted

\* clock.rs:166-168: the tolerance of the clock is the limit of its rate, so
\* the TPM's time is at most CLOCK_NOMINAL / LIMIT_LOW times the host's.
WithinTolerance ==
  clock.tpm_time * LIMIT_LOW <= clock.last_reported_time * CLOCK_NOMINAL
=============================================================================
