----------------------------- MODULE ClockProofs -----------------------------
(***************************************************************************)
(* Proofs about Clock, for every rate, limit and timer.  The inductive     *)
(* invariants speak of the clock and of the saved ClockState alike, since  *)
(* a restore makes one into the other.                                     *)
(***************************************************************************)
EXTENDS Clock, TLAPS

UpToSampled(c) == c.last_real_time <= c.last_reported_time
UsedAtLeast(c) == c.last_real_time * CLOCK_NOMINAL <= c.tpm_time * LIMIT_HIGH

\* The invariants under any timer, and under one timer only.
IUsed ==
  /\ TypeOK
  /\ UsedAtLeast(clock)
  /\ saved # NoClock => UsedAtLeast(saved)

Settled(c) == UpToSampled(c) /\ c.last_system_time <= now

IHere ==
  /\ TypeOK /\ ~aborted
  /\ Settled(clock)
  /\ saved # NoClock => Settled(saved)

-----------------------------------------------------------------------------
(* Arithmetic.                                                             *)

\* A quotient rounds down (the divisions of timer_read).
LEMMA DivRoundsDown ==
  ASSUME NEW a \in Nat, NEW b \in Nat, b > 0
  PROVE  a \div b \in Nat /\ (a \div b) * b <= a
  BY SMT

\* ... by less than the divisor.
LEMMA DivLosesLittle ==
  ASSUME NEW a \in Nat, NEW b \in Nat, b > 0
  PROVE  a < (a \div b) * b + b
  BY SMT

\* Products keep an order (used for the two scalings of timer_read).
LEMMA TimesMonotonic ==
  ASSUME NEW a \in Nat, NEW b \in Nat, NEW k \in Nat, a <= b
  PROVE  a * k <= b * k
  BY SMT

LEMMA TimesCancels ==
  ASSUME NEW a \in Nat, NEW b \in Nat, NEW k \in Nat, k > 0, a * k <= b * k
  PROVE  a <= b
  BY SMT

LEMMA TimesPlus ==
  ASSUME NEW a \in Nat, NEW b \in Nat, NEW k \in Nat
  PROVE  (a + b) * k = a * k + b * k
  BY SMT

\* Clamp keeps the rate within its limits (clock_rate_adjust).
LEMMA Limits ==
  /\ LIMIT_LOW \in Nat /\ LIMIT_HIGH \in Nat /\ CLOCK_NOMINAL \in Nat
  /\ 0 < LIMIT_LOW /\ LIMIT_LOW <= CLOCK_NOMINAL /\ CLOCK_NOMINAL <= LIMIT_HIGH
  BY RateAssumption DEF LIMIT_LOW, LIMIT_HIGH

LEMMA ClampInLimits ==
  ASSUME NEW r \in Int
  PROVE  Clamp(r) \in LIMIT_LOW .. LIMIT_HIGH
  BY Limits DEF Clamp

LEMMA TickDeltaInt ==
  ASSUME NEW a \in Int
  PROVE  TickDelta(a) \in Int
  BY RateAssumption DEF TickDelta

-----------------------------------------------------------------------------
(* timer_read, piece by piece.                                             *)

LEMMA NewClockTyped ==
  NewClock \in ClockStates /\ UpToSampled(NewClock) /\ UsedAtLeast(NewClock)
  BY Limits DEF NewClock, ClockStates, UpToSampled, UsedAtLeast

LEMMA StartedTyped ==
  ASSUME NEW c \in ClockStates, NEW t \in Nat
  PROVE  /\ Started(c, t) \in ClockStates
         /\ Started(c, t).tpm_time = c.tpm_time
         /\ UpToSampled(c) => UpToSampled(Started(c, t))
         /\ UsedAtLeast(c) => UsedAtLeast(Started(c, t))
         /\ c.last_system_time <= t => Started(c, t).last_system_time <= t
  <1>1. CASE c.last_system_time = 0
    <2> DEFINE d == [c EXCEPT !.last_system_time = t, !.last_reported_time = 0,
                              !.last_real_time = 0]
    <2>1. /\ d \in ClockStates /\ d.tpm_time = c.tpm_time
          /\ d.last_real_time = 0 /\ d.last_reported_time = 0
          /\ d.last_system_time = t
      BY DEF ClockStates
    <2>2. Started(c, t) = d
      BY <1>1 DEF Started
    <2>3. d.tpm_time * LIMIT_HIGH >= 0
      BY <2>1, Limits, SMT DEF ClockStates
    <2> QED
      BY <2>1, <2>2, <2>3, Limits DEF UpToSampled, UsedAtLeast
  <1>2. CASE c.last_system_time # 0
    BY <1>2 DEF Started
  <1> QED
    BY <1>1, <1>2

LEMMA ReportedTyped ==
  ASSUME NEW c \in ClockStates, NEW t \in Nat, ~ReadWraps(c, t)
  PROVE  /\ Reported(c, t) \in ClockStates
         /\ Reported(c, t).tpm_time = c.tpm_time
         /\ Reported(c, t).last_real_time = c.last_real_time
         /\ Reported(c, t).last_system_time = t
         /\ Reported(c, t).adjust_rate = c.adjust_rate
         /\ Reported(c, t).last_reported_time
              = c.last_reported_time + t - Since(c, t)
  <1>1. Since(c, t) \in Nat
    BY DEF Since, ClockStates
  <1>2. c.last_reported_time + t - Since(c, t) \in Nat
    BY <1>1 DEF ReadWraps, ClockStates
  <1> QED
    BY <1>2 DEF Reported, ClockStates

\* What the rounding of Adjusted and Readjusted can and cannot do.
LEMMA Scaling ==
  ASSUME NEW diff \in Nat, NEW rate \in LIMIT_LOW .. LIMIT_HIGH
  PROVE  LET adjusted == Adjusted(diff, rate)
             used == Readjusted(adjusted, rate)
         IN /\ adjusted \in Nat /\ used \in Nat
            /\ used <= diff
            /\ used * CLOCK_NOMINAL <= adjusted * LIMIT_HIGH
            /\ rate >= CLOCK_NOMINAL => adjusted <= used
  <1> DEFINE adjusted == Adjusted(diff, rate)
             used == Readjusted(adjusted, rate)
  <1>1. rate \in Nat /\ rate > 0 /\ rate <= LIMIT_HIGH
    BY Limits
  <1>2. diff * CLOCK_NOMINAL \in Nat
    BY Limits, SMT
  <1>3. adjusted \in Nat /\ adjusted * rate <= diff * CLOCK_NOMINAL
    BY <1>1, <1>2, DivRoundsDown DEF Adjusted
  <1>4. adjusted * rate \in Nat
    BY <1>1, <1>3, SMT
  <1>5. used \in Nat /\ used * CLOCK_NOMINAL <= adjusted * rate
    BY <1>4, Limits, DivRoundsDown DEF Readjusted
  <1>6. used * CLOCK_NOMINAL \in Nat
    BY <1>5, Limits, SMT
  <1>7. used <= diff
    <2>1. used * CLOCK_NOMINAL <= diff * CLOCK_NOMINAL
      BY <1>2, <1>3, <1>4, <1>5, <1>6
    <2> QED
      BY <1>5, <2>1, Limits, TimesCancels
  <1>8. used * CLOCK_NOMINAL <= adjusted * LIMIT_HIGH
    <2>1. adjusted * rate <= adjusted * LIMIT_HIGH
      BY <1>1, <1>3, Limits, SMT
    <2>2. adjusted * LIMIT_HIGH \in Nat
      BY <1>3, Limits, SMT
    <2> QED
      BY <1>4, <1>5, <1>6, <2>1, <2>2
  <1>9. ASSUME rate >= CLOCK_NOMINAL PROVE adjusted <= used
    BY <1>1, <1>3, <1>9, Limits, SMT DEF Readjusted
  <1> QED
    BY <1>3, <1>5, <1>7, <1>8, <1>9

\* What the two roundings lose together: of the time to account for, no more
\* than two milliseconds are left, and what is counted as used falls short of
\* what was added by less than one.
LEMMA ScalingLoses ==
  ASSUME NEW diff \in Nat, NEW rate \in LIMIT_LOW .. LIMIT_HIGH
  PROVE  LET adjusted == Adjusted(diff, rate)
             used == Readjusted(adjusted, rate)
         IN /\ diff - used <= 2
            /\ adjusted * rate <= diff * CLOCK_NOMINAL
            /\ adjusted * rate < used * CLOCK_NOMINAL + CLOCK_NOMINAL
  <1> DEFINE adjusted == Adjusted(diff, rate)
             used == Readjusted(adjusted, rate)
             given == diff * CLOCK_NOMINAL
             counted == adjusted * rate
  <1>1. rate \in Nat /\ rate > 0 /\ rate < CLOCK_NOMINAL + CLOCK_NOMINAL
    BY Limits, RateAssumption DEF LIMIT_HIGH
  <1>2. given \in Nat
    BY Limits, SMT
  <1>3. adjusted \in Nat /\ used \in Nat
    BY Scaling
  <1>4. counted <= given /\ given < counted + rate
    BY <1>1, <1>2, DivRoundsDown, DivLosesLittle DEF Adjusted
  <1>5. counted \in Nat
    BY <1>1, <1>3, SMT
  <1>6. counted < used * CLOCK_NOMINAL + CLOCK_NOMINAL
    <2>1. used = counted \div CLOCK_NOMINAL
      BY DEF Readjusted
    <2> HIDE DEF counted, used
    <2> QED
      BY <1>5, <2>1, Limits, DivLosesLittle
  <1>7. diff < used + 3
    <2>1. (used + 3) * CLOCK_NOMINAL = used * CLOCK_NOMINAL + 3 * CLOCK_NOMINAL
      BY <1>3, Limits, TimesPlus
    <2>2. used * CLOCK_NOMINAL \in Nat
      BY <1>3, Limits, SMT
    <2> HIDE DEF counted, used
    <2>3. given < used * CLOCK_NOMINAL + 3 * CLOCK_NOMINAL
      BY <1>1, <1>2, <1>4, <1>5, <1>6, <2>2, Limits
    <2>4. ~(used + 3 <= diff)
      BY <1>3, <2>1, <2>2, <2>3, Limits, TimesMonotonic
    <2> QED
      BY <1>3, <2>4
  <1> HIDE DEF used
  <1>8. diff - used <= 2
    BY <1>3, <1>7
  <1> QED
    BY <1>4, <1>6, <1>8 DEF used

LEMMA AdvancedKeeps ==
  ASSUME NEW c \in ClockStates
  PROVE  /\ Advanced(c) \in ClockStates
         /\ Advanced(c).tpm_time >= c.tpm_time
         /\ Advanced(c).last_system_time = c.last_system_time
         /\ Advanced(c).last_reported_time = c.last_reported_time
         /\ Advanced(c).adjust_rate = c.adjust_rate
         /\ UpToSampled(c) => UpToSampled(Advanced(c))
         /\ UsedAtLeast(c) => UsedAtLeast(Advanced(c))
  <1>1. CASE c.last_real_time >= c.last_reported_time
    <2>1. Advanced(c) = c
      BY <1>1 DEF Advanced
    <2> QED
      BY <2>1 DEF ClockStates
  <1>2. CASE ~(c.last_real_time >= c.last_reported_time)
    <2> DEFINE diff == c.last_reported_time - c.last_real_time
               adjusted == Adjusted(diff, c.adjust_rate)
               used == Readjusted(adjusted, c.adjust_rate)
               d == [c EXCEPT !.tpm_time = @ + adjusted,
                              !.last_real_time = @ + used]
    <2>1. diff \in Nat /\ c.adjust_rate \in LIMIT_LOW .. LIMIT_HIGH
      BY <1>2 DEF ClockStates
    <2>2. /\ adjusted \in Nat /\ used \in Nat /\ used <= diff
          /\ used * CLOCK_NOMINAL <= adjusted * LIMIT_HIGH
      BY <2>1, Scaling
    <2>3. Advanced(c) = d
      BY <1>2 DEF Advanced
    <2> HIDE DEF adjusted, used
    <2> DEFINE tpm2 == c.tpm_time + adjusted
               real2 == c.last_real_time + used
    <2>4a. tpm2 \in Nat /\ real2 \in Nat
      BY <2>2 DEF ClockStates
    <2>4b. d = [c EXCEPT !.tpm_time = tpm2, !.last_real_time = real2]
      BY DEF ClockStates
    <2> HIDE DEF tpm2, real2, d
    <2>4. /\ d \in ClockStates
          /\ d.tpm_time = tpm2
          /\ d.last_real_time = real2
          /\ d.last_system_time = c.last_system_time
          /\ d.last_reported_time = c.last_reported_time
          /\ d.adjust_rate = c.adjust_rate
      BY <2>4a, <2>4b DEF ClockStates
    <2>4c. /\ d.tpm_time = c.tpm_time + adjusted
          /\ d.last_real_time = c.last_real_time + used
      BY <2>4 DEF tpm2, real2
    <2>5. UpToSampled(d)
      BY <2>2, <2>4, <2>4c, <1>2 DEF UpToSampled, ClockStates
    <2>6. ASSUME UsedAtLeast(c) PROVE UsedAtLeast(d)
      <3> DEFINE real == c.last_real_time
                 tpm == c.tpm_time
      <3>1. real \in Nat /\ tpm \in Nat
        BY DEF ClockStates
      <3> HIDE DEF real, tpm
      <3>2. /\ (real + used) * CLOCK_NOMINAL
                  = real * CLOCK_NOMINAL + used * CLOCK_NOMINAL
            /\ (tpm + adjusted) * LIMIT_HIGH
                  = tpm * LIMIT_HIGH + adjusted * LIMIT_HIGH
        BY <2>2, <3>1, Limits, TimesPlus
      <3>3. /\ real * CLOCK_NOMINAL \in Nat /\ used * CLOCK_NOMINAL \in Nat
            /\ tpm * LIMIT_HIGH \in Nat /\ adjusted * LIMIT_HIGH \in Nat
        BY <2>2, <3>1, Limits, SMT
      <3>4. real * CLOCK_NOMINAL <= tpm * LIMIT_HIGH
        BY <2>6 DEF UsedAtLeast, real, tpm
      <3>5. (real + used) * CLOCK_NOMINAL <= (tpm + adjusted) * LIMIT_HIGH
        BY <2>2, <3>2, <3>3, <3>4
      <3> QED
        BY <2>4c, <3>5 DEF UsedAtLeast, real, tpm
    <2> QED
      BY <2>2, <2>3, <2>4, <2>4c, <2>5, <2>6 DEF ClockStates
  <1> QED
    BY <1>1, <1>2

\* One read of the timer, whole.
LEMMA ReadKeeps ==
  ASSUME TypeOK, ReadSucceeds
  PROVE  /\ clock' \in ClockStates
         /\ clock'.tpm_time >= clock.tpm_time
         /\ clock'.last_system_time = now
         /\ UsedAtLeast(clock) => UsedAtLeast(clock')
         /\ Settled(clock) => UpToSampled(clock')
  <1> DEFINE c == Started(clock, now)
             d == Reported(c, now)
  <1>1. clock \in ClockStates /\ now \in Nat /\ ~ReadWraps(c, now)
    BY DEF TypeOK, ReadSucceeds
  <1>2. /\ c \in ClockStates /\ c.tpm_time = clock.tpm_time
        /\ UpToSampled(clock) => UpToSampled(c)
        /\ UsedAtLeast(clock) => UsedAtLeast(c)
        /\ clock.last_system_time <= now => c.last_system_time <= now
    BY <1>1, StartedTyped
  <1> HIDE DEF c
  <1>3. /\ d \in ClockStates /\ d.tpm_time = c.tpm_time
        /\ d.last_real_time = c.last_real_time
        /\ d.last_system_time = now
        /\ d.last_reported_time = c.last_reported_time + now - Since(c, now)
    BY <1>1, <1>2, ReportedTyped
  <1>4. UsedAtLeast(c) => UsedAtLeast(d)
    BY <1>3 DEF UsedAtLeast
  <1>5. ASSUME UpToSampled(c), c.last_system_time <= now
        PROVE  UpToSampled(d)
    BY <1>1, <1>2, <1>3, <1>5 DEF UpToSampled, Since, ClockStates
  <1> HIDE DEF d
  <1>6. clock' = Advanced(d)
    BY DEF ReadSucceeds, d, c
  <1> QED
    BY <1>1, <1>2, <1>3, <1>4, <1>5, <1>6, AdvancedKeeps DEF Settled

\* How far one read leaves the sampled time behind, and how far it puts the
\* TPM's time beyond the tolerance.
LEMMA ReadLoses ==
  ASSUME TypeOK, ReadSucceeds
  PROVE  /\ clock'.last_reported_time - clock'.last_real_time <= 2
         /\ (clock'.tpm_time - clock.tpm_time) * LIMIT_LOW
              < (clock'.last_real_time - Started(clock, now).last_real_time + 1)
                  * CLOCK_NOMINAL
  <1> DEFINE c == Started(clock, now)
             d == Reported(c, now)
             diff == d.last_reported_time - d.last_real_time
             adjusted == Adjusted(diff, d.adjust_rate)
             used == Readjusted(adjusted, d.adjust_rate)
  <1>1. clock \in ClockStates /\ now \in Nat /\ ~ReadWraps(c, now)
    BY DEF TypeOK, ReadSucceeds
  <1>2. c \in ClockStates /\ c.tpm_time = clock.tpm_time
    BY <1>1, StartedTyped
  <1> HIDE DEF c
  <1>3. /\ d \in ClockStates /\ d.tpm_time = clock.tpm_time
        /\ d.last_real_time = c.last_real_time
    BY <1>1, <1>2, ReportedTyped
  <1> HIDE DEF d
  <1>4. clock' = Advanced(d)
    BY DEF ReadSucceeds, d, c
  <1>5. CASE d.last_real_time >= d.last_reported_time
    <2>1. clock' = d
      BY <1>4, <1>5 DEF Advanced
    <2>2. clock'.tpm_time - clock.tpm_time = 0
      BY <1>3, <2>1 DEF ClockStates
    <2>3. clock'.last_real_time - c.last_real_time = 0
      BY <1>3, <2>1 DEF ClockStates
    <2> QED
      BY <1>3, <1>5, <2>1, <2>2, <2>3, Limits DEF ClockStates, c
  <1>6. CASE ~(d.last_real_time >= d.last_reported_time)
    <2>1. diff \in Nat /\ d.adjust_rate \in LIMIT_LOW .. LIMIT_HIGH
      BY <1>3, <1>6 DEF ClockStates
    <2>2. /\ adjusted \in Nat /\ used \in Nat /\ diff - used <= 2
          /\ adjusted * d.adjust_rate < used * CLOCK_NOMINAL + CLOCK_NOMINAL
      BY <2>1, Scaling, ScalingLoses
    <2>3. /\ clock'.tpm_time = d.tpm_time + adjusted
          /\ clock'.last_real_time = d.last_real_time + used
          /\ clock'.last_reported_time = d.last_reported_time
      BY <1>3, <1>4, <1>6 DEF Advanced, ClockStates
    <2> HIDE DEF adjusted, used
    <2>4. clock'.last_reported_time - clock'.last_real_time <= 2
      BY <1>3, <2>2, <2>3 DEF ClockStates
    <2>5. adjusted * LIMIT_LOW < (used + 1) * CLOCK_NOMINAL
      <3>1. LIMIT_LOW * adjusted <= d.adjust_rate * adjusted
        BY <2>1, <2>2, Limits, TimesMonotonic
      <3>2. /\ LIMIT_LOW * adjusted = adjusted * LIMIT_LOW
            /\ d.adjust_rate * adjusted = adjusted * d.adjust_rate
        BY <2>1, <2>2, Limits, SMT
      <3>3. (used + 1) * CLOCK_NOMINAL = used * CLOCK_NOMINAL + 1 * CLOCK_NOMINAL
        BY <2>2, Limits, TimesPlus
      <3>4. /\ used * CLOCK_NOMINAL \in Nat /\ adjusted * LIMIT_LOW \in Nat
            /\ adjusted * d.adjust_rate \in Nat
        BY <2>1, <2>2, Limits, SMT
      <3> QED
        BY <2>2, <3>1, <3>2, <3>3, <3>4, Limits
    <2>6. clock'.tpm_time - clock.tpm_time = adjusted
      BY <1>1, <1>3, <2>2, <2>3 DEF ClockStates
    <2>7. clock'.last_real_time - c.last_real_time = used
      BY <1>2, <1>3, <2>2, <2>3 DEF ClockStates
    <2> QED
      BY <2>4, <2>5, <2>6, <2>7 DEF c
  <1> QED
    BY <1>5, <1>6

\* A rate adjustment, which changes nothing but the rate.
LEMMA AdjustKeeps ==
  ASSUME TypeOK, ClockRateAdjust
  PROVE  /\ clock' \in ClockStates
         /\ clock'.tpm_time = clock.tpm_time
         /\ clock'.last_real_time = clock.last_real_time
         /\ clock'.last_reported_time = clock.last_reported_time
         /\ clock'.last_system_time = clock.last_system_time
  <1>1. PICK a \in Adjustments :
          clock' = [clock EXCEPT !.adjust_rate = Clamp(@ + TickDelta(a))]
    BY DEF ClockRateAdjust
  <1>2. clock \in ClockStates /\ TickDelta(a) \in Int
    BY TickDeltaInt, RateAssumption DEF TypeOK
  <1>3. clock.adjust_rate + TickDelta(a) \in Int
    BY <1>2, Limits DEF ClockStates
  <1>4. Clamp(clock.adjust_rate + TickDelta(a)) \in LIMIT_LOW .. LIMIT_HIGH
    BY <1>3, ClampInLimits
  <1> QED
    BY <1>1, <1>2, <1>4 DEF ClockStates

\* Reading the two flags, which changes nothing but the flag.
LEMMA FlagsKeep ==
  ASSUME TypeOK, TimerWasReset \/ TimerWasStopped
  PROVE  /\ clock' \in ClockStates
         /\ clock'.tpm_time = clock.tpm_time
         /\ clock'.last_real_time = clock.last_real_time
         /\ clock'.last_reported_time = clock.last_reported_time
         /\ clock'.last_system_time = clock.last_system_time
  BY DEF TypeOK, TimerWasReset, TimerWasStopped, ClockStates

-----------------------------------------------------------------------------
(* The types, and the bound from below, under any timer.                   *)

LEMMA UsedInit == Init => IUsed
  <1> SUFFICES ASSUME Init PROVE IUsed
    OBVIOUS
  <1>1. /\ clock = NewClock /\ now \in Nat
        /\ saved = NoClock /\ aborted \in BOOLEAN
    BY DEF Init
  <1>2. UsedAtLeast(clock)
    BY <1>1, NewClockTyped
  <1> QED
    BY <1>1, <1>2, NewClockTyped DEF IUsed, TypeOK

LEMMA UsedNext == IUsed /\ [Next]_vars => IUsed'
  <1> SUFFICES ASSUME IUsed, [Next]_vars PROVE IUsed'
    OBVIOUS
  <1> USE DEF IUsed
  <1>1. CASE ReadSucceeds
    BY <1>1, ReadKeeps DEF TypeOK, ReadSucceeds
  <1>2. CASE ReadAborts
    BY <1>2 DEF TypeOK, ReadAborts
  <1>3. CASE ClockRateAdjust
    BY <1>3, AdjustKeeps DEF TypeOK, ClockRateAdjust, UsedAtLeast
  <1>4. CASE TimerWasReset
    BY <1>4, FlagsKeep DEF TypeOK, TimerWasReset, UsedAtLeast
  <1>5. CASE TimerWasStopped
    BY <1>5, FlagsKeep DEF TypeOK, TimerWasStopped, UsedAtLeast
  <1>6. CASE PowerOn
    BY <1>6, NewClockTyped DEF TypeOK, PowerOn
  <1>7. CASE SaveState
    BY <1>7 DEF TypeOK, SaveState
  <1>8. CASE RestoreState
    BY <1>8 DEF TypeOK, RestoreState
  <1>9. CASE Migrate
    BY <1>9, BoundAssumption DEF TypeOK, Migrate
  <1>10. CASE Tick
    BY <1>10 DEF TypeOK, Tick
  <1>11. CASE UNCHANGED vars
    BY <1>11 DEF TypeOK, vars
  <1> QED
    BY <1>1, <1>2, <1>3, <1>4, <1>5, <1>6, <1>7, <1>8, <1>9, <1>10, <1>11
       DEF Next, TimerRead

\* What the reads have used and added is in step here and in the saved clock,
\* whatever the timer shows and wherever a state is restored (timer_read).
THEOREM UsedInvariant == Spec => []IUsed
  BY UsedInit, UsedNext, PTL DEF Spec

\* The rate stays within its limits and no register goes below zero, whatever
\* the library asks for and wherever the state is restored.
THEOREM TypeCorrect == Spec => []TypeOK
  BY UsedInvariant, PTL DEF IUsed

\* The TPM's time never goes back but by a power cycle or a restore, whatever
\* the host's timer does.
THEOREM TimeMonotonic == Spec => TpmTimeMonotonic
  <1> DEFINE Forward ==
        clock'.tpm_time >= clock.tpm_time \/ clock' \in {NewClock, saved}
  <1>1. ASSUME IUsed, [Next]_vars PROVE [Forward]_vars
    <2>0. clock.tpm_time \in Nat
      BY <1>1 DEF IUsed, TypeOK, ClockStates
    <2>1. CASE ReadSucceeds
      BY <1>1, <2>1, ReadKeeps DEF IUsed
    <2>2. CASE ReadAborts \/ SaveState \/ Tick \/ UNCHANGED vars
      BY <2>0, <2>2 DEF ReadAborts, SaveState, Tick, vars
    <2>3. CASE ClockRateAdjust
      BY <1>1, <2>0, <2>3, AdjustKeeps DEF IUsed
    <2>4. CASE TimerWasReset \/ TimerWasStopped
      BY <1>1, <2>0, <2>4, FlagsKeep DEF IUsed
    <2>5. CASE PowerOn \/ RestoreState \/ Migrate
      BY <2>5 DEF PowerOn, RestoreState, Migrate
    <2> QED
      BY <1>1, <2>1, <2>2, <2>3, <2>4, <2>5 DEF Next, TimerRead
  <1>2. IUsed /\ [Next]_vars => [Forward]_vars
    BY <1>1
  <1> QED
    BY <1>2, UsedInvariant, PTL DEF Spec, TpmTimeMonotonic

\* A read leaves at most two milliseconds for the next one to account for,
\* whatever was left before and whatever the rate is (clock.rs:106-125).
THEOREM ReadLeavesLittle == Spec => LittleLeft
  <1> DEFINE Little == ReadSucceeds =>
        clock'.last_reported_time - clock'.last_real_time <= 2
  <1>1. IUsed /\ [Next]_vars => [Little]_vars
    BY ReadLoses DEF IUsed
  <1> QED
    BY <1>1, UsedInvariant, PTL DEF Spec, LittleLeft

\* How far the clock's tolerance is missed (WithinTolerance does not hold):
\* what a read adds is within the tolerance of what it counts as used, but for
\* less than one millisecond, which the next read counts again.
Overcount ==
  [][ReadSucceeds =>
       (clock'.tpm_time - clock.tpm_time) * LIMIT_LOW
         < (clock'.last_real_time - Started(clock, now).last_real_time + 1)
             * CLOCK_NOMINAL]_vars

\* For every rate, limit and timer: a read puts the TPM's time less than one
\* millisecond of the host's beyond the tolerance (clock.rs:106-125, 166-168).
THEOREM OvercountsByLessThanOne == Spec => Overcount
  <1> DEFINE Over == ReadSucceeds =>
        (clock'.tpm_time - clock.tpm_time) * LIMIT_LOW
          < (clock'.last_real_time - Started(clock, now).last_real_time + 1)
              * CLOCK_NOMINAL
  <1>1. IUsed /\ [Next]_vars => [Over]_vars
    BY ReadLoses DEF IUsed
  <1> QED
    BY <1>1, UsedInvariant, PTL DEF Spec, Overcount

\* What a read leaves is all that is ever left: nothing else moves the two
\* registers apart, and a restore brings back what a read left.
Left(c) == c.last_reported_time - c.last_real_time <= 2

ILeft == Left(clock) /\ (saved # NoClock => Left(saved))

LEMMA LeftNext == IUsed /\ ILeft /\ [Next]_vars => ILeft'
  <1> SUFFICES ASSUME IUsed, ILeft, [Next]_vars PROVE ILeft'
    OBVIOUS
  <1>0. TypeOK
    BY DEF IUsed
  <1>1. CASE ReadSucceeds
    BY <1>0, <1>1, ReadLoses DEF ILeft, Left, ReadSucceeds
  <1>2. CASE ClockRateAdjust
    BY <1>0, <1>2, AdjustKeeps DEF ILeft, Left, ClockRateAdjust
  <1>3. CASE TimerWasReset
    BY <1>0, <1>3, FlagsKeep DEF ILeft, Left, TimerWasReset
  <1>4. CASE TimerWasStopped
    BY <1>0, <1>4, FlagsKeep DEF ILeft, Left, TimerWasStopped
  <1>5. CASE PowerOn
    BY <1>5 DEF ILeft, Left, PowerOn, NewClock
  <1>6. CASE SaveState
    BY <1>6 DEF ILeft, SaveState
  <1>7. CASE RestoreState \/ Migrate
    BY <1>7 DEF ILeft, RestoreState, Migrate
  <1>8. CASE ReadAborts \/ Tick \/ UNCHANGED vars
    BY <1>8 DEF ILeft, ReadAborts, Tick, vars
  <1> QED
    BY <1>1, <1>2, <1>3, <1>4, <1>5, <1>6, <1>7, <1>8 DEF Next, TimerRead

\* For every rate, limit and timer, through power cycles, restores and other
\* timers: however often the clock is read, the rounding of its reads does not
\* add up to time lost (clock.rs:106-125, 166-168).
THEOREM ClockNotTooSlow == Spec => []NotTooSlow
  <1>1. Init => ILeft
    BY DEF Init, ILeft, Left, NewClock
  <1>2. ASSUME IUsed, ILeft PROVE NotTooSlow
    <2> DEFINE reported == clock.last_reported_time
               real == clock.last_real_time
               earned == clock.tpm_time * LIMIT_HIGH
    <2>1. reported \in Nat /\ real \in Nat /\ reported - 2 <= real
      BY <1>2 DEF IUsed, TypeOK, ILeft, Left, ClockStates
    <2>2. earned \in Nat /\ real * CLOCK_NOMINAL \in Nat
      BY <1>2, <2>1, Limits, SMT DEF IUsed, TypeOK, ClockStates
    <2>3. real * CLOCK_NOMINAL <= earned
      BY <1>2 DEF IUsed, UsedAtLeast
    <2> HIDE DEF reported, real, earned
    <2>4. (reported - 2) * CLOCK_NOMINAL <= real * CLOCK_NOMINAL
      BY <2>1, Limits, SMT
    <2>5. (reported - 2) * CLOCK_NOMINAL <= earned
      BY <2>1, <2>2, <2>3, <2>4, Limits, SMT
    <2> QED
      BY <2>5 DEF NotTooSlow, reported, earned
  <1> QED
    BY <1>1, <1>2, LeftNext, UsedInvariant, PTL DEF Spec

-----------------------------------------------------------------------------
(* Under one timer.                                                        *)

LEMMA HereInit == Init => IHere
  <1> SUFFICES ASSUME Init PROVE IHere
    OBVIOUS
  <1>1. /\ clock = NewClock /\ now \in Nat
        /\ saved = NoClock /\ aborted \in BOOLEAN
    BY DEF Init
  <1>2. ~aborted
    BY DEF Init
  <1>3. Settled(clock)
    BY <1>1, NewClockTyped DEF Init, Settled, NewClock
  <1> QED
    BY <1>1, <1>2, <1>3, NewClockTyped DEF IHere, TypeOK

\* The host's timer has not gone back since the last read, so that
\* wrapping_sub does not wrap.
LEMMA SettledReads ==
  ASSUME IHere
  PROVE  ~ReadWraps(Started(clock, now), now)
  <1> DEFINE c == Started(clock, now)
  <1>1. c \in ClockStates /\ now \in Nat /\ c.last_system_time <= now
    BY StartedTyped DEF IHere, TypeOK, Settled
  <1> HIDE DEF c
  <1>2. ~ReadWraps(c, now)
    BY <1>1 DEF ReadWraps, Since, ClockStates
  <1> QED
    BY <1>2 DEF c

LEMMA HereNext == ~Migration /\ IHere /\ [Next]_vars => IHere'
  <1> SUFFICES ASSUME ~Migration, IHere, [Next]_vars PROVE IHere'
    OBVIOUS
  <1>0. TypeOK /\ now \in Nat /\ ~aborted
    BY DEF IHere, TypeOK
  <1>1. CASE ReadSucceeds
    <2>1. UNCHANGED <<now, saved, aborted>>
      BY <1>1 DEF ReadSucceeds
    <2>2. clock' \in ClockStates /\ Settled(clock)'
      BY <1>0, <1>1, <2>1, ReadKeeps DEF IHere, Settled
    <2> QED
      BY <1>0, <2>1, <2>2 DEF IHere, TypeOK, Settled
  <1>2. CASE ReadAborts
    BY <1>2, SettledReads DEF ReadAborts
  <1>3. CASE ClockRateAdjust
    BY <1>3, <1>0, AdjustKeeps
       DEF IHere, TypeOK, ClockRateAdjust, Settled, UpToSampled
  <1>4. CASE TimerWasReset
    BY <1>4, <1>0, FlagsKeep
       DEF IHere, TypeOK, TimerWasReset, Settled, UpToSampled
  <1>5. CASE TimerWasStopped
    BY <1>5, <1>0, FlagsKeep
       DEF IHere, TypeOK, TimerWasStopped, Settled, UpToSampled
  <1>6. CASE PowerOn
    BY <1>6, <1>0, NewClockTyped DEF IHere, TypeOK, PowerOn, Settled, NewClock
  <1>7. CASE SaveState
    BY <1>7, <1>0 DEF IHere, TypeOK, SaveState, Settled
  <1>8. CASE RestoreState
    BY <1>8, <1>0 DEF IHere, TypeOK, RestoreState, Settled
  <1>9. CASE Tick
    BY <1>9, <1>0 DEF IHere, TypeOK, Tick, Settled, ClockStates
  <1>10. CASE UNCHANGED vars
    BY <1>10, <1>0 DEF IHere, TypeOK, vars, Settled
  <1> QED
    BY <1>1, <1>2, <1>3, <1>4, <1>5, <1>6, <1>7, <1>8, <1>9, <1>10
       DEF Next, TimerRead, Migrate

\* Without restores under another timer both clocks stay behind their timer
\* (timer_read, restore_state).
THEOREM HereInvariant == ASSUME ~Migration PROVE Spec => []IHere
  BY HereInit, HereNext, PTL DEF Spec

\* As long as states are restored under the timer they were saved under, the
\* sampled time never passes the reported time (clock.rs:120-122).
THEOREM RealNeverAhead ==
  ASSUME ~Migration PROVE Spec => []RealBehindReported
  <1>1. IHere => RealBehindReported
    BY DEF IHere, Settled, UpToSampled, RealBehindReported
  <1> QED
    BY <1>1, HereInvariant, PTL

\* ... and no read of the timer ends the process.
THEOREM ReadsNeverPanic ==
  ASSUME ~Migration PROVE Spec => []NeverPanics
  <1>1. IHere => NeverPanics
    BY DEF IHere, NeverPanics
  <1> QED
    BY <1>1, HereInvariant, PTL

-----------------------------------------------------------------------------
(* While the library only slows the clock down.                            *)

Slow(c) ==
  /\ c.adjust_rate >= CLOCK_NOMINAL
  /\ c.tpm_time <= c.last_real_time
  /\ c.last_system_time = 0 => c.tpm_time = 0

ISlow == Slow(clock) /\ (saved # NoClock => Slow(saved))

OnlySlower == Adjustments \subseteq {-3, -2, -1, 0}

\* A read of a slow clock: what it counts as used is at least what it adds.
LEMMA SlowReads ==
  ASSUME IHere, Slow(clock), ReadSucceeds
  PROVE  Slow(clock')
  <1> DEFINE c == Started(clock, now)
             d == Reported(c, now)
             diff == d.last_reported_time - d.last_real_time
             adjusted == Adjusted(diff, d.adjust_rate)
             used == Readjusted(adjusted, d.adjust_rate)
  <1>1. clock \in ClockStates /\ now \in Nat /\ clock.last_system_time <= now
    BY DEF IHere, TypeOK, Settled
  <1>2. /\ c \in ClockStates /\ c.tpm_time <= c.last_real_time
        /\ c.adjust_rate >= CLOCK_NOMINAL
        /\ now = 0 => c.last_reported_time = 0 /\ c.tpm_time = 0
                         /\ c.last_system_time = 0
    <2>1. CASE clock.last_system_time = 0
      <3>1. c = [clock EXCEPT !.last_system_time = now,
                              !.last_reported_time = 0, !.last_real_time = 0]
        BY <2>1 DEF Started
      <3>2. /\ c.last_reported_time = 0 /\ c.last_real_time = 0
            /\ c.last_system_time = now /\ c.adjust_rate = clock.adjust_rate
            /\ c.tpm_time = clock.tpm_time
        BY <1>1, <3>1 DEF ClockStates
      <3>3. c \in ClockStates
        BY <1>1, StartedTyped
      <3> HIDE DEF c
      <3> QED
        BY <2>1, <3>2, <3>3 DEF Slow
    <2>2. CASE clock.last_system_time # 0
      <3>1. c = clock
        BY <2>2 DEF Started
      <3>2. now # 0
        BY <1>1, <2>2 DEF ClockStates
      <3> HIDE DEF c
      <3> QED
        BY <1>1, <3>1, <3>2 DEF Slow
    <2> QED
      BY <2>1, <2>2
  <1>3. ~ReadWraps(c, now)
    BY SettledReads
  <1> HIDE DEF c
  <1>4. /\ d \in ClockStates /\ d.tpm_time <= d.last_real_time
        /\ d.adjust_rate >= CLOCK_NOMINAL /\ d.last_system_time = now
        /\ now = 0 => d.last_reported_time = 0 /\ d.tpm_time = 0
    BY <1>1, <1>2, <1>3, ReportedTyped DEF Since, ClockStates
  <1> HIDE DEF d
  <1>5. clock' = Advanced(d)
    BY DEF ReadSucceeds, d, c
  <1>6. CASE d.last_real_time >= d.last_reported_time
    BY <1>4, <1>5, <1>6 DEF Advanced, Slow, ClockStates
  <1>7. CASE ~(d.last_real_time >= d.last_reported_time)
    <2>1. diff \in Nat /\ d.adjust_rate \in LIMIT_LOW .. LIMIT_HIGH
      BY <1>4, <1>7 DEF ClockStates
    <2>2. adjusted \in Nat /\ used \in Nat /\ adjusted <= used
      BY <1>4, <2>1, Scaling
    <2>3. /\ clock'.tpm_time = d.tpm_time + adjusted
          /\ clock'.last_real_time = d.last_real_time + used
          /\ clock'.adjust_rate = d.adjust_rate
          /\ clock'.last_system_time = now
      BY <1>4, <1>5, <1>7 DEF Advanced, ClockStates
    <2>4. now # 0
      BY <1>4, <1>7 DEF ClockStates
    <2> HIDE DEF adjusted, used
    <2> QED
      BY <1>4, <2>2, <2>3, <2>4 DEF Slow, ClockStates
  <1> QED
    BY <1>6, <1>7

\* An adjustment that slows down keeps the rate at or above the nominal one.
LEMMA SlowAdjusts ==
  ASSUME OnlySlower, TypeOK, Slow(clock), ClockRateAdjust
  PROVE  Slow(clock')
  <1>1. PICK a \in Adjustments :
          clock' = [clock EXCEPT !.adjust_rate = Clamp(@ + TickDelta(a))]
    BY DEF ClockRateAdjust
  <1>2. TickDelta(a) \in Nat
    BY RateAssumption DEF OnlySlower, TickDelta
  <1>3. clock \in ClockStates
    BY DEF TypeOK
  <1>4. clock.adjust_rate + TickDelta(a) >= CLOCK_NOMINAL
    BY <1>2, <1>3, Limits DEF Slow, ClockStates
  <1>5. Clamp(clock.adjust_rate + TickDelta(a)) >= CLOCK_NOMINAL
    BY <1>2, <1>3, <1>4, Limits DEF Clamp, ClockStates
  <1>6. clock'.adjust_rate >= CLOCK_NOMINAL
    BY <1>1, <1>3, <1>5 DEF ClockStates
  <1> QED
    BY <1>3, <1>6, AdjustKeeps DEF Slow

LEMMA SlowNext ==
  ASSUME ~Migration, OnlySlower
  PROVE  IHere /\ ISlow /\ [Next]_vars => ISlow'
  <1> SUFFICES ASSUME IHere, ISlow, [Next]_vars PROVE ISlow'
    OBVIOUS
  <1>0. TypeOK /\ Slow(clock) /\ (saved # NoClock => Slow(saved))
    BY DEF IHere, ISlow
  <1>1. CASE ReadSucceeds
    BY <1>0, <1>1, SlowReads DEF ISlow, ReadSucceeds
  <1>2. CASE ReadAborts
    BY <1>2, SettledReads DEF ReadAborts
  <1>3. CASE ClockRateAdjust
    BY <1>0, <1>3, SlowAdjusts DEF ISlow, ClockRateAdjust
  <1>4. CASE TimerWasReset
    <2>1. clock'.adjust_rate = clock.adjust_rate
      BY <1>0, <1>4 DEF TimerWasReset, TypeOK, ClockStates
    <2> QED
      BY <1>0, <1>4, <2>1, FlagsKeep DEF ISlow, TimerWasReset, Slow
  <1>5. CASE TimerWasStopped
    <2>1. clock'.adjust_rate = clock.adjust_rate
      BY <1>0, <1>5 DEF TimerWasStopped, TypeOK, ClockStates
    <2> QED
      BY <1>0, <1>5, <2>1, FlagsKeep DEF ISlow, TimerWasStopped, Slow
  <1>6. CASE PowerOn
    <2>1. Slow(NewClock)
      BY Limits DEF Slow, NewClock
    <2> QED
      BY <1>0, <1>6, <2>1 DEF ISlow, PowerOn
  <1>7. CASE SaveState \/ RestoreState
    BY <1>0, <1>7 DEF ISlow, SaveState, RestoreState
  <1>8. CASE Tick \/ UNCHANGED vars
    BY <1>0, <1>8 DEF ISlow, Tick, vars
  <1> QED
    BY <1>1, <1>2, <1>3, <1>4, <1>5, <1>6, <1>7, <1>8
       DEF Next, TimerRead, Migrate

\* For every rate, limit and timer: a clock that is only ever slowed down is
\* never ahead of the host's time, however often it is read.
THEOREM SlowNeverAhead ==
  ASSUME ~Migration, OnlySlower
  PROVE  Spec => []NeverAhead
  <1>1. Init => ISlow
    <2> SUFFICES ASSUME Init PROVE ISlow
      OBVIOUS
    <2>1. Slow(NewClock)
      BY Limits DEF Slow, NewClock
    <2>2. clock = NewClock /\ saved = NoClock
      BY DEF Init
    <2> QED
      BY <2>1, <2>2 DEF ISlow
  <1>2. IHere /\ ISlow => NeverAhead
    BY DEF IHere, ISlow, TypeOK, Settled, UpToSampled, Slow, NeverAhead,
           ClockStates
  <1> QED
    BY <1>1, <1>2, SlowNext, HereInvariant, PTL DEF Spec
=============================================================================
