-------------------------- MODULE VSyncStubTracker --------------------------
(***************************************************************************)
(* The two vsync predictors of VSyncDispatchRealtimeTest.cpp, which stand  *)
(* in for the real tracker: FixedRateIdealStubTracker, pulses at the       *)
(* multiples of a fixed period, and VRRStubTracker, whose period and       *)
(* anchor a test moves with set_interval between two predictions.          *)
(* Both answer under the tracker's mutex, so every call is one step.       *)
(* The tracker has no thread of its own: set_interval is a step of the     *)
(* test that calls it and a prediction is part of the schedule call that   *)
(* asks for it, in the modules that instantiate this one.                  *)
(***************************************************************************)
EXTENDS Integers

CONSTANTS
    Periods,        \* the periods a test sets, in ticks
    Times,          \* the time points a test asks about or anchors at
    InitialPeriod   \* StubTracker(period)

ASSUME /\ Periods \subseteq Nat \ {0}
       /\ Times \subseteq Nat
       /\ InitialPeriod \in Periods

VARIABLES
    mPeriod,        \* StubTracker::mPeriod
    mBase           \* VRRStubTracker::mBase

vars == <<mPeriod, mBase>>

-----------------------------------------------------------------------------

\* a % b of C++ for b > 0: the remainder has the sign of a.
Remainder(a, b) == IF a >= 0 THEN a % b ELSE -((-a) % b)

\* Mutation of RoundUp: a time point on a pulse is moved to the next one.
RoundUpPastPulse(timePoint, base, period) ==
    LET normalized == timePoint - base
    IN normalized - Remainder(normalized, period) + period + base

\* Mutation of RoundUp: the result is not moved back by the anchor.
RoundUpUnanchored(timePoint, base, period) ==
    LET normalized == timePoint - base
        floor == Remainder(normalized, period)
    IN IF floor = 0 THEN timePoint ELSE normalized - floor + period

\* VRRStubTracker::nextAnticipatedVSyncTimeFrom, and with base 0 the one of
\* FixedRateIdealStubTracker: a time point on a pulse is its own answer, any
\* other is moved to the end of its period.
RoundUp(timePoint, base, period) ==
    LET normalized == timePoint - base
        floor == Remainder(normalized, period)
    IN IF floor = 0 THEN timePoint ELSE normalized - floor + period + base

\* currentPeriod
CurrentPeriod == mPeriod

\* nextAnticipatedVSyncTimeFrom(timePoint, hint); the hint is not looked at.
NextAnticipatedVSyncTimeFrom(timePoint) == RoundUp(timePoint, mBase, mPeriod)

\* Mutation of SetInterval: the two arguments are taken for each other.
SetIntervalSwapped(interval, last_known) ==
    /\ mPeriod' = last_known
    /\ mBase' = interval

\* set_interval(interval, last_known)
SetInterval(interval, last_known) ==
    /\ mPeriod' = interval
    /\ mBase' = last_known

Init ==
    /\ mPeriod = InitialPeriod
    /\ mBase = 0

-----------------------------------------------------------------------------
(* Properties *)

TypeOK ==
    /\ mPeriod \in Periods
    /\ mBase \in Times

\* The pulses of the tracker as it is now: the anchor and every whole number
\* of periods before and after it.
IsPulse(t) == (t - mBase) % mPeriod = 0

\* The tracker's contract, "the next anticipated pulse at or after the
\* reference time": whatever period and anchor set_interval has left, the
\* answer for any time point is a pulse and is not before the time point.
\* It is what keeps a wakeup time from being computed for a pulse the client
\* can no longer make.
AnswerIsPulseNotBefore ==
    \A t \in Times :
        LET a == NextAnticipatedVSyncTimeFrom(t) IN IsPulse(a) /\ a >= t

\* For a time point at or after the anchor the answer is the first such
\* pulse, so a client that schedules once per pulse skips none: no pulse
\* lies between the time point and the answer.  (Before the anchor the
\* remainder of the C++ % is negative and the answer is one period late.)
AnswerIsFirstPulse ==
    \A t \in Times :
        t >= mBase => \A u \in t..(NextAnticipatedVSyncTimeFrom(t) - 1) : ~IsPulse(u)

=============================================================================
