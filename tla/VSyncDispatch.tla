---------------------------- MODULE VSyncDispatch ----------------------------
(***************************************************************************)
(* The dispatch engine the realtime test drives (VSyncDispatchTimerQueue), *)
(* its callback registrations and its timer, after spec.md: sections 3     *)
(* and 4 give the operations, section 5 the lock and section 6 the         *)
(* contracts of timer and tracker.  The tracker is the stub tracker of     *)
(* the test, module VSyncStubTracker.                                      *)
(*                                                                         *)
(* Every public operation runs under the engine's one lock and is one      *)
(* step.  A timer firing is several: the due registrations are collected   *)
(* under the lock, their callbacks are invoked one after another without   *)
(* it, and the next deadline is computed under it again.                   *)
(*                                                                         *)
(* The state of a registration is not stored.  It follows from what the    *)
(* engine holds for the handle: Dispatching while a target of it is in     *)
(* flight, else Scheduled while it has a pending target, else Disarmed.    *)
(***************************************************************************)
EXTENDS Integers, FiniteSets, FiniteSetsExt

CONSTANTS
    Handles,            \* the registration handles clients can hold
    GroupThreshold,     \* tolerance within which one firing serves a target
    MoveThreshold,      \* least change of the deadline worth re-arming for
    MaxLate,            \* the timer fires at most this long after its deadline
    MaxStale,           \* a caller's lastKnownPulse is at most this old
    Durations,          \* the <<workDuration, readyDuration>> callers ask for
    Periods, Times, InitialPeriod, NULL     \* of the tracker

ASSUME /\ GroupThreshold \in Nat
       /\ MoveThreshold \in Nat
       /\ MaxLate \in Nat
       /\ MaxStale \in Nat
       /\ Durations \subseteq Nat \X Nat

VARIABLES
    registered,         \* the handles registerCallback has given out
    target,             \* target[h]: the pending target of h, or NULL
    inflight,           \* inflight[h]: the target h is being dispatched for
    armed,              \* the deadline the timer is armed for, or NULL
    now,                \* the monotonic clock
    firedTime,          \* the firing the timer thread is serving, or NULL
    running,            \* the handle whose callback is running, or NULL
    releasing,          \* handles whose unregisterCallback has not returned
    mPeriod, mBase      \* the tracker's period and anchor

Tracker == INSTANCE VSyncStubTracker

regVars     == <<registered, target, releasing>>
timerVars   == <<armed, firedTime, inflight, running>>
trackerVars == <<mPeriod, mBase>>
vars        == <<regVars, timerVars, now, trackerVars>>

-----------------------------------------------------------------------------
(* Registrations *)

\* The state of a registration (spec.md section 3).
State(h) ==
    CASE h \notin registered -> "Released"
      [] inflight[h] # NULL  -> "Dispatching"
      [] target[h] # NULL    -> "Scheduled"
      [] OTHER               -> "Disarmed"

Scheduled == {h \in Handles : State(h) = "Scheduled"}

Distance(a, b) == IF a >= b THEN a - b ELSE b - a

\* The registrations recomputeNextDeadline scans once targets are tgt and the
\* targets in flight are fl.
ScheduledAfter(tgt, fl) ==
    {h \in registered : tgt[h] # NULL /\ fl[h] = NULL}

\* Mutation of RecomputeNextDeadline: a deadline that is armed is kept.
RecomputeKeepsArmed(tgt, fl) ==
    LET wakeups == {tgt[h].wakeupTime : h \in ScheduledAfter(tgt, fl)}
    IN IF armed # NULL THEN armed
       ELSE IF wakeups = {} THEN NULL ELSE Min(wakeups)

\* recomputeNextDeadline: the deadline the timer is left armed for.  The
\* least pending wakeup time is armed if nothing is, or if it is at least the
\* move threshold away from what is; with nothing pending the timer is
\* disarmed.
RecomputeNextDeadline(tgt, fl) ==
    LET wakeups == {tgt[h].wakeupTime : h \in ScheduledAfter(tgt, fl)}
    IN IF wakeups = {} THEN NULL
       ELSE IF armed = NULL \/ Distance(Min(wakeups), armed) >= MoveThreshold
            THEN Min(wakeups)
            ELSE armed

\* registerCallback: bookkeeping only.
RegisterCallback(h) ==
    /\ h \notin registered
    /\ registered' = registered \cup {h}
    /\ UNCHANGED <<target, releasing, timerVars, now, trackerVars>>

\* Mutation of WakeupTime: the lead is not taken off the pulse.
WakeupAtPulse(pulse, work, ready) == pulse

\* The moment the callback has to run to be done by the pulse.
WakeupTime(pulse, work, ready) == pulse - work - ready

\* schedule(workDuration, readyDuration, lastKnownPulse): the tracker is
\* asked for the first pulse the client can still make, the target replaces
\* whatever was pending, and the timer is armed for the new minimum.
Schedule(h, work, ready, lastKnownPulse) ==
    LET earliestVsyncTime == lastKnownPulse + work + ready
        pulse == Tracker!NextAnticipatedVSyncTimeFrom(earliestVsyncTime)
        tgt == [target EXCEPT ![h] =
                   [wakeupTime      |-> WakeupTime(pulse, work, ready),
                    targetPulseTime |-> pulse]]
    IN /\ h \in registered
       /\ target' = tgt
       /\ armed' = RecomputeNextDeadline(tgt, inflight)
       /\ UNCHANGED <<registered, releasing, firedTime, inflight, running, now,
                      trackerVars>>

\* Mutation of Cancel: the timer is left as it is.
CancelLeavesTimer(h) ==
    /\ h \in registered
    /\ target' = [target EXCEPT ![h] = NULL]
    /\ UNCHANGED <<registered, releasing, timerVars, now, trackerVars>>

\* cancel: the pending target goes, an invocation in progress is not touched.
Cancel(h) ==
    /\ h \in registered
    /\ target' = [target EXCEPT ![h] = NULL]
    /\ armed' = RecomputeNextDeadline(target', inflight)
    /\ UNCHANGED <<registered, releasing, firedTime, inflight, running, now,
                   trackerVars>>

\* A dispatch of h has been collected and its callback has not returned.
InFlight(h) == inflight[h] # NULL

\* Mutation of UnregisterCallback: it does not wait for a dispatch in flight.
UnregisterWithoutWaiting(h) ==
    /\ h \in registered \ releasing
    /\ target' = [target EXCEPT ![h] = NULL]
    /\ armed' = RecomputeNextDeadline(target', inflight)
    /\ registered' = registered \ {h}
    /\ UNCHANGED <<releasing, firedTime, inflight, running, now, trackerVars>>

\* unregisterCallback: the pending target is cancelled, and the bookkeeping
\* removed unless a dispatch of the handle is in flight; then the caller
\* blocks.
UnregisterCallback(h) ==
    /\ h \in registered \ releasing
    /\ target' = [target EXCEPT ![h] = NULL]
    /\ armed' = RecomputeNextDeadline(target', inflight)
    /\ \/ /\ ~InFlight(h)
          /\ registered' = registered \ {h}
          /\ UNCHANGED releasing
       \/ /\ InFlight(h)
          /\ releasing' = releasing \cup {h}
          /\ UNCHANGED registered
    /\ UNCHANGED <<firedTime, inflight, running, now, trackerVars>>

\* Mutation of UnregisterReturns: what was scheduled meanwhile is left.
UnregisterReturnsKeepsTarget(h) ==
    /\ h \in releasing
    /\ ~InFlight(h)
    /\ registered' = registered \ {h}
    /\ releasing' = releasing \ {h}
    /\ UNCHANGED <<target, timerVars, now, trackerVars>>

\* The blocked unregisterCallback returns once the dispatch is over: the
\* bookkeeping is removed, and with it a target the callback, or another
\* thread, scheduled while the caller was blocked.
UnregisterReturns(h) ==
    /\ h \in releasing
    /\ ~InFlight(h)
    /\ target' = [target EXCEPT ![h] = NULL]
    /\ armed' = RecomputeNextDeadline(target', inflight)
    /\ registered' = registered \ {h}
    /\ releasing' = releasing \ {h}
    /\ UNCHANGED <<firedTime, inflight, running, now, trackerVars>>

-----------------------------------------------------------------------------
(* The timer and its thread *)

\* The registrations a firing at t serves.
Due(t) ==
    {h \in Scheduled : Distance(target[h].wakeupTime, t) <= GroupThreshold}

\* There is one timer thread: it takes a firing when it is done with the last.
TimerThreadIdle == firedTime = NULL

\* onTimerFired, first part: the alarm goes off at or after its deadline
\* and the due registrations become Dispatching.
OnTimerFired ==
    /\ armed # NULL
    /\ now >= armed
    /\ TimerThreadIdle
    /\ firedTime' = now
    /\ armed' = NULL
    /\ inflight' = [h \in Handles |-> IF h \in Due(now) THEN target[h] ELSE NULL]
    /\ target' = [h \in Handles |-> IF h \in Due(now) THEN NULL ELSE target[h]]
    /\ UNCHANGED <<registered, releasing, running, now, trackerVars>>

\* What the callback of h is called with: the time of the firing, the same
\* for all of the group, its wakeup time and the pulse it was computed for.
CallbackArguments(h) ==
    [actualInvocationTime |-> firedTime,
     targetWakeupTime     |-> inflight[h].wakeupTime,
     predictedPulseTime   |-> inflight[h].targetPulseTime]

\* The timer thread calls the callback of one of the group, in any order.
InvokeCallback(h) ==
    /\ firedTime # NULL
    /\ running = NULL
    /\ InFlight(h)
    /\ running' = h
    /\ UNCHANGED <<regVars, armed, firedTime, inflight, now, trackerVars>>

\* The callback returns: the registration is Disarmed, or Scheduled if it
\* was scheduled again meanwhile.
CallbackReturns ==
    /\ running # NULL
    /\ inflight' = [inflight EXCEPT ![running] = NULL]
    /\ running' = NULL
    /\ UNCHANGED <<regVars, armed, firedTime, now, trackerVars>>

\* onTimerFired, last part: with the whole group served the timer is armed
\* for the next pending target.
FinishFiring ==
    /\ firedTime # NULL
    /\ running = NULL
    /\ \A h \in Handles : ~InFlight(h)
    /\ armed' = RecomputeNextDeadline(target, inflight)
    /\ firedTime' = NULL
    /\ UNCHANGED <<regVars, inflight, running, now, trackerVars>>

\* Time passes.  It does not pass the moment by which the timer has to have
\* fired, and a firing is served without delay.
Tick ==
    /\ now + 1 \in Times
    /\ firedTime = NULL
    /\ armed # NULL => now < armed + MaxLate
    /\ now' = now + 1
    /\ UNCHANGED <<regVars, timerVars, trackerVars>>

TimerThread ==
    \/ OnTimerFired
    \/ \E h \in Handles : InvokeCallback(h)
    \/ CallbackReturns
    \/ FinishFiring

-----------------------------------------------------------------------------
(* The engine with any clients *)

\* A client schedules for a pulse it knows of.
ClientSchedules(h) ==
    \E d \in Durations, last \in Times :
        /\ last + MaxStale >= now
        /\ last + d[1] + d[2] \in Times
        /\ Schedule(h, d[1], d[2], last)

\* The rate changes under the engine: the tracker may answer with another
\* period and phase from one call to the next.
RateChanges ==
    /\ \E p \in Periods, t \in 0..now : Tracker!SetInterval(p, t)
    /\ UNCHANGED <<regVars, timerVars, now>>

Init ==
    /\ registered = {}
    /\ target = [h \in Handles |-> NULL]
    /\ inflight = [h \in Handles |-> NULL]
    /\ releasing = {}
    /\ armed = NULL
    /\ firedTime = NULL
    /\ running = NULL
    /\ now = 0
    /\ Tracker!Init

\* A handle whose owner is blocked in unregisterCallback is used by nobody
\* but its own callback, while the timer thread runs it ("re-entrant
\* scheduling").
UsableBy(h) == h \in releasing => running = h

\* What clients do with a handle.
Client(h) ==
    \/ RegisterCallback(h)
    \/ UsableBy(h) /\ ClientSchedules(h)
    \/ UsableBy(h) /\ Cancel(h)
    \/ UnregisterCallback(h)
    \/ UnregisterReturns(h)

Next ==
    \/ \E h \in Handles : Client(h)
    \/ TimerThread
    \/ Tick
    \/ RateChanges

Spec == Init /\ [][Next]_vars

-----------------------------------------------------------------------------
(* Properties *)

Targets == [wakeupTime : Int, targetPulseTime : Int]

TypeOK ==
    /\ registered \subseteq Handles
    /\ releasing \subseteq registered
    /\ target \in [Handles -> Targets \cup {NULL}]
    /\ inflight \in [Handles -> Targets \cup {NULL}]
    /\ armed \in Int \cup {NULL}
    /\ now \in Times
    /\ firedTime \in Times \cup {NULL}
    /\ running \in Handles \cup {NULL}
    /\ running # NULL => firedTime # NULL /\ InFlight(running)
    /\ Tracker!TypeOK

\* "At most one armed deadline exists; it equals the minimum wakeupTime
\* across all Scheduled registrations, unless none is Scheduled (timer
\* disarmed)", as far as "re-arming is skipped if the new minimum differs
\* by less than the move threshold" lets it: whenever the timer thread is
\* idle the timer is armed if and only if a registration is Scheduled, and
\* the deadline is less than the move threshold away from the least wakeup
\* time.  Every operation that changes a target has to call
\* recomputeNextDeadline for this (spec.md sections 3, 4.2 and 8).
ArmedNearMinimum ==
    firedTime = NULL =>
        IF Scheduled = {} THEN armed = NULL
        ELSE /\ armed # NULL
             /\ Distance(armed, Min({target[h].wakeupTime : h \in Scheduled}))
                    < MoveThreshold

\* No Scheduled registration is left behind: its wakeup time is never so
\* long ago that the firing window, wakeupTime within the group threshold of
\* the time of the firing, can no longer reach it.  A registration that
\* fell out of the window would be passed over by every later firing (spec.md
\* section 4.2, onTimerFired, and section 6, "never early").
NotOverdue ==
    \A h \in Scheduled : now <= target[h].wakeupTime + GroupThreshold

\* unregisterCallback "guarantees no dangling invocation after return": a
\* handle that is not registered has no pending target and no dispatch in
\* flight, also when unregisterCallback met its callback running and the
\* callback scheduled its registration again before it returned.
ReleasedIsQuiet ==
    \A h \in Handles \ registered : target[h] = NULL /\ inflight[h] = NULL

\* The tracker's contract as schedule relies on it, in every state the rate
\* changes lead to: the pulse a target is computed from is a pulse, and not
\* before the earliest time the client can make.
PredictionIsPulseNotBefore == Tracker!AnswerIsPulseNotBefore

\* And it is the first such pulse when the time asked about is not before
\* the tracker's anchor, so that no client is moved back a whole period.
PredictionIsFirstPulse == Tracker!AnswerIsFirstPulse

=============================================================================
