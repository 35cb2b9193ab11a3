---------------------- MODULE VSyncDispatchRealtimeTest ----------------------
(***************************************************************************)
(* The three tests of VSyncDispatchRealtimeTest.cpp: triple_alarm,         *)
(* vascillating_vrr and fixed_jump.  Each makes a dispatch (module         *)
(* VSyncDispatch) over a stub tracker and one or three                     *)
(* RepeatingCallbackReceivers, runs repeatedly_schedule of each receiver   *)
(* in a thread of its own and expects as many callbacks as iterations.     *)
(*                                                                         *)
(* A behaviour is one test, chosen in the initial state.  Time is in ticks *)
(* of half a millisecond.  The threads of a test run as soon as they can:  *)
(* no time passes while one of them has a step to take.                    *)
(***************************************************************************)
EXTENDS Integers, Sequences, FiniteSets

CONSTANTS
    Tests,              \* the tests that are run
    Clients,            \* the receivers a test can have: 1..num_clients
    Iterations,         \* mIterations
    JumpFrameAt,        \* jump_frame_at of fixed_jump
    GroupThreshold,     \* mDispatchGroupThreshold
    MoveThreshold,      \* mVsyncMoveThreshold
    MaxLate,            \* how late the Timer fires
    Periods, Times, InitialPeriod, NULL

ASSUME /\ Tests \subseteq {"triple_alarm", "vascillating_vrr", "fixed_jump"}
       /\ Iterations \in Nat \ {0}

VARIABLES
    test,               \* the test that is running
    pc,                 \* pc[r]: where the thread of receiver r is
    i,                  \* i[r]: its loop counter
    last,               \* last[r]: its copy of mLastTarget
    mCalled, mLastTarget, mCallbackTimes,   \* of each receiver
    registered, target, inflight, armed, now, firedTime, running, releasing,
    mPeriod, mBase

D == INSTANCE VSyncDispatch
        WITH Handles <- Clients, MaxStale <- 0, Durations <- {}

receiverVars == <<mCalled, mLastTarget, mCallbackTimes>>
threadVars   == <<pc, i, last>>
testVars     == <<test, threadVars, receiverVars>>
regVars      == <<registered, target, releasing>>
timerVars    == <<armed, firedTime, inflight, running>>
trackerVars  == <<mPeriod, mBase>>
dispatchVars == <<regVars, timerVars, now, trackerVars>>
vars         == <<testVars, dispatchVars>>

-----------------------------------------------------------------------------
(* The tests *)

\* The receivers of each test: <<workload, readyDuration>>.
ReceiversOf(t) ==
    IF t = "triple_alarm" THEN <<<<3, 5>>, <<0, 0>>, <<2, 6>>>>
                          ELSE <<<<2, 10>>>>

Active       == DOMAIN ReceiversOf(test)
mWorkload(r) == ReceiversOf(test)[r][1]
mReadyDuration(r) == ReceiversOf(test)[r][2]
Lead(r)      == mWorkload(r) + mReadyDuration(r)

\* Mutation of OnEachFrame: the tracker is anchored at the pulse to come.
OnEachFrameAnchorsAhead(r) ==
    IF test = "vascillating_vrr"
    THEN D!Tracker!SetInterval(mPeriod + 2, last[r] + mPeriod + 2)
    ELSE UNCHANGED trackerVars

\* on_each_frame(last_known) of the test: nothing in triple_alarm, a period
\* one millisecond longer in vascillating_vrr, in fixed_jump one jump to five
\* milliseconds at the frame jump_frame_at.
OnEachFrame(r) ==
    CASE test = "triple_alarm" ->
            UNCHANGED trackerVars
      [] test = "vascillating_vrr" ->
            D!Tracker!SetInterval(mPeriod + 2, last[r])
      [] test = "fixed_jump" /\ i[r] = JumpFrameAt ->
            D!Tracker!SetInterval(10, last[r])
      [] test = "fixed_jump" /\ i[r] # JumpFrameAt ->
            UNCHANGED trackerVars

-----------------------------------------------------------------------------
(* RepeatingCallbackReceiver *)

Goto(r, label) == pc' = [pc EXCEPT ![r] = label]

\* The constructor registers the callback; the receivers of a test are made
\* one after the other.
Construct(r) ==
    /\ pc[r] = "new"
    /\ \A q \in Active : q < r => pc[q] # "new"
    /\ D!RegisterCallback(r)
    /\ Goto(r, "start")
    /\ UNCHANGED <<test, i, last, receiverVars>>

\* repeatedly_schedule, up to the loop: the first schedule call, for a pulse
\* not before the present.
FirstSchedule(r) ==
    /\ pc[r] = "start"
    /\ \A q \in Active : pc[q] # "new"
    /\ D!Schedule(r, mWorkload(r), mReadyDuration(r), now + Lead(r))
    /\ Goto(r, "wait")
    /\ UNCHANGED <<test, i, last, receiverVars>>

\* Mutation of AwaitCallback: mCalled is not put back.
AwaitCallbackKeepsCalled(r) ==
    /\ pc[r] = "wait" /\ i[r] < Iterations - 1 /\ mCalled[r]
    /\ last' = [last EXCEPT ![r] = mLastTarget[r]]
    /\ Goto(r, "frame")
    /\ UNCHANGED <<test, i, receiverVars, dispatchVars>>

\* The wait at the head of the loop body: the callback that came is taken.
AwaitCallback(r) ==
    /\ pc[r] = "wait"
    /\ i[r] < Iterations - 1
    /\ mCalled[r]
    /\ mCalled' = [mCalled EXCEPT ![r] = FALSE]
    /\ last' = [last EXCEPT ![r] = mLastTarget[r]]
    /\ Goto(r, "frame")
    /\ UNCHANGED <<test, i, mLastTarget, mCallbackTimes, dispatchVars>>

\* onEachFrame(last)
Frame(r) ==
    /\ pc[r] = "frame"
    /\ OnEachFrame(r)
    /\ Goto(r, "schedule")
    /\ UNCHANGED <<test, i, last, receiverVars, regVars, timerVars, now>>

\* The schedule call of the loop body, from the time of the last callback.
ScheduleAgain(r) ==
    /\ pc[r] = "schedule"
    /\ D!Schedule(r, mWorkload(r), mReadyDuration(r), last[r] + Lead(r))
    /\ i' = [i EXCEPT ![r] = @ + 1]
    /\ Goto(r, "wait")
    /\ UNCHANGED <<test, last, receiverVars>>

\* "wait for the last callback"
AwaitLastCallback(r) ==
    /\ pc[r] = "wait"
    /\ i[r] = Iterations - 1
    /\ mCalled[r]
    /\ Goto(r, "done")
    /\ UNCHANGED <<test, i, last, receiverVars, dispatchVars>>

\* Mutation of CallbackCalled: the time is not recorded.
CallbackCalledUnrecorded(r, time) ==
    /\ mCalled' = [mCalled EXCEPT ![r] = TRUE]
    /\ mLastTarget' = [mLastTarget EXCEPT ![r] = time]
    /\ UNCHANGED mCallbackTimes

\* callback_called(time)
CallbackCalled(r, time) ==
    /\ mCallbackTimes' = [mCallbackTimes EXCEPT ![r] = Append(@, time)]
    /\ mCalled' = [mCalled EXCEPT ![r] = TRUE]
    /\ mLastTarget' = [mLastTarget EXCEPT ![r] = time]

\* The timer thread runs the callback of r: the lambda of the constructor,
\* which passes on the first of its three arguments.
Callback(r) ==
    /\ D!InvokeCallback(r)
    /\ CallbackCalled(r, D!CallbackArguments(r).actualInvocationTime)
    /\ UNCHANGED <<test, threadVars>>

\* The threads are joined and the receivers destroyed, the last one first:
\* the destructor of mCallback unregisters it.
Destroy(r) ==
    /\ pc[r] = "done"
    /\ \A q \in Active : pc[q] \in {"done", "destroyed"}
    /\ \A q \in Active : q > r => pc[q] = "destroyed"
    /\ D!UnregisterCallback(r)
    /\ Goto(r, IF r \in releasing' THEN "unregistering" ELSE "destroyed")
    /\ UNCHANGED <<test, i, last, receiverVars>>

\* The destructor comes back from the unregisterCallback it was blocked in.
Destroyed(r) ==
    /\ pc[r] = "unregistering"
    /\ D!UnregisterReturns(r)
    /\ Goto(r, "destroyed")
    /\ UNCHANGED <<test, i, last, receiverVars>>

Receiver(r) ==
    \/ Construct(r)
    \/ FirstSchedule(r)
    \/ AwaitCallback(r)
    \/ Frame(r)
    \/ ScheduleAgain(r)
    \/ AwaitLastCallback(r)
    \/ Destroy(r)
    \/ Destroyed(r)

-----------------------------------------------------------------------------
(* The dispatch under the test *)

\* r has a step it can take without waiting for anyone.
Runnable(r) ==
    \/ pc[r] \in {"new", "start", "frame", "schedule"}
    \/ pc[r] = "wait" /\ mCalled[r]
    \/ pc[r] = "done" /\ \A q \in Active : pc[q] \notin {"wait", "frame", "schedule"}

TimerThread ==
    \/ D!OnTimerFired /\ UNCHANGED testVars
    \/ \E r \in Active : Callback(r)
    \/ D!CallbackReturns /\ UNCHANGED testVars
    \/ D!FinishFiring /\ UNCHANGED testVars

Tick ==
    /\ \A r \in Active : ~Runnable(r)
    /\ D!Tick
    /\ UNCHANGED testVars

\* The test has ended and its objects are gone.
Finished ==
    /\ \A r \in Active : pc[r] = "destroyed"
    /\ UNCHANGED vars

Init ==
    /\ test \in Tests
    /\ pc = [r \in Clients |-> "new"]
    /\ i = [r \in Clients |-> 0]
    /\ last = [r \in Clients |-> 0]
    /\ mCalled = [r \in Clients |-> FALSE]
    /\ mLastTarget = [r \in Clients |-> 0]
    /\ mCallbackTimes = [r \in Clients |-> <<>>]
    /\ D!Init

Next ==
    \/ \E r \in Active : Receiver(r)
    \/ TimerThread
    \/ Tick
    \/ Finished

Spec == Init /\ [][Next]_vars

\* The threads of the test and the timer thread are scheduled, and time
\* passes when all of them wait.
Fairness ==
    /\ \A r \in Clients : WF_vars(r \in Active /\ Receiver(r))
    /\ WF_vars(TimerThread)
    /\ WF_vars(Tick)

FairSpec == Spec /\ Fairness

-----------------------------------------------------------------------------
(* Properties *)

Labels == {"new", "start", "wait", "frame", "schedule", "done",
           "unregistering", "destroyed"}

TypeOK ==
    /\ test \in Tests
    /\ pc \in [Clients -> Labels]
    /\ i \in [Clients -> 0..(Iterations - 1)]
    /\ last \in [Clients -> Times]
    /\ mCalled \in [Clients -> BOOLEAN]
    /\ mLastTarget \in [Clients -> Times]
    /\ \A r \in Clients : /\ mCallbackTimes[r] \in Seq(Times)
                          /\ Len(mCallbackTimes[r]) <= Iterations
    /\ D!TypeOK

\* The schedule calls r has made.
SchedulesMade(r) == IF pc[r] \in {"new", "start"} THEN 0 ELSE i[r] + 1

Cycles == INSTANCE RepeatingSchedule
              WITH scheduled <- [r \in Clients |-> SchedulesMade(r)],
                   invoked <- [r \in Clients |-> Len(mCallbackTimes[r])]

\* repeatedly_schedule over the dispatch implements RepeatingSchedule: every
\* schedule call is answered by one callback and no callback comes that was
\* not called for, "exactly N invocations for N schedule cycles, no missed
\* or duplicate firings".  A firing that left its target pending, or a
\* callback that set mCalled twice before the loop took it, would break it.
OneInvocationPerCycle == Cycles!Spec

\* What each test expects when its threads are joined:
\* EXPECT_THAT(times.size(), Eq(mIterations)) for every receiver.
TestExpectation ==
    (\A r \in Active : pc[r] \in {"done", "unregistering", "destroyed"})
        => \A r \in Active : Len(mCallbackTimes[r]) = Iterations

\* "No drift accumulation beyond the predictor's own period": a callback
\* comes no sooner after the one before it than the lead the receiver asks
\* for, and less than a period of the tracker, as set_interval left it,
\* later than that.
StrideWithinPeriod ==
    [][\A r \in Active :
          LET n == Len(mCallbackTimes[r])
              stride == mCallbackTimes'[r][n + 1] - mCallbackTimes[r][n]
          IN Len(mCallbackTimes'[r]) > n /\ n > 0
                => stride >= Lead(r) /\ stride < Lead(r) + mPeriod]_vars

\* Every schedule call of a receiver is answered with the first pulse it can
\* make: the target is not before lastVsync plus the lead, and the tracker,
\* with the period and the anchor on_each_frame has just set, has no pulse
\* in between.  The time asked about is never so far before the anchor that
\* the negative remainder of VRRStubTracker::nextAnticipatedVSyncTimeFrom
\* (VSyncDispatchRealtimeTest.cpp:85) costs the receiver a pulse.
ScheduledForFirstPulse ==
    [][\A r \in Active :
          pc[r] \in {"start", "schedule"} /\ pc'[r] = "wait" =>
              LET from  == IF pc[r] = "start" THEN now ELSE last[r]
                  asked == from + 2 * Lead(r)
                  pulse == target'[r].targetPulseTime
              IN /\ pulse >= asked
                 /\ \A u \in asked..(pulse - 1) : ~D!Tracker!IsPulse(u)]_vars

\* Every test comes to its end: each receiver gets its last callback, the
\* threads are joined and no destructor stays blocked in
\* unregisterCallback.  It takes a timer that fires for every target, also
\* for one scheduled while a firing is served, and wakeup times the firing
\* window reaches.
TestFinishes == <>(\A r \in Active : pc[r] = "destroyed")

=============================================================================
