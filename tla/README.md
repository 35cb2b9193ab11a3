# Model-checking project for AlphaDroid-Project/native

TLA+ models of the code under `src/`, the TLC configurations that check them,
and what the checks show. `PROJECT.json` is the machine-readable index:
components, runs, the map from definitions to source lines, findings and hazards.

## 1. The system

| Part | Source | What it is |
|---|---|---|
| SensorManager instance | `src/libs/sensor/SensorManager.cpp` 165-502 | Client-side proxy of `sensorservice`. Caches the sensor list, reconnects when the service is gone, is told of the service's death by a binder thread. |
| SensorManager registry | same file, 55-163 | Static map package name -> manager, under `sLock`. |
| sensorservice, service manager, binder death notification | not in `src/` | The remote side the manager talks to. |
| Stub trackers | `src/services/surfaceflinger/tests/unittests/VSyncDispatchRealtimeTest.cpp` 38-100 | Vsync predictors the realtime test puts in place of the real tracker. |
| RepeatingCallbackReceiver, three test scenarios | same file, 102-235 | A client that re-schedules itself after every callback, 20 times, in a thread of its own; the callback runs on the engine's timer thread. |
| Dispatch engine, callback registration, timer | not in `src/`; `spec.md` 2-8 | The scheduler the test drives: one timer armed for the nearest wakeup time of all registrations. |
| Build description | `src/unnamed/part_000` | Soong file, no behaviour. |

### State, operations and what is hard

**SensorManager instance.** State: the proxy `mSensorServer`; the Vectors
`mSensors`, `mDynamicSensors`; the malloc'ed arrays `mSensorList`,
`mDynamicSensorList` whose entries point *into the Vectors' buffers*;
`mDeathObserver`; the direct-channel table and its handle counter; the
handle-to-name cache with a mutex of its own. Every public method takes
`mLock` and calls `assertStateLocked`, which (re)connects: wait for the
service (60 attempts, `mLock` held), link a new death observer, fetch the
list, malloc the array. The build flag `sensormanager_ping_binder` selects
between two tests for "must reconnect": proxy is null (flag set), or proxy
is null or does not answer a ping (flag unset). `sensorManagerDied`, called
on a binder thread, takes `mLock` and drops the proxy and all four buffers.

Hard here: the service dies and restarts at any moment, also in the middle of
a call; the obituary is asynchronous and can be late; memory is managed by
hand across these events; one method (`getSensorNameByHandle`) reads the
Vectors without `mLock`; the destructor can run while a binder thread holds
the observer.

**Registry.** State: `sPackageInstances`. `getInstanceForPackage` returns the
cached manager when its device id matches the caller's, else creates one and
inserts it (also under the empty name for a caller without a name);
`removeInstanceForPackage` deletes and erases. Hard: long call sequences in
which the same manager is reachable through two names, and `insert` that does
not replace; and the constructor of a new manager, which runs under `sLock`
and waits for sensorservice there, while the service comes and goes.

**Stub trackers.** State: `mPeriod`, `mBase`. Pure arithmetic with the C++
remainder, which is negative for a negative dividend. `set_interval` moves
both between two predictions.

**Dispatch engine.** State: the registrations, a pending target (wakeup time
and pulse) per registration, the deadline the timer is armed for, the targets
of the firing in progress. Clients call `schedule`, `cancel` and
`unregisterCallback` from their threads under the engine's lock; the timer
thread collects the due targets under the lock and runs their callbacks
without it. Hard: a `schedule` or `unregisterCallback` that arrives while the
firing it answers is still being served; two tolerances (group threshold, move
threshold) that have to fit each other and the timer's lateness; a tracker
whose period changes between the prediction and the firing.

**RepeatingCallbackReceiver.** State: `mCalled`, `mLastTarget`,
`mCallbackTimes` under `mMutex`. `repeatedly_schedule` waits for `mCalled`,
takes it back, and schedules from the time the callback reported. Hard: the
handshake has no counter, only a flag; the waits have no timeout; the receiver
is destroyed right after the last callback set the flag.

## 2. Modules

| Module | Models | Notes |
|---|---|---|
| `SensorService` | service incarnations, `getService`, `linkToDeath`, obituaries | from the binder contract, not from `src/` |
| `SensorManager` | one manager, its callers, the binder thread, the heap | extends `SensorService` |
| `MCSensorManager` | constants for TLC | two threads, two handles, two names |
| `SensorManagerRegistry` | `sPackageInstances` and its two methods | |
| `MCSensorManagerRegistry` | constants for TLC | two packages, one virtual device |
| `VSyncStubTracker` | the stub predictors | a component: state, operations and contract, no behaviour of its own |
| `VSyncDispatch` | engine, registration handles, timer and clock | from `spec.md` 3-6; instantiates `VSyncStubTracker` |
| `MCVSyncDispatch` | constants for TLC | two handles, periods 2 and 3, clock 0..6 |
| `VSyncDispatchRealtimeTest` | `RepeatingCallbackReceiver` and the three tests | from `src/`; instantiates `VSyncDispatch` |
| `RepeatingSchedule` | what a re-scheduling client is promised | abstract specification (`spec.md` 8) |
| `MCVSyncDispatchRealtimeTest` | constants for TLC | the three tests with their own numbers, in ticks of 0.5 ms |

### How `SensorManager` corresponds to the code

* `mLock` is the thread inside a locked method; since the lock serialises the
  methods, one `pc`/`op`/`tries` describes the call in progress. A call is
  several steps: `BeginCall` (lock, the test of `assertStateLocked`), one
  `WaitForSensorService` step per `getService` attempt (found; not found,
  sleep and count; any other error, which ends the wait at once; with the
  attempts used up, `TIMED_OUT`), `InitSensorManager`
  (abort without proxy, link observer, fetch list, malloc array, abort on
  malloc failure), then the method's body, which returns and unlocks. The
  environment (`ServiceStarts`, `ServiceDies`, `SendObituary`) can step
  between any two of them. The model starts inside the constructor.
* The heap has two pools: `Blocks` for malloc'ed arrays (exhaustion is malloc
  returning null) and `Bufs` for Vector buffers. A cell is free, a Vector
  buffer holding a list, or an array that points into a buffer. A Vector
  assignment allocates the new buffer before it releases the old, as the
  library does; `malloc` takes the lowest free address, so addresses are
  reused.
* `obit[g]` is the state of the death notification for incarnation `g`:
  `none`, `linked`, `inflight` (a binder thread holds the observer and will
  call `binderDied`), `done`. Linking a new observer drops the old one, so an
  obituary that was linked and not yet picked up is never delivered.
* `getSensorNameByHandle` is two or three steps under `nameLock`: the cache
  lookup, then one `FindSensorNameInList` step per Vector. `scan.buf` is the
  buffer the iteration runs over. Reading a buffer that is no longer a Vector's
  yields any list (undefined behaviour as nondeterminism).
* Methods that only read fields or forward one transaction are `ReadOnly`
  steps; what they return is not modelled.
* `LOG_ALWAYS_FATAL` ends in `pc = "aborted"`, the destructor in
  `pc = "destroyed"`; `Terminated` lets both stutter so that deadlock checking
  stays on for everything else.

### How `SensorManagerRegistry` corresponds to the code

Both methods hold `sLock` throughout. `removeInstanceForPackage` and a
`getInstanceForPackage` that finds its manager (`ReturnCached`) are one
action each. One that makes a manager is several: `BeginCreate` is lines
103-140 up to `new SensorManager`, and leaves the call in `creating`, which
is non-null exactly while `sLock` is held inside the constructor; every
other registry action has `creating = NULL` as its guard. `CtorWaits` is one
failed `getService` attempt of the constructor's `waitForSensorService`,
`CtorAborts` the two `LOG_ALWAYS_FATAL` of `assertStateLocked` (the wait
ended without a proxy, by time-out or by another error of `getService`, or
`malloc` failed), and `CreateInstance` the rest of the call once an attempt,
one of the `MaxTries` the loop makes, found the service: both `insert`s and
the return. `ServiceStartsOrDies` flips `svcUp` at any step, so
the `waitForSensorService(nullptr)` of line 101, which keeps nothing of its
answer, guarantees nothing to the constructor and is not a step. A manager is an
address of a pool of `MaxInstances` (lowest free first) with `mDeviceId` and
`mOpPackageName`. The caller's device id is any value `getDeviceIdForUid` can
produce. Reading `mDeviceId` through a pointer to a deleted manager gives
either answer; deleting a deleted manager is undefined, and either kills
the process or goes unnoticed and the entry is erased. `aliased` is a history
variable: some manager was ever stored under two names.

### How `VSyncDispatch` corresponds to `spec.md`

* The state of a registration is derived, not stored: `Dispatching` while
  `inflight[h]` is set, else `Scheduled` while `target[h]` is set, else
  `Disarmed`; `Released` when `h` is not in `registered`.
* Every public operation is one action (the engine's lock). `Schedule`,
  `Cancel` and `UnregisterCallback` end with `recomputeNextDeadline`, which is
  part of the action. `unregisterCallback` that meets its callback in flight
  puts the handle in `releasing` and returns by `UnregisterReturns`, which
  removes the bookkeeping, a target scheduled meanwhile included, and arms
  the timer for what is left.
* A firing is `OnTimerFired` (under the lock: `armed` is consumed, the targets
  inside the window `[firedTime - G, firedTime + G]` move to `inflight`), one
  `InvokeCallback`/`CallbackReturns` pair per target of the group, in any
  order and without the lock, and `FinishFiring` (`recomputeNextDeadline`).
  Client operations interleave with all of these.
* Time is the variable `now`. `Tick` is disabled once `now` reaches
  `armed + MaxLate` (the timer fires "at or after" the deadline, at most
  `MaxLate` late) and while a firing is served (dispatch takes no time on the
  scale of a tick).
* The callback's first argument is `actualInvocationTime`, the time of the
  firing (`spec.md` 4.1).
* `schedule` and `cancel` come from any thread at any moment, also while a
  firing is served, which covers a callback that schedules its own or
  another registration again (the re-entrant scheduling of `spec.md` 4.2).
  A handle whose owner is blocked in `unregisterCallback` is used only by
  its own callback while that runs (`UsableBy`): nobody else has the handle
  the owner is giving up.

### How `VSyncDispatchRealtimeTest` corresponds to the code

* One behaviour is one test, chosen in the initial state. `pc[r]` is the
  position of receiver `r`: `new` (not constructed), `start`, `wait`, `frame`,
  `schedule`, `done` (thread can be joined), `unregistering`, `destroyed`.
* `AwaitCallback` is the critical section of lines 125-129 (wait, reset of
  `mCalled`, copy of `mLastTarget`); `Frame` is `on_each_frame`, which in the
  two VRR tests calls `set_interval`; `ScheduleAgain` is the schedule call of
  lines 133-135 and the `i++` of the loop. `Callback` is `callback_called`
  run by the timer thread as its `InvokeCallback` step.
* `Destroy` needs every thread joined and destroys the receivers in reverse
  order, as the array does; the destructor of `mCallback` is
  `unregisterCallback`, which may block (`unregistering`). `mMutex`, declared
  after `mCallback`, is destroyed before `mCallback` unregisters, while the
  callback may still be running. That is harmless and not a step of its own:
  the callback touches the receiver only inside `callback_called`, under
  `mMutex`, and the thread that is joined took `mMutex` after it to see
  `mCalled`. What is left of the callback is its return, `CallbackReturns`.
  The `EXPECT_THAT` between join and destruction is `TestExpectation`, which
  is stated for every state from `done` on.
* Time: one tick is 0.5 ms, the largest unit all durations of the tests are
  multiples of. The group threshold, 100 us, is below one tick, and the move
  threshold, 500 us, is one tick: on whole ticks "within 100 us" is "equal"
  (`GroupThreshold = 0`) and "at least 500 us apart" is "at least one tick
  apart" (`MoveThreshold = 1`). The timer is taken to be less
  than the group threshold late (`MaxLate = 0`).
* Assumption: threads of the test run as soon as they can. `Tick` is enabled
  only when no receiver has a step to take.

## 3. Runs

| Run | Config | Expect | Properties | States |
|---|---|---|---|---|
| manager_null_check | `SensorManager.cfg` | pass | TypeOK, ListReadyAfterAssert, OwnedMemoryIsLive, NoLeak, WatchedWhileConnected, NextDirectHandleIsFresh, ProxyDroppedOnlyWhenDead | 643 231 |
| manager_ping | `SensorManagerPing.cfg` | pass | ListReadyAfterAssert, OwnedMemoryIsLive | 542 894 |
| manager_recovery | `SensorManagerLive.cfg` | pass | Recovery | 110 281 |
| ping_leaks_list | `SensorManagerPingLeak.cfg` | violation | NoLeak | |
| ping_stale_obituary | `SensorManagerPingObituary.cfg` | violation | ProxyDroppedOnlyWhenDead | |
| name_lookup_race | `SensorManagerNameRace.cfg` | violation | NameScanReadsLiveVector | |
| registry | `SensorManagerRegistry.cfg` | pass | TypeOK, SoundWithoutAlias, ReturnedMatchesDevice, CreateEnds | 3 991 850 |
| registry_alias | `RegistryAlias.cfg` | violation | RegistryEntriesLive | |
| registry_stash | `RegistryStash.cfg` | violation | StashedAfterGet | |
| dispatch_engine | `VSyncDispatch.cfg` | pass | TypeOK, ArmedNearMinimum, NotOverdue, ReleasedIsQuiet, PredictionIsPulseNotBefore, PredictionIsFirstPulse | 1 651 230 |
| realtime_test | `VSyncDispatchRealtimeTest.cfg` | pass | TypeOK, TestExpectation, OneInvocationPerCycle, StrideWithinPeriod, ScheduledForFirstPulse, TestFinishes | 10 159 |
| thresholds_lose_target | `VSyncDispatchThresholds.cfg` | violation | NotOverdue | |

What the passing runs show:

* **manager_null_check.** With the flag set, the manager is memory-safe and
  leak-free across any interleaving of two callers, the binder thread and a
  service that dies and restarts three times: after `assertStateLocked` the
  array is live and points into the current Vector buffer; no field dangles;
  every allocation is owned; between calls the manager always has an obituary
  outstanding for the proxy it holds; the proxy is only ever dropped for a
  dead incarnation.
* **manager_ping.** With the flag unset the first two still hold, including
  after a reconnect whose wait failed and kept the dead proxy.
* **manager_recovery.** If some incarnation stays up and calls keep reaching
  method bodies, the manager ends up connected to it for good.
* **registry.** As long as no manager has been stored under two names, every
  entry is live and no two names share a manager; and the manager returned is
  one for the caller's current device. `CreateEnds`: a call that holds
  `sLock` inside the constructor returns or kills the process, whatever the
  service does meanwhile, so the callers behind `sLock` are held up for at
  most `MaxTries` attempts (in the code 60 attempts of up to 5 s each). The
  property fails if a failed attempt is not counted. The process abort is one
  of the two ends: the property is about `sLock`, not about the caller
  getting a manager.
* **dispatch_engine.** Two clients, any order of register, schedule (lead 0
  or 2, from the present), cancel and unregister, schedule and cancel from a
  running callback included, a tracker whose period and
  anchor change at any moment, a timer up to one tick late, with
  `GroupThreshold = MoveThreshold = 2`. Whenever the timer thread is idle the
  timer is armed exactly when something is Scheduled, and within the move
  threshold of the least wakeup time; no Scheduled target ever falls behind
  the firing window; a handle whose `unregisterCallback` has returned has
  neither target nor dispatch, also when the callback it waited for
  scheduled the registration again. The tracker's contract (the answer is a pulse, not before
  the time asked about, and the first such one from the anchor on) holds in
  every state the rate changes lead to.
* **realtime_test.** The three tests with their own receivers, 20 iterations
  and the jump at frame 10. `OneInvocationPerCycle` is the refinement
  `Cycles!Spec`: with `scheduled` the schedule calls a receiver has made and
  `invoked` the length of `mCallbackTimes`, the composition implements
  `RepeatingSchedule`. `TestExpectation` is the `EXPECT_THAT` of each test.
  `StrideWithinPeriod`: two callbacks of a receiver are at least its lead and
  less than its lead plus the current period apart, also across
  `set_interval`. `ScheduledForFirstPulse`: every schedule call of a receiver
  gets the first pulse at or after the time it asks about, by the period and
  anchor `on_each_frame` has just set; in particular no test asks the VRR
  tracker about a time so far before its anchor that the negative remainder
  of line 85 moves the answer a period on, which is what happens when
  `set_interval` is given an anchor ahead of `last_known`. `TestFinishes`
  (liveness): every receiver is destroyed in
  the end, so no wait and no `unregisterCallback` blocks for ever.

What the violation runs show (details under `findings` in `PROJECT.json`):

* **ping_leaks_list.** Flag unset: ping fails, the manager reconnects, and
  `mSensorList = malloc(...)` (line 251) overwrites the old array. Shortest
  trace: the service dies during the constructor, the next call pings, its
  wait for the service fails, and the reconnect with the dead proxy
  overwrites the constructor's array.
* **ping_stale_obituary.** Flag unset: a caller reconnects to the new
  incarnation while the old obituary is in flight; `sensorManagerDied` then
  clears the new proxy and frees the new lists.
* **name_lookup_race.** `getSensorNameByHandle` iterates a Vector whose buffer
  `sensorManagerDied` (or a reconnect) releases meanwhile. Either flag.
* **registry_alias.** `get("")` stores one manager under `""` and under the
  looked-up name; `remove` of either leaves the other entry dangling.
* **thresholds_lose_target.** `GroupThreshold = 1`, `MoveThreshold = 3`, the
  order of the two the test uses (100 us, 500 us). A target is scheduled for
  wakeup 3 and the timer armed for 3; a second `schedule` moves the wakeup to
  1; the timer is not re-armed (`|1 - 3| < 3`); at the firing, time 3, the
  window `[2, 4]` does not hold the target, and no later firing will. TLC
  confirms the regime: `NotOverdue` holds when
  `GroupThreshold >= MoveThreshold - 1 + MaxLate` (checked for 2/2/1 and
  0/1/0) and fails below it (1/2/1, 2/3/1, 1/3/0).
* **registry_stash.** `std::map::insert` does not replace: after the device of
  a package changed, the new manager is returned and never stored.

## 4. Bounds

| Constant | Value | Why it is enough |
|---|---|---|
| `Threads` | 2 | one caller inside `mLock`, one in `getSensorNameByHandle`; a third adds no new interleaving since `mLock` and the name mutex admit one thread each |
| `MaxGen` | 3 (2 when pinging) | a late obituary needs two incarnations; a third shows that recovery repeats |
| `MaxTries` | 1 (code: 60) | one failed attempt and the give-up are both reached; more attempts only repeat the first |
| registry: `MaxTries` | 2 | the service can start, and die again, between two attempts of one constructor |
| `MaxBlocks` | 3 (2 when pinging) | two arrays can be owned at once; with leaks the pool runs out and the malloc-failure abort is reached |
| `VecBufs` | 3 | two Vectors plus the buffer being built during an assignment |
| `MaxChannels` | 2 (1) | caps the handle counter; creation, reuse check and erase are reached |
| `Handles`, `Names` | 2, 2 | one static and one dynamic sensor whose name differs between incarnations |
| `MaxInstances` | 3 | an aliased manager, its replacement at the reused address, and a leaked one |
| `Packages` | 2 | plus the empty name |
| engine: `Handles` | 2 | grouping, and one client acting during the other's dispatch, need two; operations of a third are independent of the first two's targets except through the minimum |
| engine: `Periods`, `Times` | {2, 3}, 0..6 | two to three pulses of either period; time points before, on and after the anchor, on and off a pulse |
| engine: `Durations` | leads 0 and 2 | wakeup times on the pulse and before it, closer than and as far apart as the thresholds |
| engine: `GroupThreshold`, `MoveThreshold`, `MaxLate` | 2, 2, 1 | the least values with a late timer and a non-trivial move threshold inside the sound regime |
| engine: `MaxStale` | 0 | callers schedule from a pulse not before the present, as the receivers do |
| test: `Iterations`, `JumpFrameAt` | 20, 10 | the test's own |
| test: `Periods`, `Times` | 6, 8, .. 44; 0..1200 | the periods `vascillating_vrr` slides through; twenty cycles of the slowest test. The run would fail `TestFinishes` if the clock ended early |

Thread and package symmetry is used in the runs that check safety only
(`registry_alias` and `registry_stash` among them), not in `manager_recovery`
and `registry`, which check liveness.

## 5. Fairness

`FairSpec` of `SensorManager` assumes: weak fairness of the steps of the
thread that holds `mLock` and of the name lookup in progress (a running
thread keeps running; the wait loop is bounded); weak fairness of
`SendObituary` (binder notices every death it has a recipient for); strong
fairness of `SensorManagerDied` (the binder thread blocked on `mLock` gets it
if the lock is free again and again: the mutex does not promise this, it is
the assumption under which recovery is claimed). Nothing forces applications
to call, which is why `Recovery` is conditional on calls reaching a method
body infinitely often.

`FairSpec` of `VSyncDispatchRealtimeTest` assumes weak fairness of each
receiver's thread, of the timer thread and of `Tick`: the test's threads and
the engine's thread are ordinary threads that run when they can, and time
passes when all of them wait. No step of these is enabled only now and then,
so weak fairness is all that is needed. The engine run checks safety only.

`FairSpec` of `SensorManagerRegistry` assumes weak fairness of the steps the
thread that holds `sLock` takes by itself: a failed attempt (`CtorWaits`),
the rest of the call after a successful one (`CreateInstance`) and the abort
when the attempts are used up. `getService` and `sleep(1)` return, and one
of the three is enabled as long as the thread is inside the constructor. The
service and the callers are under no fairness, and neither are the failures
that end the constructor early, an error of `getService` or of `malloc`: a
liveness property must not hold because something is bound to fail.

## 6. Not modelled

* Of the engine: `update(request)`, which `spec.md` 2 names without a
  contract; the error returns (`NotRegistered`, `AlreadyReleased`,
  `PredictorUnavailable`), which change no state;
  `unregisterCallback` called from the handle's own callback. A callback
  that fails is not told apart from one that returns: `spec.md` 7 and 9 have
  the rest of the group served either way.
* Liveness of the engine under arbitrary clients. "No registration stays due
  for ever" under weak fairness of the timer thread and of the clock holds
  for the instance of `dispatch_engine`, but symmetry has to go for a
  liveness check, and the run then has 1 953 372 states and takes over five
  minutes; it is not among the runs. What the engine owes its clients in
  the long run is checked where the clients are known, by `TestFinishes`.
* `TimerArmFailure`. After a refused arm a `Scheduled` registration has no
  deadline, so `ArmedNearMinimum` and `NotOverdue` can only be claimed up to
  the first refusal, which is the behaviour the runs check. With the
  two-sided window of `spec.md` 4.2 a target that became overdue while the
  timer was disarmed is served by no later firing (the case of
  `thresholds_lose_target`), so a model with the fault would show that gap
  again and nothing of the engine.
* Delayed threads in the test: with the firing window of `spec.md` 4.2 a
  receiver that is late by more than the group threshold is never served, so
  the tests are modelled under prompt scheduling only.
* The real vsync tracker and the real timer: the test replaces the first, and
  the second is known by its contract only.
* What the forwarding methods return, the device-id branch of the list
  fetches, the pointers and references clients keep after a call: the lists
  handed out by `getSensorList`, and the manager itself, which
  `removeInstanceForPackage` deletes without regard to threads inside it.
  The code has no guard against either, so a property about them fails in
  every configuration.
* The registry and the inside of a manager in one state space: the registry
  sees the constructor as far as `sLock` is concerned (its wait and its two
  aborts); the object behind an address is checked in `SensorManager` alone.
* Crashes as an outcome of undefined behaviour other than a double delete.
* mDynamicSensorList is taken to start as null, from its declaration in the
  header, which is not under `src/`.

## 7. Where `spec.md` disagrees with itself

Met while modelling the engine; the first is a run, the others are recorded
here because the model had to choose.

1. Move threshold against firing window: see `thresholds_lose_target`.
2. Section 3 says the armed deadline "always equals the minimum"; the next
   line lets re-arming be skipped. `ArmedNearMinimum` states what both allow.
3. Section 8: two registrations less than the group threshold apart are
   "always invoked from the same firing". When the least wakeup time has
   moved later by less than the move threshold the timer stays armed for the
   earlier time `a`; with `G = 2`, `M = 3` a firing at `a` serves a target at
   `a + 2` and not one at `a + 3`. The later one is served by the next
   firing, so nothing is lost, but the statement does not hold as written
   and is not among the properties.
4. Section 4.1 gives the callback `actualInvocationTime`; section 8 calls what
   the client schedules from "the just-delivered pulse". The test passes the
   first argument on, and the model follows 4.1.
5. A client without lead that is invoked exactly on time and schedules from
   that time asks for the same pulse again, and section 4.2 has the engine
   fire for it again at once: the second receiver of `triple_alarm` can get
   all its callbacks for one pulse, against "once per pulse period" of
   section 8. The model follows 4.2 (`StrideWithinPeriod` has the lead as its
   lower bound, here 0), and no property of a passing run excludes it.
6. Section 3 groups wakeup times that differ by "less than" the group
   threshold; section 4.2 uses a closed interval. The model follows 4.2.

## 8. Plan

1. **Done**: `SensorService`, `SensorManager` (both flag variants, safety and
   recovery), `SensorManagerRegistry`, `VSyncStubTracker`, `VSyncDispatch`,
   `VSyncDispatchRealtimeTest` with the refinement to `RepeatingSchedule`.
   The registry with the constructor's wait under `sLock` and its liveness.
2. **Engine**: `update(request)` once its contract is fixed; delayed threads
   in the realtime test and `TimerArmFailure` once the firing window is
   one-sided.
3. **Lent references**: the destructor against an obituary in flight or a
   thread inside the manager, pointers lent to clients, the name cache across
   incarnations. Each is a property the code violates by design and needs a
   run of its own that expects the violation; the actions that reach these
   states (`BinderDiedAfterDestructor`, `SensorManagerDied`,
   `FindSensorNameInList`) are in the model and fire in the passing runs.

Nothing else of the repository can be modelled from what is under `src/`:
every line of `SensorManager.cpp` that is code is mapped (the rest is the
licence, includes, blank lines and closing braces), the test file is modelled
in full, and the third source is a build description.
