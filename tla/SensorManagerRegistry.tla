----------------------- MODULE SensorManagerRegistry -----------------------
(***************************************************************************)
(* The per-package cache of SensorManager objects: the static map          *)
(* sPackageInstances of src/libs/sensor/SensorManager.cpp with the two     *)
(* static methods that fill and empty it.  Both hold sLock from their      *)
(* first access to the map to their return.  removeInstanceForPackage and  *)
(* a getInstanceForPackage that finds its manager are one step each; one   *)
(* that makes a manager runs the constructor under sLock, and the          *)
(* constructor waits for sensorservice, one getService attempt per step.   *)
(*                                                                         *)
(* A manager is known here by the address operator new gave it, and by the *)
(* two fields the registry looks at or sets.  What goes on inside a        *)
(* manager is the subject of module SensorManager.                         *)
(***************************************************************************)
EXTENDS Integers, FiniteSets, FiniteSetsExt, TLC

CONSTANTS
    Packages,           \* package names callers pass and the system knows
    Empty,              \* the empty package name, String16()
    VirtualDevices,     \* ids of virtual devices, none of them 0
    MaxInstances,       \* bound: managers that exist at a time
    MaxTries,           \* getService attempts of waitForSensorService (60)
    NULL

ASSUME /\ Empty \notin Packages
       /\ VirtualDevices \subseteq Nat \ {0}
       /\ MaxInstances \in Nat \ {0}
       /\ MaxTries \in Nat

VARIABLES
    sPackageInstances,  \* package name -> address of its manager
    instances,          \* instances[a]: the manager at address a, or NULL
    ret,                \* what the last getInstanceForPackage returned to whom
    aliased,            \* history: a manager was ever stored under two names
    aborted,            \* the process was killed
    creating,           \* the call that holds sLock in `new SensorManager`, or NULL
    tries,              \* failed getService attempts of its constructor
    svcUp               \* sensorservice is registered with the service manager

mapVars == <<sPackageInstances, instances, ret, aliased>>
vars == <<mapVars, aborted, creating, tries, svcUp>>

DEVICE_ID_DEFAULT == 0

Keys      == Packages \cup {Empty}
DeviceIds == VirtualDevices \cup {DEVICE_ID_DEFAULT}
Addrs     == 1..MaxInstances

Live == {a \in Addrs : instances[a] # NULL}

-----------------------------------------------------------------------------

\* getDeviceIdForUid: the virtual device the uid is on, if the virtual device
\* manager is there, the uid is on exactly one device and that device has its
\* own sensors; the default device in every other case.
GetDeviceIdForUid(vdm, deviceIds, policy) ==
    IF vdm /\ Cardinality(deviceIds) = 1 /\ policy = "custom"
    THEN CHOOSE d \in deviceIds : TRUE
    ELSE DEVICE_ID_DEFAULT

\* What the calling uid can look like to getDeviceIdForUid.
DeviceIdOfCaller ==
    {GetDeviceIdForUid(vdm, ids, policy) :
        vdm \in BOOLEAN, ids \in SUBSET VirtualDevices,
        policy \in {"default", "custom"}}

\* Mutation of Insert: the pair replaces the one that is there.
InsertOrAssign(map, k, v) ==
    [x \in DOMAIN map \cup {k} |-> IF x = k THEN v ELSE map[x]]

\* std::map::insert: the pair goes in unless the key is taken.
Insert(map, k, v) ==
    IF k \in DOMAIN map THEN map ELSE map @@ (k :> v)

\* Mutation of Erase: the entry stays.
EraseNothing(map, k) == map

\* std::map::erase
Erase(map, k) == [x \in DOMAIN map \ {k} |-> map[x]]

\* Mutation of OpPackageName: a failed lookup gives no name at all.
OpPackageNameOrNull(p, looked) ==
    IF p # Empty THEN p ELSE IF looked = Empty THEN NULL ELSE looked

\* The name a new manager is attributed to: the caller's, or for a caller
\* without a name the first package of its uid, which is what `looked` is
\* (Empty when the permission service is missing or knows no package).
OpPackageName(p, looked) == IF p = Empty THEN looked ELSE p

\* Mutation of DeviceMatches: any cached manager will do.
DeviceMatchesAlways(a, dev) == TRUE

\* sensorManager->mDeviceId == deviceId.  Read from a manager that was
\* deleted, the field holds whatever is there: either answer.
DeviceMatches(a, dev) ==
    IF a \in Live THEN instances[a].mDeviceId = dev ELSE TRUE

DeviceDiffers(a, dev) ==
    IF a \in Live THEN instances[a].mDeviceId # dev ELSE TRUE

-----------------------------------------------------------------------------

\* getInstanceForPackage(p) by a caller whose uid is on device dev, when the
\* cached manager is returned.
ReturnCached(p, dev) ==
    /\ p \in DOMAIN sPackageInstances
    /\ DeviceMatches(sPackageInstances[p], dev)
    /\ ret' = [package |-> p, device |-> dev, manager |-> sPackageInstances[p]]
    /\ UNCHANGED <<sPackageInstances, instances, aliased, aborted, creating,
                   tries, svcUp>>

\* getInstanceForPackage(p) when there is no manager for p or the caller has
\* moved to another device, as far as `new SensorManager`: the name is looked
\* up and the constructor entered, with sLock held.  The
\* waitForSensorService(nullptr) before sLock keeps nothing of what it found.
\* (Live # Addrs is the bound MaxInstances, not a condition of the code.)
BeginCreate(p, dev, looked) ==
    /\ p \in DOMAIN sPackageInstances => DeviceDiffers(sPackageInstances[p], dev)
    /\ Live # Addrs
    /\ creating' = [package |-> p, device |-> dev,
                    op |-> OpPackageName(p, looked)]
    /\ tries' = 0
    /\ UNCHANGED <<mapVars, aborted, svcUp>>

GetInstanceForPackage(p) ==
    /\ ~aborted
    /\ creating = NULL
    /\ \E dev \in DeviceIdOfCaller :
          \/ ReturnCached(p, dev)
          \/ \E looked \in Keys : BeginCreate(p, dev, looked)

\* for (int i = 0; i < 60; i++) of waitForSensorService
TriesLeft == tries < MaxTries

\* Mutation of CtorWaits: the failed attempt is not counted.
CtorWaitsUncounted ==
    /\ creating # NULL
    /\ ~svcUp
    /\ TriesLeft
    /\ UNCHANGED vars

\* The constructor's assertStateLocked in waitForSensorService: getService
\* found nothing, and there are attempts left.
CtorWaits ==
    /\ creating # NULL
    /\ ~svcUp
    /\ TriesLeft
    /\ tries' = tries + 1
    /\ UNCHANGED <<mapVars, aborted, creating, svcUp>>

\* LOG_ALWAYS_FATAL of assertStateLocked: the wait ended without a service,
\* because the attempts ran out or one of them failed in another way than
\* NAME_NOT_FOUND, or the service was found and there is no memory for
\* mSensorList.
CtorAborts ==
    /\ creating # NULL
    /\ ~aborted
    /\ aborted' = TRUE
    /\ UNCHANGED <<mapVars, creating, tries, svcUp>>

\* An attempt of the constructor found the service: the new manager is
\* stored, under the empty name as well if the caller gave none, and
\* returned; sLock is free.
CreateInstance ==
    LET p     == creating.package
        a     == Min(Addrs \ Live)
        first == IF p = Empty THEN Insert(sPackageInstances, Empty, a)
                              ELSE sPackageInstances
        map   == Insert(first, creating.op, a)
    IN /\ creating # NULL
       /\ ~aborted
       /\ svcUp
       /\ TriesLeft
       /\ instances' = [instances EXCEPT ![a] =
                            [mDeviceId |-> creating.device,
                             mOpPackageName |-> creating.op]]
       /\ sPackageInstances' = map
       /\ ret' = [package |-> p, device |-> creating.device, manager |-> a]
       /\ aliased' = (aliased \/ Cardinality({k \in DOMAIN map : map[k] = a}) > 1)
       /\ creating' = NULL
       /\ UNCHANGED <<aborted, tries, svcUp>>

\* The thread that holds sLock inside the constructor.
Constructor == CtorWaits \/ CtorAborts \/ CreateInstance

\* removeInstanceForPackage(p): delete the manager stored under p and erase
\* the entry; nothing if there is none.  delete of a manager that was deleted
\* before is undefined: the allocator catches it and kills the process, or
\* it goes unnoticed and the entry is erased.
RemoveInstanceForPackage(p) ==
    /\ ~aborted
    /\ creating = NULL
    /\ \/ /\ p \notin DOMAIN sPackageInstances
          /\ UNCHANGED <<sPackageInstances, instances, aborted>>
       \/ /\ p \in DOMAIN sPackageInstances
          /\ sPackageInstances[p] \in Live
          /\ instances' = [instances EXCEPT ![sPackageInstances[p]] = NULL]
          /\ sPackageInstances' = Erase(sPackageInstances, p)
          /\ UNCHANGED aborted
       \/ /\ p \in DOMAIN sPackageInstances
          /\ sPackageInstances[p] \notin Live
          /\ \/ aborted' = TRUE /\ UNCHANGED sPackageInstances
             \/ sPackageInstances' = Erase(sPackageInstances, p) /\ UNCHANGED aborted
          /\ UNCHANGED instances
    /\ UNCHANGED <<ret, aliased, creating, tries, svcUp>>

\* sensorservice starts, or dies, at any moment.
ServiceStartsOrDies ==
    /\ ~aborted
    /\ svcUp' = ~svcUp
    /\ UNCHANGED <<mapVars, aborted, creating, tries>>

\* The process is gone.
Aborted ==
    /\ aborted
    /\ UNCHANGED vars

Init ==
    /\ sPackageInstances = <<>>
    /\ instances = [a \in Addrs |-> NULL]
    /\ ret = NULL
    /\ aliased = FALSE
    /\ aborted = FALSE
    /\ creating = NULL
    /\ tries = 0
    /\ svcUp \in BOOLEAN

Next ==
    \/ \E p \in Keys : GetInstanceForPackage(p)
    \/ Constructor
    \/ \E p \in Keys : RemoveInstanceForPackage(p)
    \/ ServiceStartsOrDies
    \/ Aborted

Spec == Init /\ [][Next]_vars

\* The thread inside the constructor keeps running: getService and sleep(1)
\* return, and the loop is left when its attempts are used up.  Nothing
\* makes the service start, a caller call, getService fail in another way
\* or malloc run out of memory.
FairSpec ==
    Spec /\ WF_vars(CtorWaits \/ CreateInstance \/ (~TriesLeft /\ CtorAborts))

-----------------------------------------------------------------------------
(* Properties *)

TypeOK ==
    /\ DOMAIN sPackageInstances \subseteq Keys
    /\ \A k \in DOMAIN sPackageInstances : sPackageInstances[k] \in Addrs
    /\ instances \in [Addrs -> {NULL} \cup [mDeviceId : DeviceIds,
                                            mOpPackageName : Keys]]
    /\ ret \in {NULL} \cup [package : Keys, device : DeviceIds, manager : Addrs]
    /\ aliased \in BOOLEAN
    /\ aborted \in BOOLEAN
    /\ creating \in {NULL} \cup [package : Keys, device : DeviceIds, op : Keys]
    /\ tries \in 0..MaxTries
    /\ svcUp \in BOOLEAN

\* Every entry of the registry refers to a manager that exists:
\* removeInstanceForPackage deletes what it erases and nothing else
\* (SensorManager.cpp:159-161), so that the pointer getInstanceForPackage
\* reads mDeviceId through (SensorManager.cpp:113) is never a deleted one.
RegistryEntriesLive ==
    \A k \in DOMAIN sPackageInstances : sPackageInstances[k] \in Live

\* As long as no manager was stored under two names, the registry is sound:
\* its entries are live and no two names share a manager, so that deleting
\* the manager of one package cannot take away that of another.  Callers
\* that always pass their package name stay in this regime.
SoundWithoutAlias ==
    ~aliased =>
        /\ RegistryEntriesLive
        /\ \A j, k \in DOMAIN sPackageInstances :
               sPackageInstances[j] = sPackageInstances[k] => j = k

\* The manager getInstanceForPackage returns is one for the device the
\* caller is on now, so long as the registry holds no deleted manager:
\* "Return the cached instance if the device association of the package has
\* not changed" (SensorManager.cpp:110).
ReturnedMatchesDevice ==
    [][ret' # ret /\ RegistryEntriesLive
           => instances'[ret'.manager].mDeviceId = ret'.device]_vars

\* What getInstanceForPackage(p) returns is what it has stored for p:
\* "Stash the per package sensor manager" (SensorManager.cpp:149), so that
\* the next call for p from the same device gets the same manager.
StashedAfterGet ==
    [][ret' # ret => /\ ret'.package \in DOMAIN sPackageInstances'
                     /\ sPackageInstances'[ret'.package] = ret'.manager]_vars

\* sLock is not held for ever: a getInstanceForPackage that constructs a
\* manager under sLock (SensorManager.cpp:140) returns or kills the process,
\* however sensorservice comes and goes while the constructor waits for it,
\* so that the callers queued behind sLock get their turn.
CreateEnds ==
    creating # NULL ~> (creating = NULL \/ aborted)

=============================================================================
