--------------------------- MODULE SensorManager ---------------------------
(***************************************************************************)
(* One SensorManager object (src/libs/sensor/SensorManager.cpp), the       *)
(* application threads that call its methods, and the binder thread that   *)
(* tells it that sensorservice died.                                       *)
(*                                                                         *)
(* Every public method but getSensorNameByHandle holds mLock from its      *)
(* first line to its return, so at most one call is inside the manager:    *)
(* mLock, pc and op describe that call.  A call is not one step: the       *)
(* service can die, restart and have its obituary picked up while the      *)
(* caller waits for the service or sits between two transactions.          *)
(*                                                                         *)
(* Memory is modelled as far as the code manages it by hand: the arrays    *)
(* it mallocs and frees, and the buffers of its two Vectors, into which    *)
(* the arrays' entries point.                                              *)
(***************************************************************************)
EXTENDS SensorService, FiniteSets, FiniteSetsExt, TLC

CONSTANTS
    Threads,            \* application threads
    MaxTries,           \* getService attempts of waitForSensorService (60)
    MaxBlocks,          \* bound: arrays malloc can hand out before it fails
    MaxChannels,        \* bound: direct channels ever created
    PingBinderFlag,     \* build flag sensormanager_ping_binder
    Handles,            \* sensor handles
    Names,              \* sensor names ("type:name")
    StaticSensors,      \* StaticSensors[g]: the list generation g serves
    DynamicSensors      \* DynamicSensors[g]: its dynamic sensors

ASSUME /\ MaxTries \in Nat
       /\ MaxBlocks \in Nat \ {0}
       /\ MaxChannels \in Nat
       /\ PingBinderFlag \in BOOLEAN
       /\ DOMAIN StaticSensors = Gens
       /\ DOMAIN DynamicSensors = Gens

VARIABLES
    mSensorServer,          \* generation the proxy refers to, or NULL
    mSensors,               \* address of the Vector's buffer, NULL when empty
    mSensorList,            \* address of the malloc'ed array of Sensor*, or NULL
    mDynamicSensors,        \* as mSensors
    mDynamicSensorList,     \* as mSensorList
    mDirectConnection,      \* handle -> generation that holds the channel
    mDirectConnectionHandle,\* the next handle createDirectChannel gives out
    mSensorHandleToName,    \* handle -> name, filled by getSensorNameByHandle
    heap,                   \* heap[a]: what lives at address a
    mLock,                  \* the thread inside a locked method, or NULL
    pc,                     \* where that thread is
    op,                     \* which method it runs
    tries,                  \* failed getService attempts of the current wait
    nameLock,               \* holder of mSensorHandleToNameMutex, or NULL
    scan                    \* the list that holder is searching, or NULL

listVars == <<mSensorServer, mSensors, mSensorList, mDynamicSensors,
              mDynamicSensorList, heap>>
chanVars == <<mDirectConnection, mDirectConnectionHandle>>
nameVars == <<mSensorHandleToName, nameLock, scan>>
mgrVars  == <<listVars, chanVars>>
callVars == <<mLock, pc, op, tries>>
vars == <<svcVars, mgrVars, callVars, nameVars>>

-----------------------------------------------------------------------------
(* The heap *)

\* bound: a Vector assignment builds the new buffer before it drops the old
\* one, so two Vectors need three buffers at most.
VecBufs == 3

Blocks == 1..MaxBlocks
Bufs   == (MaxBlocks + 1)..(MaxBlocks + VecBufs)
Addrs  == Blocks \cup Bufs

FreeCell      == [kind |-> "free"]
VectorCell(l) == [kind |-> "vector", list |-> l]
ArrayCell(v)  == [kind |-> "array", into |-> v]

EmptyList == <<>>

\* malloc: an address of the pool that is free, NULL when there is none.
\* Addresses are only ever compared, so the lowest free one stands for any.
Malloc(h, pool) ==
    LET free == {a \in pool : h[a] = FreeCell}
    IN IF free = {} THEN NULL ELSE Min(free)

\* free(p); free(nullptr) does nothing.
Free(h, p) == IF p = NULL THEN h ELSE [h EXCEPT ![p] = FreeCell]

\* Mutation of NewArray: the array is allocated and not filled.
NewArrayUnfilled(h, v) ==
    LET a == Malloc(h, Blocks)
    IN [addr |-> a, heap |-> IF a = NULL THEN h ELSE [h EXCEPT ![a] = ArrayCell(NULL)]]

\* The Sensor const** array over Vector buffer v: malloc(count * sizeof(Sensor*))
\* filled with v.array() + i.  An empty Vector still gets an array.
NewArray(h, v) ==
    LET a == Malloc(h, Blocks)
    IN [addr |-> a, heap |-> IF a = NULL THEN h ELSE [h EXCEPT ![a] = ArrayCell(v)]]

\* vec = list: the new buffer exists before the old one is released.
AssignVector(h, old, list) ==
    LET v == IF list = EmptyList THEN NULL ELSE Malloc(h, Bufs)
        filled == IF v = NULL THEN h ELSE [h EXCEPT ![v] = VectorCell(list)]
    IN [addr |-> v, heap |-> Free(filled, old)]

-----------------------------------------------------------------------------
(* Sensor lists *)

\* A list of sensors, as far as the manager looks into one: handle -> name.
SensorLists == UNION {[D -> Names] : D \in SUBSET Handles}

\* A transaction on the proxy returns what the running generation serves, and
\* nothing (an empty Vector) when that generation is dead.
Serves(lists) ==
    IF Alive(mSensorServer) THEN lists[mSensorServer] ELSE EmptyList

\* What a loop over the Vector whose buffer was at address a can see: nothing
\* for an empty Vector, the list while the buffer is that of a Vector, and
\* anything once the buffer was freed or handed to an array.
ReadVector(a) ==
    CASE a = NULL                -> {EmptyList}
      [] heap[a].kind = "vector" -> {heap[a].list}
      [] OTHER                   -> SensorLists

-----------------------------------------------------------------------------
(* assertStateLocked and the constructor *)

Methods == {"ctor", "getSensorList", "getSensorListCopy", "getDynamicSensorList",
            "getDefaultSensor", "createEventQueue", "isDataInjectionEnabled",
            "createDirectChannel", "destroyDirectChannel",
            "configureDirectChannel", "setOperationParameter"}

\* return: the Autolock is released
Return ==
    /\ mLock' = NULL
    /\ pc' = "idle"
    /\ op' = NULL
    /\ tries' = 0

\* The thread inside the manager is past assertStateLocked of method m.
InBody(m) == pc = "body" /\ op = m

\* Mutations of NeedsInit: the flag not looked at; the null check dropped.
NeedsInitFlagIgnored ==
    \/ mSensorServer = NULL
    \/ ~Alive(mSensorServer)

NeedsInitPingOnly ==
    ~PingBinderFlag /\ ~Alive(mSensorServer)

\* The first lines of assertStateLocked: does the manager have to (re)connect?
\* With the flag the proxy is only tested for null; without it the proxy is
\* pinged as well, and a failed ping reconnects.
NeedsInit ==
    \/ mSensorServer = NULL
    \/ ~PingBinderFlag /\ ~Alive(mSensorServer)

\* Thread t enters method m: it takes mLock and calls assertStateLocked.
BeginCall(t, m) ==
    /\ mLock = NULL
    /\ pc = "idle"
    /\ nameLock # t
    /\ m \in Methods \ {"ctor"}
    /\ mLock' = t
    /\ op' = m
    /\ tries' = 0
    /\ pc' = IF NeedsInit THEN "wait" ELSE "body"
    /\ UNCHANGED <<svcVars, mgrVars, nameVars>>

\* Mutation of TriesLeft: one attempt too many.
TriesLeftOffByOne == tries <= MaxTries

\* for (int i = 0; i < 60; i++)
TriesLeft == tries < MaxTries

\* waitForSensorService(&mSensorServer), one getService attempt per step, with
\* mLock held throughout.  An attempt finds the service (NO_ERROR), finds
\* none and sleeps (NAME_NOT_FOUND), or fails in another way (default:); with
\* no attempt left the result is TIMED_OUT.  Only success assigns the proxy.
WaitForSensorService ==
    /\ pc = "wait"
    /\ \/ /\ TriesLeft
          /\ Registered # NULL
          /\ mSensorServer' = Registered
          /\ pc' = "init"
          /\ UNCHANGED tries
       \/ /\ TriesLeft
          /\ Registered = NULL
          /\ tries' = tries + 1
          /\ UNCHANGED <<mSensorServer, pc>>
       \/ /\ pc' = "init"
          /\ UNCHANGED <<mSensorServer, tries>>
    /\ UNCHANGED <<svcVars, mSensors, mSensorList, mDynamicSensors,
                   mDynamicSensorList, heap, chanVars, nameVars, mLock, op>>

\* Mutation of ObserveDeath: the observer is made once and linked once.
ObserveDeathOnce ==
    obit' = IF \E g \in Gens : obit[g] # "none"
            THEN obit ELSE LinkToDeath(mSensorServer)

\* mDeathObserver = new DeathObserver(*this); linkToDeath(mDeathObserver):
\* the observer of the previous connection is dropped.
ObserveDeath ==
    obit' = LinkToDeath(mSensorServer)

\* The rest of assertStateLocked's reconnect: abort without a proxy; link a new
\* DeathObserver; fetch the sensor list; malloc and fill mSensorList (the old
\* array is not freed here); abort if malloc failed.
InitSensorManager ==
    LET vec == AssignVector(heap, mSensors, Serves(StaticSensors))
        arr == NewArray(vec.heap, vec.addr)
    IN /\ pc = "init"
       /\ \/ /\ mSensorServer = NULL
             /\ pc' = "aborted"
             /\ UNCHANGED <<svcVars, mgrVars>>
          \/ /\ mSensorServer # NULL
             /\ ObserveDeath
             /\ mSensors' = vec.addr
             /\ mSensorList' = arr.addr
             /\ heap' = arr.heap
             /\ pc' = IF arr.addr = NULL THEN "aborted" ELSE "body"
             /\ UNCHANGED <<svcGen, svcUp, mSensorServer, mDynamicSensors,
                            mDynamicSensorList, chanVars>>
       /\ UNCHANGED <<mLock, op, tries, nameVars>>

\* SensorManager::SensorManager: the fields start empty and the constructor
\* runs assertStateLocked under mLock before anybody can call the object.
SensorManagerCtor ==
    /\ InBody("ctor")
    /\ Return
    /\ UNCHANGED <<svcVars, mgrVars, nameVars>>

-----------------------------------------------------------------------------
(* The death of sensorservice *)

\* heap after free() of the arrays and clear() of the Vectors in ptrs
Released(ptrs) ==
    [a \in Addrs |-> IF a \in ptrs THEN FreeCell ELSE heap[a]]

\* Mutation of DroppedLists: mSensorList is set to nullptr without free().
DroppedListsButArray ==
    {mSensors, mDynamicSensorList, mDynamicSensors}

\* What sensorManagerDied and the destructor release.
DroppedLists ==
    {mSensorList, mSensors, mDynamicSensorList, mDynamicSensors}

\* DeathObserver::binderDied -> sensorManagerDied: under mLock, drop the proxy
\* and both lists.  Which binder died is not looked at; the direct channels and
\* the name cache are left as they are.
SensorManagerDied(g) ==
    /\ obit[g] = "inflight"
    /\ mLock = NULL
    /\ pc = "idle"
    /\ obit' = [obit EXCEPT ![g] = "done"]
    /\ mSensorServer' = NULL
    /\ heap' = Released(DroppedLists)
    /\ mSensorList' = NULL
    /\ mSensors' = NULL
    /\ mDynamicSensorList' = NULL
    /\ mDynamicSensors' = NULL
    /\ UNCHANGED <<svcGen, svcUp, chanVars, callVars, nameVars>>

-----------------------------------------------------------------------------
(* The methods *)

\* A method that, past assertStateLocked, reads the manager's fields or
\* forwards one transaction to the service, and changes nothing.
ReadOnly(m) ==
    /\ InBody(m)
    /\ Return
    /\ UNCHANGED <<svcVars, mgrVars, nameVars>>

\* getSensorList(Sensor const* const** list): hands out mSensorList itself.
GetSensorList == ReadOnly("getSensorList")

\* getDefaultDeviceSensorList, getDynamicSensorList(Vector<Sensor>&) and
\* getRuntimeSensorList: a copy of mSensors or of the service's answer.
GetSensorListCopy == ReadOnly("getSensorListCopy")

\* getDefaultSensor: scans mSensorList and returns one of its entries.
GetDefaultSensor == ReadOnly("getDefaultSensor")

\* createEventQueue: one createSensorEventConnection; nullptr when it fails.
CreateEventQueue == ReadOnly("createEventQueue")

\* isDataInjectionEnabled and its two siblings
IsDataInjectionEnabled == ReadOnly("isDataInjectionEnabled")

\* setOperationParameter
SetOperationParameter == ReadOnly("setOperationParameter")

\* Mutation of DynamicArray: the freed pointer is not reset to nullptr.
DynamicArrayStale(h, v) ==
    IF v = NULL THEN [addr |-> mDynamicSensorList, heap |-> h] ELSE NewArray(h, v)

\* The array over the new dynamic sensors: none when there are no sensors.
DynamicArray(h, v) ==
    IF v = NULL THEN [addr |-> NULL, heap |-> h] ELSE NewArray(h, v)

\* getDynamicSensorList(Sensor const* const** list): free the old array, fetch
\* the dynamic sensors, malloc a new array when there are any.  When malloc
\* fails the method returns NO_MEMORY with the Vector already replaced.
GetDynamicSensorList ==
    LET vec == AssignVector(Free(heap, mDynamicSensorList), mDynamicSensors,
                            Serves(DynamicSensors))
        arr == DynamicArray(vec.heap, vec.addr)
    IN /\ InBody("getDynamicSensorList")
       /\ mDynamicSensors' = vec.addr
       /\ mDynamicSensorList' = arr.addr
       /\ heap' = arr.heap
       /\ Return
       /\ UNCHANGED <<svcVars, mSensorServer, mSensors, mSensorList, chanVars,
                      nameVars>>

\* Mutation of HandleAfterCreate: the counter is not incremented.
HandleAfterCreateSame == mDirectConnectionHandle

\* int nativeHandle = mDirectConnectionHandle++;
HandleAfterCreate == mDirectConnectionHandle + 1

\* createDirectChannel: BAD_VALUE for a channel type that is neither ashmem
\* nor gralloc and NO_MEMORY when the service gives no connection, both
\* without a change; else the connection goes into the table under the next
\* handle.
CreateDirectChannel ==
    /\ InBody("createDirectChannel")
    /\ \/ UNCHANGED chanVars
       \/ /\ Alive(mSensorServer)
          /\ mDirectConnectionHandle <= MaxChannels
          /\ mDirectConnection' =
                 IF mDirectConnectionHandle \in DOMAIN mDirectConnection
                 THEN mDirectConnection
                 ELSE mDirectConnection @@ (mDirectConnectionHandle :> mSensorServer)
          /\ mDirectConnectionHandle' = HandleAfterCreate
    /\ Return
    /\ UNCHANGED <<svcVars, listVars, nameVars>>

\* The handles a caller may pass: those ever given out and one that never is.
ChannelHandles == 1..(MaxChannels + 1)

\* destroyDirectChannel(h): erase h, whether it is in the table or not.
DestroyDirectChannel(h) ==
    /\ InBody("destroyDirectChannel")
    /\ mDirectConnection' =
           [c \in DOMAIN mDirectConnection \ {h} |-> mDirectConnection[c]]
    /\ Return
    /\ UNCHANGED <<svcVars, listVars, mDirectConnectionHandle, nameVars>>

\* configureDirectChannel: BAD_VALUE for a handle that is not in the table,
\* else what the connection answers.
ConfigureDirectChannel == ReadOnly("configureDirectChannel")

-----------------------------------------------------------------------------
(* getSensorNameByHandle: under mSensorHandleToNameMutex, not under mLock *)

NameUnlock ==
    /\ nameLock' = NULL
    /\ scan' = NULL

\* Thread t asks for the name of handle h.  A cached name is returned at once;
\* else the thread starts to search mSensors.
GetSensorNameByHandle(t, h) ==
    /\ nameLock = NULL
    /\ mLock # t
    /\ pc \notin {"aborted", "destroyed"}
    /\ \/ /\ h \in DOMAIN mSensorHandleToName
          /\ UNCHANGED nameVars
       \/ /\ h \notin DOMAIN mSensorHandleToName
          /\ nameLock' = t
          /\ scan' = [handle |-> h, vector |-> "mSensors", buf |-> mSensors]
          /\ UNCHANGED mSensorHandleToName
    /\ UNCHANGED <<svcVars, mgrVars, callVars>>

\* findSensorNameInList over the Vector the search is at: the name goes into
\* the cache when the handle is found; else the search goes on to
\* mDynamicSensors, and ends without a name after that.
FindSensorNameInList ==
    /\ nameLock # NULL
    /\ \E list \in ReadVector(scan.buf) :
         \/ /\ scan.handle \in DOMAIN list
            /\ mSensorHandleToName' =
                   mSensorHandleToName @@ (scan.handle :> list[scan.handle])
            /\ NameUnlock
         \/ /\ scan.handle \notin DOMAIN list
            /\ scan.vector = "mSensors"
            /\ scan' = [scan EXCEPT !.vector = "mDynamicSensors",
                                    !.buf = mDynamicSensors]
            /\ UNCHANGED <<mSensorHandleToName, nameLock>>
         \/ /\ scan.handle \notin DOMAIN list
            /\ scan.vector = "mDynamicSensors"
            /\ NameUnlock
            /\ UNCHANGED mSensorHandleToName
    /\ UNCHANGED <<svcVars, mgrVars, callVars>>

-----------------------------------------------------------------------------
(* The end of the object, and of the process *)

\* ~SensorManager: free both arrays; the members go with the object, the
\* Vectors with their buffers and the DeathObserver unless a binder thread
\* holds it.  The owner deletes the manager when no thread is inside it.
Destructor ==
    /\ pc = "idle"
    /\ nameLock = NULL
    /\ pc' = "destroyed"
    /\ heap' = Released(DroppedLists)
    /\ mSensorServer' = NULL
    /\ mSensorList' = NULL
    /\ mSensors' = NULL
    /\ mDynamicSensorList' = NULL
    /\ mDynamicSensors' = NULL
    /\ mDirectConnection' = <<>>
    /\ obit' = [g \in Gens |-> IF obit[g] = "linked" THEN "none" ELSE obit[g]]
    /\ UNCHANGED <<svcGen, svcUp, mDirectConnectionHandle, mLock, op, tries,
                   nameVars>>

\* DeathObserver::binderDied when the manager it refers to is gone: the
\* observer holds a plain reference, and the call runs on freed memory.
BinderDiedAfterDestructor(g) ==
    /\ obit[g] = "inflight"
    /\ pc = "destroyed"
    /\ obit' = [obit EXCEPT ![g] = "done"]
    /\ pc' = "aborted"
    /\ UNCHANGED <<svcGen, svcUp, mgrVars, mLock, op, tries, nameVars>>

\* LOG_ALWAYS_FATAL_IF has killed the process, or the manager is deleted:
\* nothing of it runs any more.
Terminated ==
    /\ pc \in {"aborted", "destroyed"}
    /\ UNCHANGED vars

-----------------------------------------------------------------------------

Init ==
    /\ ServiceInit
    /\ mSensorServer = NULL
    /\ mSensors = NULL
    /\ mSensorList = NULL
    /\ mDynamicSensors = NULL
    /\ mDynamicSensorList = NULL
    /\ mDirectConnection = <<>>
    /\ mDirectConnectionHandle = 1
    /\ mSensorHandleToName = <<>>
    /\ heap = [a \in Addrs |-> FreeCell]
    /\ mLock \in Threads
    /\ pc = "wait"
    /\ op = "ctor"
    /\ tries = 0
    /\ nameLock = NULL
    /\ scan = NULL

Environment ==
    /\ \/ ServiceStarts
       \/ ServiceDies
       \/ \E g \in Gens : SendObituary(g)
    /\ UNCHANGED <<mgrVars, callVars, nameVars>>

\* A step of the thread that holds mLock.
CallStep ==
    \/ WaitForSensorService
    \/ InitSensorManager
    \/ SensorManagerCtor
    \/ GetSensorList
    \/ GetSensorListCopy
    \/ GetDynamicSensorList
    \/ GetDefaultSensor
    \/ CreateEventQueue
    \/ IsDataInjectionEnabled
    \/ CreateDirectChannel
    \/ \E h \in ChannelHandles : DestroyDirectChannel(h)
    \/ ConfigureDirectChannel
    \/ SetOperationParameter

Next ==
    \/ Environment
    \/ \E t \in Threads, m \in Methods : BeginCall(t, m)
    \/ CallStep
    \/ \E g \in Gens : SensorManagerDied(g)
    \/ \E t \in Threads, h \in Handles : GetSensorNameByHandle(t, h)
    \/ FindSensorNameInList
    \/ Destructor
    \/ \E g \in Gens : BinderDiedAfterDestructor(g)
    \/ Terminated

Spec == Init /\ [][Next]_vars

\* A thread inside a method keeps running; binder picks up every death it has
\* a recipient for; the binder thread that waits for mLock gets it if mLock
\* is free again and again.  Nothing makes an application call the manager.
Fairness ==
    /\ WF_vars(CallStep)
    /\ WF_vars(FindSensorNameInList)
    /\ WF_vars(Environment /\ \E g \in Gens : SendObituary(g))
    /\ SF_vars(\E g \in Gens : SensorManagerDied(g))

FairSpec == Spec /\ Fairness

-----------------------------------------------------------------------------
(* Properties *)

Cells ==
    {FreeCell}
    \cup {VectorCell(l) : l \in SensorLists \ {EmptyList}}
    \cup {ArrayCell(v) : v \in Bufs \cup {NULL}}

PartialFunctions(D, R) == UNION {[S -> R] : S \in SUBSET D}

TypeOK ==
    /\ svcGen \in 0..MaxGen
    /\ svcUp \in BOOLEAN
    /\ obit \in [Gens -> ObitStates]
    /\ mSensorServer \in Gens \cup {NULL}
    /\ mSensors \in Bufs \cup {NULL}
    /\ mSensorList \in Blocks \cup {NULL}
    /\ mDynamicSensors \in Bufs \cup {NULL}
    /\ mDynamicSensorList \in Blocks \cup {NULL}
    /\ mDirectConnection \in PartialFunctions(1..MaxChannels, Gens)
    /\ mDirectConnectionHandle \in 1..(MaxChannels + 1)
    /\ mSensorHandleToName \in SensorLists
    /\ heap \in [Addrs -> Cells]
    /\ mLock \in Threads \cup {NULL}
    /\ pc \in {"idle", "wait", "init", "body", "aborted", "destroyed"}
    /\ op \in Methods \cup {NULL}
    /\ tries \in 0..MaxTries
    /\ nameLock \in Threads \cup {NULL}
    /\ scan \in [handle : Handles, vector : {"mSensors", "mDynamicSensors"},
                 buf : Bufs \cup {NULL}] \cup {NULL}
    /\ (nameLock = NULL) = (scan = NULL)
    /\ pc \in {"idle", "destroyed"} => mLock = NULL
    /\ pc \in {"wait", "init", "body"} => mLock # NULL

Owned == {mSensors, mSensorList, mDynamicSensors, mDynamicSensorList} \ {NULL}

\* After assertStateLocked has returned NO_ERROR, mSensorList is a live array
\* whose entries point into the buffer mSensors has now: what getSensorList
\* hands out and getDefaultSensor indexes (SensorManager.cpp:269, 363), and
\* "if count is 0, mSensorList will be non-null" (SensorManager.cpp:249).
ListReadyAfterAssert ==
    pc = "body" =>
        /\ mSensorList # NULL
        /\ heap[mSensorList] = ArrayCell(mSensors)
        /\ mSensors # NULL => heap[mSensors].kind = "vector"

\* No field of the manager points at freed memory, and no two fields own the
\* same allocation: a free() of one, in sensorManagerDied, the destructor or
\* getDynamicSensorList, can neither be a double free nor pull memory from
\* under another field.
OwnedMemoryIsLive ==
    /\ \A a \in Owned : heap[a] # FreeCell
    /\ mSensorList # NULL => mSensorList # mDynamicSensorList
    /\ mSensors # NULL => mSensors # mDynamicSensors
    /\ mDynamicSensorList # NULL =>
           /\ heap[mDynamicSensorList] = ArrayCell(mDynamicSensors)
           /\ mDynamicSensors # NULL

\* Every allocation is reachable from a field of the manager: nothing the
\* manager malloc'ed is lost when it reconnects, is told that the service
\* died, or is destroyed.
NoLeak ==
    \A a \in Addrs : heap[a] # FreeCell => a \in Owned

\* The manager drops its proxy only when the service behind it is dead:
\* sensorManagerDied, which does not look at who died, never runs for an
\* incarnation other than the one the manager is connected to.
ProxyDroppedOnlyWhenDead ==
    [][mSensorServer # NULL /\ mSensorServer' = NULL /\ pc' # "destroyed"
           => ~Alive(mSensorServer)]_vars

\* Between two calls the manager has a death notification outstanding for the
\* proxy it holds.  With the null check of assertStateLocked as the only test
\* of the proxy, sensorManagerDied is what makes the manager reconnect; a
\* proxy without a linked DeathObserver would be kept and used forever.
WatchedWhileConnected ==
    pc \in {"idle", "body"} /\ mSensorServer # NULL
        => obit[mSensorServer] \in {"linked", "inflight"}

\* Recovery from the death of the service: if an incarnation g stays up for
\* good and applications go on calling the manager, the manager ends up
\* connected to g and stays so.  It is sensorManagerDied that makes the next
\* assertStateLocked reconnect, so every connection needs its obituary.
Recovery ==
    \A g \in Gens :
        <>[]Alive(g) /\ []<>(pc = "body") => <>[](mSensorServer = g)

\* The handle createDirectChannel hands out next is in use by no channel, so
\* that emplace() never finds the key taken and drops the new connection.
NextDirectHandleIsFresh ==
    \A c \in DOMAIN mDirectConnection : c < mDirectConnectionHandle

\* getSensorNameByHandle never walks a Vector whose buffer has been released:
\* mSensors and mDynamicSensors are written under mLock, which this method
\* does not take.
NameScanReadsLiveVector ==
    scan # NULL /\ scan.buf # NULL => heap[scan.buf].kind = "vector"

=============================================================================
