--------------------------- MODULE SensorService ---------------------------
(***************************************************************************)
(* The remote side of SensorManager: the sensorservice process, its        *)
(* registration with the service manager, and the death notification that  *)
(* binder owes to a recipient linked to a proxy of the service.            *)
(*                                                                         *)
(* None of this is code of src/; it is the contract SensorManager.cpp      *)
(* relies on when it calls getService, pingBinder, linkToDeath and the     *)
(* ISensorServer methods.  The service runs as a sequence of incarnations  *)
(* ("generations"): it can die at any moment and be started again.         *)
(***************************************************************************)
EXTENDS Integers

CONSTANTS
    MaxGen,     \* bound: incarnations of sensorservice that ever start
    NULL        \* nullptr, and "no value" in general

ASSUME MaxGen \in Nat \ {0}

VARIABLES
    svcGen,     \* number of incarnations started so far; the latest one is svcGen
    svcUp,      \* TRUE iff incarnation svcGen is running and registered
    obit        \* obit[g]: death-notification state of this process' proxy of g

svcVars == <<svcGen, svcUp, obit>>

Gens == 1..MaxGen

\* "none":     no live recipient is linked to the proxy
\* "linked":   the manager's current DeathObserver is linked
\* "inflight": a binder thread holds the observer and is about to call binderDied
\* "done":     the obituary was delivered; the proxy links no recipient any more
ObitStates == {"none", "linked", "inflight", "done"}

\* A transaction on a proxy of g succeeds iff g is the running incarnation.
Alive(g) == svcUp /\ g = svcGen

\* What getService("sensorservice") finds: the running incarnation or nothing.
Registered == IF svcUp THEN svcGen ELSE NULL

ServiceInit ==
    /\ svcGen = 0
    /\ svcUp = FALSE
    /\ obit = [g \in Gens |-> "none"]

\* A new incarnation starts and registers itself.
ServiceStarts ==
    /\ ~svcUp
    /\ svcGen < MaxGen
    /\ svcGen' = svcGen + 1
    /\ svcUp' = TRUE
    /\ UNCHANGED obit

\* The running incarnation dies; its registration goes with it.
ServiceDies ==
    /\ svcUp
    /\ svcUp' = FALSE
    /\ UNCHANGED <<svcGen, obit>>

\* obit after the manager replaced its DeathObserver by a fresh one and linked
\* that to its proxy of g.  The observer it replaced is destroyed, so whatever
\* was linked and not yet picked up by a binder thread is never delivered.  A
\* proxy that already sent its obituaries refuses the link (DEAD_OBJECT).
LinkToDeath(g) ==
    [h \in Gens |->
        CASE h = g /\ obit[h] \in {"none", "linked"} -> "linked"
          [] h # g /\ obit[h] = "linked"             -> "none"
          [] OTHER                                   -> obit[h]]

\* A binder thread learns that g died, takes a strong reference to the linked
\* recipient and is about to call its binderDied.
SendObituary(g) ==
    /\ obit[g] = "linked"
    /\ ~Alive(g)
    /\ obit' = [obit EXCEPT ![g] = "inflight"]
    /\ UNCHANGED <<svcGen, svcUp>>

=============================================================================
