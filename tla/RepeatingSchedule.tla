-------------------------- MODULE RepeatingSchedule --------------------------
(***************************************************************************)
(* What a client that schedules again after every invocation is promised   *)
(* (spec.md section 8): one invocation for every schedule call, no more    *)
(* and none before its call.  Per client, the calls made and the           *)
(* invocations got take turns, the call first.                             *)
(***************************************************************************)
EXTENDS Naturals

CONSTANTS
    Clients,        \* the clients that schedule
    Iterations      \* the schedule calls each of them makes

VARIABLES
    scheduled,      \* scheduled[c]: schedule calls c has made
    invoked         \* invoked[c]: invocations of c's callback

vars == <<scheduled, invoked>>

Init ==
    /\ scheduled = [c \in Clients |-> 0]
    /\ invoked = [c \in Clients |-> 0]

\* c schedules: its first call, or the next after it was invoked for the last.
Schedule(c) ==
    /\ scheduled[c] < Iterations
    /\ invoked[c] = scheduled[c]
    /\ scheduled' = [scheduled EXCEPT ![c] = @ + 1]
    /\ UNCHANGED invoked

\* c is invoked for the call it is waiting on.
Invoke(c) ==
    /\ invoked[c] < scheduled[c]
    /\ invoked' = [invoked EXCEPT ![c] = @ + 1]
    /\ UNCHANGED scheduled

Next == \E c \in Clients : Schedule(c) \/ Invoke(c)

Spec == Init /\ [][Next]_vars

=============================================================================
