--------------------- MODULE MCVSyncDispatchRealtimeTest ---------------------
(***************************************************************************)
(* The realtime tests for TLC, in ticks of half a millisecond: a period of *)
(* 3 ms is 6 ticks, and vascillating_vrr slides from it to 22 ms, 44       *)
(* ticks.  The group threshold of the test, 100 microseconds, lies below   *)
(* one tick and the move threshold, 500 microseconds, is one tick: wakeup  *)
(* times are whole ticks, so two are within the group threshold of each    *)
(* other when they are equal (GroupThreshold = 0), and less than the move  *)
(* threshold apart when they are equal (MoveThreshold = 1).  Iterations    *)
(* and the frame of the jump are those of the test; the clock is long      *)
(* enough for the slowest test, twenty cycles of at most a lead and a      *)
(* period each.                                                            *)
(***************************************************************************)
EXTENDS VSyncDispatchRealtimeTest

MCTests   == {"triple_alarm", "vascillating_vrr", "fixed_jump"}
MCClients == 1..3
MCPeriods == {6 + 2 * k : k \in 0..19}
MCTimes   == 0..1200

=============================================================================
