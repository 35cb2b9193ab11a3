--------------------------- MODULE MCVSyncDispatch ---------------------------
(***************************************************************************)
(* The dispatch engine for TLC: two registrations, a clock of 0 to 6 and   *)
(* pulses every 2 or 3 ticks, so that two targets fall on the same pulse,  *)
(* on neighbouring pulses and further apart, and leads of 0 and 2 ticks,   *)
(* so that wakeup times differ by less and by more than either threshold.  *)
(***************************************************************************)
EXTENDS VSyncDispatch, TLC

CONSTANTS r1, r2

MCHandles   == {r1, r2}
MCPeriods   == {2, 3}
MCTimes     == 0..6
MCDurations == {<<0, 0>>, <<1, 1>>}

HandleSymmetry == Permutations(MCHandles)

=============================================================================
