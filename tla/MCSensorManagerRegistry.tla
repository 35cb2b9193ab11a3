----------------------- MODULE MCSensorManagerRegistry ----------------------
(***************************************************************************)
(* The registry for TLC: two packages, one virtual device next to the      *)
(* default one, and room for three managers.                               *)
(***************************************************************************)
EXTENDS SensorManagerRegistry

CONSTANTS pA, pB

MCPackages == {pA, pB}
MCVirtualDevices == {1}

PackageSymmetry == Permutations(MCPackages)

=============================================================================
