-------------------------- MODULE MCSensorManager --------------------------
(***************************************************************************)
(* SensorManager for TLC: two application threads, two sensor handles, and *)
(* a service whose incarnations differ in the dynamic sensors they serve.  *)
(***************************************************************************)
EXTENDS SensorManager

CONSTANTS t1, t2, h1, h2, n1, n2

MCThreads == {t1, t2}
MCHandles == {h1, h2}
MCNames == {n1, n2}

\* Every incarnation serves the same built-in sensor.  The first has a
\* dynamic sensor, the second has none, the later ones have it under
\* another name.
MCStaticSensors == [g \in Gens |-> (h1 :> n1)]
MCDynamicSensors ==
    [g \in Gens |-> CASE g = 1 -> (h2 :> n1)
                      [] g = 2 -> EmptyList
                      [] OTHER -> (h2 :> n2)]

\* The smaller instance for the liveness run.
MCOneHandle == {h1}
MCNoDynamicSensors == [g \in Gens |-> EmptyList]

ThreadSymmetry == Permutations(MCThreads)

=============================================================================
