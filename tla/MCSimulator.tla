----------------------------- MODULE MCSimulator -----------------------------
(* Instances of Simulator for TLC: two units, two incidents, short scenarios.  *)
EXTENDS Simulator, TLC

At(t, k, x) == [time |-> t, kind |-> k, of |-> x]

CONSTANTS u1, u2, i1, i2

\* What can happen to a unit that may be at work by then: it breaks down or becomes
\* unavailable and is repaired or available again, at once or a while later.
Disturbances ==
  {<<At(t[1], k, u1), At(t[2], l, u1)>> :
     t \in {<<2, 2>>, <<2, 3>>}, k \in {"breakdown", "unavailable"},
     l \in {"repair", "available"}}

\* The incidents of a scenario: together, or one while the other is being worked on.
Spawns == {<<At(1, "spawn", i1), At(t, "spawn", i2)>> : t \in {1, 2}}

Exercises == {s \o d : s \in Spawns, d \in Disturbances}

Crews     == {<<>>, <<u1>>, <<u2>>, <<u1, u2>>}

Deadlines == [i \in Incidents |-> IF i = i1 THEN 1 ELSE 2]
Needs     == [i \in Incidents |-> IF i = i1 THEN 2 ELSE 1]
=============================================================================
