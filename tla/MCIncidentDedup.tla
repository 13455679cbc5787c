-------------------------- MODULE MCIncidentDedup --------------------------
(* Instances of IncidentDedup for TLC: two signals open an incident.       *)
EXTENDS IncidentDedup, TLC

CONSTANTS s1, s2, s3

\* The last signal is the most severe one.
MixedRanks == [s \in Signals |-> IF s = s3 THEN 0 ELSE 2]

\* All signals are of the same severity.
SameRanks == [s \in Signals |-> 2]

\* With MixedRanks the first two signals are interchangeable, and the tasks are.
EarlySymmetry == Permutations({s1, s2}) \cup Permutations(Tasks)

SignalAndTaskSymmetry == Permutations(Signals) \cup Permutations(Tasks)
=============================================================================
