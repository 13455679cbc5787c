-------------------------- MODULE MCSignalPipeline --------------------------
(* Instances of SignalPipeline for TLC.                                    *)
EXTENDS SignalPipeline, TLC

CONSTANTS p1, p2, t1, t2

OneProcess == (t1 :> p1) @@ (t2 :> p1)
TwoProcesses == (t1 :> p1) @@ (t2 :> p2)
OneTask == t1 :> p1

\* Envelopes are interchangeable.
SignalSymmetry == Permutations(Signals)

\* So are the tasks of one process,
SignalAndTaskSymmetry == Permutations(Signals) \cup Permutations(Tasks)

\* and two processes, each with its task.
SwapProcesses ==
    (p1 :> p2) @@ (p2 :> p1) @@ (t1 :> t2) @@ (t2 :> t1)

SignalAndProcessSymmetry ==
    Permutations(Signals) \cup {f @@ SwapProcesses : f \in Permutations(Signals)}
=============================================================================
