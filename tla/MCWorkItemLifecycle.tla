------------------------ MODULE MCWorkItemLifecycle ------------------------
(* Instances of WorkItemLifecycle for TLC.                                 *)
EXTENDS WorkItemLifecycle

\* One incident that does not end after it starts, and two that do.
IncidentMinutes == {0, 5, 7}

\* Requests 1 to 4: a whole life and any fourth request, or two RCAs of
\* different length in the course of one.
Workload ==
    {<<Transition("INVESTIGATING"), Transition("RESOLVED"), Transition("CLOSED"), o>> :
        o \in Ops}
    \cup
    {<<Transition("INVESTIGATING"), Transition("RESOLVED"), Rca(5), Rca(7)>>}
=============================================================================
