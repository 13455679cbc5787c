--------------------------- MODULE IncidentLedger ---------------------------
(***************************************************************************)
(* What resolve_work_item promises of the incidents of one component,      *)
(* whatever workers race, retry or fail to keep it ("Distributed           *)
(* Debouncing", docs/ARCHITECTURE.md:19; uq_active_work_item_component of  *)
(* models/db_models.py): an incident is opened by a burst of at least      *)
(* Threshold different signals, and only while none is active; from then   *)
(* on it counts one signal at a time and becomes more severe but never     *)
(* less; once closed it is never active again.                             *)
(*                                                                         *)
(* A closed incident may still be counted up: increment_signal_count goes  *)
(* by id, whatever the status.                                             *)
(***************************************************************************)
EXTENDS Integers, Sequences

CONSTANTS
    Threshold,   \* signals that open an incident
    MaxBurst     \* most signals that can

VARIABLE incidents   \* in order of opening

Severities == 0..3

Init == incidents = <<>>

Open(burst, severity) ==
    /\ \A i \in DOMAIN incidents : ~incidents[i].active
    /\ incidents' = Append(incidents, [active |-> TRUE,
                                       count |-> burst,
                                       severity |-> severity])

CountOne(i, severity) ==
    /\ severity <= incidents[i].severity
    /\ incidents' = [incidents EXCEPT ![i] = [active |-> @.active,
                                              count |-> @.count + 1,
                                              severity |-> severity]]

Close(i) ==
    /\ incidents[i].active
    /\ incidents' = [incidents EXCEPT ![i].active = FALSE]

Next ==
    \/ \E burst \in Threshold..MaxBurst, severity \in Severities : Open(burst, severity)
    \/ \E i \in DOMAIN incidents :
         Close(i) \/ \E severity \in Severities : CountOne(i, severity)

Spec == Init /\ [][Next]_incidents
=============================================================================
