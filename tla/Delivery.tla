------------------------------ MODULE Delivery ------------------------------
(***************************************************************************)
(* What the ingestion boundary promises of a signal, whatever the queue,   *)
(* the workers and the stores do to keep it: at-least-once delivery        *)
(* (docs/ARCHITECTURE.md, section "At-Least-Once Delivery"; the docstring  *)
(* of recover_processing_queue).                                           *)
(*                                                                         *)
(* A signal that has been accepted stays pending until it is settled, and  *)
(* it is settled only after it has been processed: stored in MongoDB and   *)
(* counted against its component.  Processing it again is allowed.         *)
(***************************************************************************)
CONSTANTS Signals

VARIABLES
    accepted,    \* signals the boundary took responsibility for
    processed,   \* signals stored and counted at least once
    settled      \* signals the boundary has forgotten again

dvars == <<accepted, processed, settled>>

Init ==
    /\ accepted = {}
    /\ processed = {}
    /\ settled = {}

Accept(s) ==
    /\ s \notin accepted
    /\ accepted' = accepted \cup {s}
    /\ UNCHANGED <<processed, settled>>

\* Only what was accepted is ever processed.
Process(s) ==
    /\ s \in accepted
    /\ processed' = processed \cup {s}
    /\ UNCHANGED <<accepted, settled>>

\* A batch is settled in one step.
Settle(batch) ==
    /\ batch \subseteq (accepted \cap processed)
    /\ settled' = settled \cup batch
    /\ UNCHANGED <<accepted, processed>>

Next ==
    \/ \E s \in Signals : Accept(s) \/ Process(s)
    \/ \E batch \in SUBSET Signals : Settle(batch)

Spec == Init /\ [][Next]_dvars
=============================================================================
