----------------------------- MODULE MCEventSpool -----------------------------
\* Instances of EventSpool for TLC.  One event a batch keeps the state space
\* small; MCTwoEvents gives the first batch two, so that a write can stop
\* between them.
EXTENDS EventSpool, TLC

CONSTANTS b1, b2, b3, e1, e2, e3, e4

MCOneEvent == [b \in Batches |-> CASE b = b1 -> {e1} [] b = b2 -> {e2} [] b = b3 -> {e3}]
MCTwoEvents == [b \in Batches |-> MCOneEvent[b] \cup IF b = b1 THEN {e4} ELSE {}]
=============================================================================
