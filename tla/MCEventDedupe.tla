---------------------------- MODULE MCEventDedupe -----------------------------
\* Instances of EventDedupe for TLC: three reports, all inside one window of
\* one another; the worst is neither the first nor the last, and reaches
\* another instance than the other two.
EXTENDS EventDedupe, TLC

CONSTANTS r1, r2, r3, i1, i2

MCTimestamp == [r \in Reports |-> CASE r = r1 -> 1 [] r = r2 -> 2 [] r = r3 -> 3]
MCScore == [r \in Reports |-> CASE r = r1 -> 2 [] r = r2 -> 3 [] r = r3 -> 1]
MCAt == [r \in Reports |-> IF r \in {r1, r3} THEN i1 ELSE i2]
=============================================================================
