---------------------------- MODULE MCHistoryMove -----------------------------
\* Instances of HistoryMove for TLC.
EXTENDS HistoryMove, TLC

CONSTANTS w1, w2, s1, s2, s3, s4

Anything == {{"database"}, {"files"}, {"database", "files"}}
OnlyDatabase == {{"database"}}
OnlyFiles == {{"files"}}

\* Two captures at one moment and two at a later one; and all at once.
Pairs == [s \in Shots |-> IF s \in {s1, s2} THEN 1 ELSE 2]
Mode(l, c, f) == [late |-> l, connect |-> c, faults |-> f]
\* Nothing but errors and restarts; a request's late insert; stores connected
\* later and failures that are only logged.
AllModes == {Mode(Late, FALSE, FALSE), Mode({}, TRUE, TRUE)}
PlainMode == {Mode({}, FALSE, FALSE)}
AtOnce == [s \in Shots |-> 1]
=============================================================================
