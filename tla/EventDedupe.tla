----------------------------- MODULE EventDedupe ------------------------------
(***************************************************************************)
(* Folding repeated reports of one action into one activity row:           *)
(* dataplane.RecordDeduped with lockKey, lastSeen and RepeatCount          *)
(* (record.go), and the keepWorstDLP merge (event_dedupe.go).              *)
(*                                                                         *)
(* One device, event type, action and dedupe key: every report modelled    *)
(* here could fold into every other.  A report's row has the report's      *)
(* name.  Reports are less than a day apart and fewer than the lookup's    *)
(* limit of 20, so neither cuts the candidates.                            *)
(***************************************************************************)
EXTENDS Integers, FiniteSets

CONSTANTS
    Reports,        \* the calls of RecordDeduped
    Timestamp,      \* ev.Timestamp of each
    Score,          \* ev.RiskScore of each
    Window,         \* window
    Instances,      \* admin-api processes
    At,             \* the instance each report reaches
    NoReport,       \* nobody, no row
    Mishaps         \* what may go wrong: "lock", "store"

ASSUME ReportAssumption == /\ Timestamp \in [Reports -> Nat]
                           /\ Score \in [Reports -> Nat]
                           /\ At \in [Reports -> Instances]
                           /\ NoReport \notin Reports
ASSUME WindowAssumption == Window \in Nat \ {0}
ASSUME MishapAssumption == Mishaps \subseteq {"lock", "store"}

VARIABLES
    rows,               \* the rows FindEvents can see
    count, last, score, \* repeat_count, last seen, risk_score of each row
    held,               \* reports in the spool
    mutex,              \* localLocks: who holds the stripe on each instance
    rlock,              \* the Redis lock
    pc,
    kept, copy,         \* the row to fold into, and what was read of it
    stands,             \* the accepted reports each row stands for
    mishaps             \* what has gone wrong so far

rowVars == <<rows, count, last, score>>
vars == <<rowVars, held, mutex, rlock, pc, kept, copy, stands, mishaps>>

Copies == [count : Nat, last : Nat, score : Nat]
NoCopy == [count |-> 0, last |-> 0, score |-> 0]

TypeOK ==
    /\ rows \subseteq Reports /\ held \subseteq Reports
    /\ count \in [Reports -> Nat] /\ last \in [Reports -> Nat] /\ score \in [Reports -> Nat]
    /\ mutex \in [Instances -> Reports \cup {NoReport}]
    /\ rlock \in Reports \cup {NoReport}
    /\ pc \in [Reports -> {"new", "setnx", "find", "fold", "insert", "unlock", "refusing",
                           "done", "refused"}]
    /\ kept \in [Reports -> Reports \cup {NoReport}]
    /\ copy \in [Reports -> Copies]
    /\ stands \in [Reports -> SUBSET Reports]
    /\ mishaps \subseteq Mishaps

Init ==
    /\ rows = {} /\ held = {}
    /\ count = [r \in Reports |-> 1]
    /\ last = Timestamp
    /\ score = Score
    /\ mutex = [i \in Instances |-> NoReport] /\ rlock = NoReport
    /\ pc = [r \in Reports |-> "new"]
    /\ kept = [r \in Reports |-> NoReport] /\ copy = [r \in Reports |-> NoCopy]
    /\ stands = [r \in Reports |-> {}] /\ mishaps = {}

\* Something goes wrong: with Redis (an error, the wait running out, the lock
\* expiring), or with a call to the organization's database.
Fault(f) == f \in Mishaps /\ mishaps' = mishaps \cup {f}

(***************************************************************************)
(* lockKey                                                                 *)
(***************************************************************************)

\* resolve failed on the company's database: held, without any lookup.
Unresolved(r) ==
    /\ Fault("store") /\ pc[r] = "new"
    /\ held' = held \cup {r}
    /\ stands' = [stands EXCEPT ![r] = {r}]
    /\ pc' = [pc EXCEPT ![r] = "done"]
    /\ UNCHANGED <<rowVars, mutex, rlock, kept, copy>>

\* resolve failed otherwise, or the spool did: the caller gets the error.
UnresolvedError(r) ==
    /\ Fault("store") /\ pc[r] = "new"
    /\ pc' = [pc EXCEPT ![r] = "refused"]
    /\ UNCHANGED <<rowVars, held, mutex, rlock, kept, copy, stands>>

LockLocal(r) ==
    /\ pc[r] = "new" /\ mutex[At[r]] = NoReport
    /\ mutex' = [mutex EXCEPT ![At[r]] = r]
    /\ pc' = [pc EXCEPT ![r] = "setnx"]
    /\ UNCHANGED <<rowVars, held, rlock, kept, copy, stands, mishaps>>

\* Mutant: SET in place of SETNX.
SetAnyway(r) ==
    /\ pc[r] = "setnx"
    /\ rlock' = r
    /\ pc' = [pc EXCEPT ![r] = "find"]
    /\ UNCHANGED <<rowVars, held, mutex, kept, copy, stands, mishaps>>

SetNX(r) ==
    /\ pc[r] = "setnx" /\ rlock = NoReport
    /\ rlock' = r
    /\ pc' = [pc EXCEPT ![r] = "find"]
    /\ UNCHANGED <<rowVars, held, mutex, kept, copy, stands, mishaps>>

\* Redis answers with an error, or three seconds pass: on without the lock.
Unlocked(r) ==
    /\ Fault("lock") /\ pc[r] = "setnx"
    /\ pc' = [pc EXCEPT ![r] = "find"]
    /\ UNCHANGED <<rowVars, held, mutex, rlock, kept, copy, stands>>

\* Ten seconds pass: the lock is gone though its holder is still at work.
LockTTL ==
    /\ Fault("lock") /\ rlock # NoReport
    /\ rlock' = NoReport
    /\ UNCHANGED <<rowVars, held, mutex, pc, kept, copy, stands>>

\* Mutant: a path out of lockKey that forgets the local mutex.
UnlockRedisOnly(r) ==
    /\ pc[r] \in {"unlock", "refusing"}
    /\ rlock' = IF rlock = r THEN NoReport ELSE rlock
    /\ pc' = [pc EXCEPT ![r] = IF pc[r] = "unlock" THEN "done" ELSE "refused"]
    /\ UNCHANGED <<rowVars, held, mutex, kept, copy, stands, mishaps>>

\* The deferred unlock: the Redis lock only if it is still ours.
Unlock(r) ==
    /\ pc[r] \in {"unlock", "refusing"}
    /\ rlock' = IF rlock = r THEN NoReport ELSE rlock
    /\ mutex' = [mutex EXCEPT ![At[r]] = NoReport]
    /\ pc' = [pc EXCEPT ![r] = IF pc[r] = "unlock" THEN "done" ELSE "refused"]
    /\ UNCHANGED <<rowVars, held, kept, copy, stands, mishaps>>

(***************************************************************************)
(* The lookup, the fold and the insert                                     *)
(***************************************************************************)
InWindow(r, k) == last[k] > Timestamp[r] - Window

\* Newest candidate first; the first one last seen inside the window.
Find(r) ==
    /\ pc[r] = "find"
    /\ LET near == {k \in rows : InWindow(r, k)} IN
          IF near = {}
          THEN /\ pc' = [pc EXCEPT ![r] = "insert"]
               /\ UNCHANGED <<kept, copy>>
          ELSE \E k \in near :
               /\ \A j \in near : Timestamp[j] <= Timestamp[k]
               /\ kept' = [kept EXCEPT ![r] = k]
               /\ copy' = [copy EXCEPT ![r] = [count |-> count[k], last |-> last[k], score |-> score[k]]]
               /\ pc' = [pc EXCEPT ![r] = "fold"]
    /\ UNCHANGED <<rowVars, held, mutex, rlock, stands, mishaps>>

FindFail(r) ==
    /\ Fault("store") /\ pc[r] = "find"
    /\ pc' = [pc EXCEPT ![r] = "insert"]
    /\ UNCHANGED <<rowVars, held, mutex, rlock, kept, copy, stands>>

\* Mutants: the score of the latest report; the window's start as last seen.
WriteLatest(r) ==
    /\ count' = [count EXCEPT ![kept[r]] = copy[r].count + 1]
    /\ last' = [last EXCEPT ![kept[r]] = Timestamp[r]]
    /\ score' = [score EXCEPT ![kept[r]] = Score[r]]

WriteSince(r) ==
    /\ count' = [count EXCEPT ![kept[r]] = copy[r].count + 1]
    /\ last' = [last EXCEPT ![kept[r]] = Timestamp[r] - Window]
    /\ score' = score

\* The row as UpdateEvent writes it: what was read, with this report folded in.
WriteFold(r) ==
    /\ count' = [count EXCEPT ![kept[r]] = copy[r].count + 1]
    /\ last' = [last EXCEPT ![kept[r]] = Timestamp[r]]
    /\ score' = [score EXCEPT ![kept[r]] =
                    IF Score[r] > copy[r].score THEN Score[r] ELSE copy[r].score]

Fold(r) ==
    /\ pc[r] = "fold"
    /\ WriteFold(r)
    /\ stands' = [stands EXCEPT ![kept[r]] = @ \cup {r}]
    /\ pc' = [pc EXCEPT ![r] = "unlock"]
    /\ UNCHANGED <<rows, held, mutex, rlock, kept, copy, mishaps>>

\* Mutant: a failed update is logged and the report forgotten.
FoldFailForgotten(r) ==
    /\ Fault("store") /\ pc[r] = "fold"
    /\ pc' = [pc EXCEPT ![r] = "unlock"]
    /\ UNCHANGED <<rowVars, held, mutex, rlock, kept, copy, stands>>

\* The update reports an error, which after a timeout may not mean it was
\* not applied: the report becomes a row of its own.
FoldFail(r) ==
    /\ Fault("store") /\ pc[r] = "fold"
    /\ WriteFold(r) \/ UNCHANGED <<count, last, score>>
    /\ pc' = [pc EXCEPT ![r] = "insert"]
    /\ UNCHANGED <<rows, held, mutex, rlock, kept, copy, stands>>

\* RecordEvents: a row, or held in the spool, or refused (see EventSpool).
Insert(r) ==
    /\ pc[r] = "insert"
    /\ rows' = rows \cup {r}
    /\ stands' = [stands EXCEPT ![r] = {r}]
    /\ pc' = [pc EXCEPT ![r] = "unlock"]
    /\ UNCHANGED <<count, last, score, held, mutex, rlock, kept, copy, mishaps>>

InsertHeld(r) ==
    /\ Fault("store") /\ pc[r] = "insert"
    /\ held' = held \cup {r}
    /\ stands' = [stands EXCEPT ![r] = {r}]
    /\ pc' = [pc EXCEPT ![r] = "unlock"]
    /\ UNCHANGED <<rowVars, mutex, rlock, kept, copy>>

InsertRefused(r) ==
    /\ Fault("store") /\ pc[r] = "insert"
    /\ pc' = [pc EXCEPT ![r] = "refusing"]
    /\ UNCHANGED <<rowVars, held, mutex, rlock, kept, copy, stands>>

\* The flusher delivers a held report.
Deliver(r) ==
    /\ r \in held
    /\ held' = held \ {r} /\ rows' = rows \cup {r}
    /\ UNCHANGED <<count, last, score, mutex, rlock, pc, kept, copy, stands, mishaps>>

\* What a request does next of its own accord; a failure to resolve may
\* strike it instead, but nothing makes it.
Progress(r) ==
    \/ LockLocal(r) \/ SetNX(r) \/ Unlocked(r) \/ Unlock(r)
    \/ Find(r) \/ FindFail(r) \/ Fold(r) \/ FoldFail(r)
    \/ Insert(r) \/ InsertHeld(r) \/ InsertRefused(r)

Next ==
    \/ LockTTL
    \/ \E r \in Reports : Progress(r) \/ Unresolved(r) \/ UnresolvedError(r) \/ Deliver(r)

Spec == Init /\ [][Next]_vars

\* Every call a request makes has a deadline, so the request goes on; a Go
\* mutex does not starve a waiter.
FairSpec == Spec /\ \A r \in Reports : WF_vars(Progress(r)) /\ SF_vars(LockLocal(r))

(***************************************************************************)
(* Properties                                                              *)
(***************************************************************************)

\* Nothing is lost to the folding: every accepted report is stood for by a
\* row or is held, whatever goes wrong; and while the lock works, a row's
\* repeat count is never below the number of reports it stands for, even when
\* updates of it fail or only seem to.
NothingLost ==
    /\ \A r \in Reports : pc[r] \in {"unlock", "done"} =>
          \E k \in rows \cup held : r \in stands[k]
    /\ "lock" \notin mishaps => \A k \in rows : count[k] >= Cardinality(stands[k])

\* While the lock works, the kept row carries the highest score of the reports
\* it stands for, in whatever order they arrive.
WorstKept ==
    "lock" \notin mishaps => \A k \in rows : \A r \in stands[k] : Score[r] <= score[k]

\* Two copies never both see "nothing yet": while lock and database work,
\* reports that all fall inside one window of one another are one row, in
\* whatever order and at whichever instances they arrive.
OneIncident ==
    mishaps = {} /\ (\A j, k \in Reports : Timestamp[j] - Timestamp[k] < Window)
        => Cardinality(rows) <= 1

\* lockKey never blocks for good: every report is answered, however its calls
\* to Redis and to the database turn out.
EveryReportAnswered == \A r \in Reports : <>(pc[r] \in {"done", "refused"})
=============================================================================
