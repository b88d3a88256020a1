--------------------------- MODULE EventDedupeProofs ---------------------------
(***************************************************************************)
(* Proofs about EventDedupe, for any number of reports and instances and   *)
(* whatever goes wrong.                                                    *)
(***************************************************************************)
EXTENDS EventDedupe, FiniteSetTheorems, TLAPS

\* Only accepted reports have a row or are held; a request that will fold has
\* found a row to fold into, and nothing but a fold changes a row.
Kept ==
    /\ \A k \in rows \cup held : pc[k] \in {"unlock", "done"}
    /\ \A r \in Reports : pc[r] = "fold" => kept[r] \in rows
    /\ \A k \in Reports : count[k] >= 1 /\ IsFiniteSet(stands[k])
    /\ \A k \in Reports : \E r \in Reports : last[k] = Timestamp[r]
    /\ \A k \in Reports \ rows : score[k] = Score[k]

\* Every accepted report is stood for.
StoodFor ==
    \A r \in Reports : pc[r] \in {"unlock", "done"} => \E k \in rows \cup held : r \in stands[k]

InLock == {"find", "fold", "insert", "unlock", "refusing"}

\* While the lock works, one report at a time is past lockKey, what it read of
\* the row is still so when it writes, and each row accounts for the reports
\* it stands for.
Locked ==
    "lock" \notin mishaps =>
        /\ \A r \in Reports : pc[r] \in InLock => rlock = r
        /\ \A r \in Reports : pc[r] = "fold" =>
              copy[r] = [count |-> count[kept[r]], last |-> last[kept[r]], score |-> score[kept[r]]]
        /\ \A k \in rows \cup held :
              /\ count[k] >= Cardinality(stands[k])
              /\ \A r \in stands[k] : Score[r] <= score[k]

\* All reports are inside one window of one another.
Tight == \A j, k \in Reports : Timestamp[j] - Timestamp[k] < Window

\* Then, while nothing goes wrong, there is one row at most, and a request
\* that found none is still right when it inserts its own.
OneRow ==
    mishaps = {} /\ Tight =>
        /\ held = {}
        /\ \A j, k \in rows : j = k
        /\ \A r \in Reports : pc[r] = "insert" => rows = {}

\* What the update of a row writes, and that it leaves the other rows alone.
LEMMA WriteEffect ==
    ASSUME TypeOK, Kept, NEW r \in Reports, pc[r] = "fold", WriteFold(r)
    PROVE  /\ kept[r] \in rows /\ kept[r] \in Reports
           /\ count' \in [Reports -> Nat] /\ last' \in [Reports -> Nat] /\ score' \in [Reports -> Nat]
           /\ count'[kept[r]] = copy[r].count + 1 /\ count'[kept[r]] >= 1
           /\ last'[kept[r]] = Timestamp[r]
           /\ score'[kept[r]] >= Score[r] /\ score'[kept[r]] >= copy[r].score
           /\ \A k \in Reports \ {kept[r]} :
                 count'[k] = count[k] /\ last'[k] = last[k] /\ score'[k] = score[k]
<1>1. kept[r] \in rows /\ kept[r] \in Reports
  BY DEF Kept, TypeOK
<1>2. copy[r].count \in Nat /\ copy[r].score \in Nat /\ Score[r] \in Nat /\ Timestamp[r] \in Nat
  BY ReportAssumption DEF TypeOK, Copies
<1>3. /\ count' = [count EXCEPT ![kept[r]] = copy[r].count + 1]
      /\ last' = [last EXCEPT ![kept[r]] = Timestamp[r]]
      /\ score' = [score EXCEPT ![kept[r]] =
                    IF Score[r] > copy[r].score THEN Score[r] ELSE copy[r].score]
  BY DEF WriteFold
<1>4. count \in [Reports -> Nat] /\ last \in [Reports -> Nat] /\ score \in [Reports -> Nat]
  BY DEF TypeOK
<1> QED BY <1>1, <1>2, <1>3, <1>4

\* What Find reads.
LEMMA FindEffect ==
    ASSUME TypeOK, NEW r \in Reports, Find(r)
    PROVE  \/ /\ {k \in rows : InWindow(r, k)} = {}
              /\ pc' = [pc EXCEPT ![r] = "insert"] /\ UNCHANGED <<kept, copy>>
           \/ \E k \in rows :
              /\ kept' = [kept EXCEPT ![r] = k]
              /\ copy' = [copy EXCEPT ![r] = [count |-> count[k], last |-> last[k], score |-> score[k]]]
              /\ [count |-> count[k], last |-> last[k], score |-> score[k]] \in Copies
              /\ pc' = [pc EXCEPT ![r] = "fold"]
<1>1. \A k \in rows : [count |-> count[k], last |-> last[k], score |-> score[k]] \in Copies
  BY DEF TypeOK, Copies
<1> QED BY <1>1 DEF Find

\* Every step keeps the state well formed.
LEMMA TypeStep ==
    ASSUME TypeOK, Kept, [Next]_vars
    PROVE  TypeOK'
<1>0. TypeOK /\ Kept
  OBVIOUS
<1> USE DEF rowVars
<1>1. CASE LockTTL
  BY <1>0, <1>1 DEF LockTTL, Fault, TypeOK
<1>2. ASSUME NEW r \in Reports, Progress(r) PROVE TypeOK'
  <2>1. CASE LockLocal(r)
    BY <1>0, <2>1, ReportAssumption DEF LockLocal, TypeOK
  <2>2. CASE SetNX(r) \/ Unlocked(r)
    BY <1>0, <2>2 DEF SetNX, Unlocked, Fault, TypeOK
  <2>3. CASE Unlock(r)
    BY <1>0, <2>3 DEF Unlock, TypeOK
  <2>4. CASE Find(r)
    <3>1. UNCHANGED <<rowVars, held, mutex, rlock, stands, mishaps>>
      BY <2>4 DEF Find
    <3>2. /\ pc' \in [Reports -> {"new", "setnx", "find", "fold", "insert", "unlock", "refusing",
                           "done", "refused"}]
          /\ kept' \in [Reports -> Reports \cup {NoReport}] /\ copy' \in [Reports -> Copies]
      <4>1. CASE pc' = [pc EXCEPT ![r] = "insert"] /\ UNCHANGED <<kept, copy>>
        BY <1>0, <4>1 DEF TypeOK
      <4>2. ASSUME NEW k \in rows, NEW c \in Copies, kept' = [kept EXCEPT ![r] = k],
                   copy' = [copy EXCEPT ![r] = c], pc' = [pc EXCEPT ![r] = "fold"]
            PROVE  /\ pc' \in [Reports -> {"new", "setnx", "find", "fold", "insert", "unlock",
                                            "refusing", "done", "refused"}]
                   /\ kept' \in [Reports -> Reports \cup {NoReport}]
                   /\ copy' \in [Reports -> Copies]
        BY <1>0, <4>2 DEF TypeOK
      <4> QED BY <1>0, <2>4, <4>1, <4>2, FindEffect, Zenon
    <3> QED BY <1>0, <3>1, <3>2 DEF TypeOK
  <2>5. CASE FindFail(r) \/ InsertRefused(r)
    BY <1>0, <2>5 DEF FindFail, InsertRefused, Fault, TypeOK
  <2>6. CASE Fold(r)
    BY <1>0, <2>6, WriteEffect DEF Fold, TypeOK
  <2>7. CASE FoldFail(r)
    <3>1. count' \in [Reports -> Nat] /\ last' \in [Reports -> Nat] /\ score' \in [Reports -> Nat]
      <4>1. CASE WriteFold(r)
        BY <1>0, <2>7, <4>1, WriteEffect DEF FoldFail
      <4>2. CASE UNCHANGED <<count, last, score>>
        BY <1>0, <4>2 DEF TypeOK
      <4> QED BY <2>7, <4>1, <4>2 DEF FoldFail
    <3> QED BY <1>0, <2>7, <3>1 DEF FoldFail, Fault, TypeOK
  <2>8. CASE Insert(r) \/ InsertHeld(r)
    BY <1>0, <2>8 DEF Insert, InsertHeld, Fault, TypeOK
  <2> QED BY <1>2, <2>1, <2>2, <2>3, <2>4, <2>5, <2>6, <2>7, <2>8 DEF Progress
<1>3. ASSUME NEW r \in Reports, Unresolved(r) \/ UnresolvedError(r) \/ Deliver(r) PROVE TypeOK'
  BY <1>0, <1>3 DEF Unresolved, UnresolvedError, Deliver, Fault, TypeOK
<1>4. CASE UNCHANGED vars
  BY <1>0, <1>4 DEF vars, TypeOK
<1> QED BY <1>1, <1>2, <1>3, <1>4 DEF Next

\* What a report stands for stays a finite set.
LEMMA StandsFinite ==
    ASSUME NEW S, NEW r
    PROVE  /\ IsFiniteSet({r}) /\ Cardinality({r}) = 1
           /\ IsFiniteSet(S) => /\ IsFiniteSet(S \cup {r}) /\ Cardinality(S) \in Nat
                                /\ Cardinality(S \cup {r}) <= Cardinality(S) + 1
<1>1. IsFiniteSet({r}) /\ Cardinality({r}) = 1
  BY FS_Singleton
<1>2. ASSUME IsFiniteSet(S)
      PROVE  /\ IsFiniteSet(S \cup {r}) /\ Cardinality(S) \in Nat
             /\ Cardinality(S \cup {r}) <= Cardinality(S) + 1
  <2>1. IsFiniteSet(S \cup {r}) /\ (r \in S \/ Cardinality(S \cup {r}) = Cardinality(S) + 1)
    BY <1>2, FS_AddElement
  <2>2. Cardinality(S) \in Nat
    BY <1>2, FS_CardinalityType
  <2>3. r \in S => S \cup {r} = S
    OBVIOUS
  <2>4. CASE r \in S
    BY <2>2, <2>3, <2>4, <1>2
  <2>5. CASE r \notin S
    BY <2>1, <2>2, <2>5
  <2> QED BY <2>4, <2>5
<1> QED BY <1>1, <1>2

\* Kept is kept by every step.
LEMMA KeptStep ==
    ASSUME TypeOK, Kept, [Next]_vars
    PROVE  Kept'
<1>0. TypeOK /\ Kept
  OBVIOUS
<1> USE DEF rowVars
<1>1. CASE LockTTL \/ UNCHANGED vars
  <2>1. UNCHANGED <<rowVars, held, pc, kept, stands>>
    BY <1>1 DEF LockTTL, vars
  <2> QED BY <1>0, <2>1 DEF Kept
<1>2. ASSUME NEW r \in Reports,
             LockLocal(r) \/ SetNX(r) \/ Unlocked(r) \/ Unlock(r) \/ FindFail(r) \/ InsertRefused(r)
             \/ UnresolvedError(r)
      PROVE  Kept'
  <2>1. /\ UNCHANGED <<rowVars, held, kept, stands>>
        /\ \A k \in Reports : pc'[k] = "fold" => pc[k] = "fold"
        /\ \A k \in Reports : pc[k] \in {"unlock", "done"} => pc'[k] \in {"unlock", "done"}
    BY <1>0, <1>2 DEF LockLocal, SetNX, Unlocked, Unlock, FindFail, InsertRefused, UnresolvedError, TypeOK
  <2> QED BY <1>0, <2>1 DEF Kept, TypeOK
<1>3. ASSUME NEW r \in Reports, Find(r) PROVE Kept'
  <2>1. /\ UNCHANGED <<rowVars, held, stands>>
        /\ \A k \in Reports : pc'[k] = "fold" => (pc[k] = "fold" /\ kept'[k] = kept[k]) \/ kept'[k] \in rows
        /\ \A k \in Reports : pc[k] \in {"unlock", "done"} => pc'[k] \in {"unlock", "done"}
    BY <1>0, <1>3, FindEffect DEF Find, TypeOK
  <2> QED BY <1>0, <2>1 DEF Kept, TypeOK
<1>4. ASSUME NEW r \in Reports, Fold(r) \/ FoldFail(r) PROVE Kept'
  <2>1. /\ UNCHANGED <<rows, held, kept>> /\ pc[r] = "fold" /\ kept[r] \in Reports /\ kept[r] \in rows
        /\ \A k \in Reports : pc'[k] = "fold" => pc[k] = "fold"
        /\ \A k \in Reports : pc[k] \in {"unlock", "done"} => pc'[k] \in {"unlock", "done"}
    BY <1>0, <1>4 DEF Fold, FoldFail, Kept, TypeOK
  <2>2. WriteFold(r) \/ UNCHANGED <<count, last, score>>
    BY <1>4 DEF Fold, FoldFail
  <2>3. \A k \in Reports : stands'[k] = stands[k] \/ stands'[k] = stands[k] \cup {r}
    BY <1>0, <1>4, <2>1 DEF Fold, FoldFail, TypeOK
  <2>4. \A k \in Reports : IsFiniteSet(stands'[k])
    <3> TAKE k \in Reports
    <3>1. IsFiniteSet(stands[k])
      BY <1>0 DEF Kept
    <3>2. IsFiniteSet(stands[k] \cup {r})
      BY <3>1, StandsFinite
    <3> QED BY <2>3, <3>1, <3>2
  <2>5. /\ \A k \in Reports : count'[k] >= 1
        /\ \A k \in Reports : \E j \in Reports : last'[k] = Timestamp[j]
        /\ \A k \in Reports \ rows : score'[k] = Score[k]
    <3>1. CASE WriteFold(r)
      <4>1. /\ \A k \in Reports \ {kept[r]} :
                  count'[k] = count[k] /\ last'[k] = last[k] /\ score'[k] = score[k]
            /\ count'[kept[r]] >= 1 /\ last'[kept[r]] = Timestamp[r]
        BY <1>0, <2>1, <3>1, WriteEffect
      <4>2. \A k \in Reports : \E j \in Reports : last'[k] = Timestamp[j]
        BY <1>0, <4>1 DEF Kept
      <4> QED BY <1>0, <2>1, <4>1, <4>2 DEF Kept
    <3>2. CASE UNCHANGED <<count, last, score>>
      BY <1>0, <3>2 DEF Kept
    <3> QED BY <2>2, <3>1, <3>2
  <2> QED BY <1>0, <2>1, <2>4, <2>5 DEF Kept, TypeOK
<1>5. ASSUME NEW r \in Reports, Insert(r) \/ InsertHeld(r) \/ Unresolved(r) PROVE Kept'
  <2>1. /\ UNCHANGED <<count, last, score, kept>> /\ rows \subseteq rows' /\ rows' \subseteq Reports
        /\ rows' \cup held' = rows \cup held \cup {r}
        /\ pc'[r] \in {"unlock", "done"} /\ \A k \in Reports \ {r} : pc'[k] = pc[k]
        /\ stands'[r] = {r} /\ \A k \in Reports \ {r} : stands'[k] = stands[k]
    BY <1>0, <1>5 DEF Insert, InsertHeld, Unresolved, TypeOK
  <2>2. IsFiniteSet({r})
    BY StandsFinite
  <2>3. \A k \in Reports : count[k] >= 1 /\ IsFiniteSet(stands'[k])
    BY <1>0, <2>1, <2>2 DEF Kept
  <2> QED BY <1>0, <2>1, <2>3 DEF Kept, TypeOK
<1>6. ASSUME NEW r \in Reports, Deliver(r) PROVE Kept'
  BY <1>0, <1>6 DEF Deliver, Kept, TypeOK
<1> QED BY <1>1, <1>2, <1>3, <1>4, <1>5, <1>6 DEF Next, Progress

\* No step leaves an accepted report without a row or a place in the spool.
LEMMA StoodForStep ==
    ASSUME TypeOK, Kept, StoodFor, [Next]_vars
    PROVE  StoodFor'
<1>0. TypeOK /\ Kept /\ StoodFor
  OBVIOUS
<1> USE DEF rowVars
<1>1. CASE LockTTL \/ UNCHANGED vars
  <2>1. UNCHANGED <<rows, held, pc, stands>>
    BY <1>1 DEF LockTTL, vars
  <2> QED BY <1>0, <2>1 DEF StoodFor
<1>2. ASSUME NEW r \in Reports,
             LockLocal(r) \/ SetNX(r) \/ Unlocked(r) \/ Unlock(r) \/ Find(r) \/ FindFail(r)
             \/ InsertRefused(r) \/ UnresolvedError(r) \/ FoldFail(r)
      PROVE  StoodFor'
  <2>1. /\ UNCHANGED <<rows, held, stands>>
        /\ \A k \in Reports : pc'[k] \in {"unlock", "done"} => pc[k] \in {"unlock", "done"}
    <3>1. CASE Find(r)
      BY <1>0, <3>1, FindEffect DEF Find, TypeOK
    <3>2. CASE ~Find(r)
      BY <1>0, <1>2, <3>2 DEF LockLocal, SetNX, Unlocked, Unlock, FindFail, InsertRefused, UnresolvedError,
                   FoldFail, TypeOK
    <3> QED BY <3>1, <3>2
  <2> QED BY <1>0, <2>1 DEF StoodFor
<1>3. ASSUME NEW r \in Reports, Fold(r) PROVE StoodFor'
  <2>1. /\ UNCHANGED <<rows, held>> /\ kept[r] \in rows /\ kept[r] \in Reports
        /\ stands' = [stands EXCEPT ![kept[r]] = stands[kept[r]] \cup {r}]
        /\ pc' = [pc EXCEPT ![r] = "unlock"]
    BY <1>0, <1>3 DEF Fold, Kept, TypeOK
  <2>2. r \in stands'[kept[r]] /\ \A k \in Reports : stands[k] \subseteq stands'[k]
    BY <1>0, <2>1 DEF TypeOK
  <2>3. \A j \in Reports \ {r} : pc'[j] = pc[j]
    BY <1>0, <2>1 DEF TypeOK
  <2>4. rows \cup held \subseteq Reports
    BY <1>0 DEF TypeOK
  <2> QED BY <1>0, <2>1, <2>2, <2>3, <2>4 DEF StoodFor
<1>4. ASSUME NEW r \in Reports, Insert(r) \/ InsertHeld(r) \/ Unresolved(r) PROVE StoodFor'
  <2>1. /\ rows' \cup held' = rows \cup held \cup {r}
        /\ \A k \in Reports \ {r} : pc'[k] = pc[k]
        /\ stands'[r] = {r} /\ \A k \in Reports \ {r} : stands'[k] = stands[k]
        /\ r \notin rows \cup held
    BY <1>0, <1>4 DEF Insert, InsertHeld, Unresolved, TypeOK, Kept
  <2>2. rows \cup held \subseteq Reports
    BY <1>0 DEF TypeOK
  <2> QED BY <1>0, <2>1, <2>2 DEF StoodFor
<1>5. ASSUME NEW r \in Reports, Deliver(r) PROVE StoodFor'
  <2>1. rows' \cup held' = rows \cup held /\ UNCHANGED <<pc, stands>>
    BY <1>5 DEF Deliver
  <2> QED BY <1>0, <2>1 DEF StoodFor
<1> QED BY <1>1, <1>2, <1>3, <1>4, <1>5 DEF Next, Progress

-----------------------------------------------------------------------------
(* The lock.                                                               *)

\* What an accepted report's row accounts for.
Accounts(k) ==
    /\ count[k] >= Cardinality(stands[k])
    /\ \A r \in stands[k] : Score[r] <= score[k]

\* While the lock works a request that is past lockKey is alone there.
LEMMA Alone ==
    ASSUME Locked, "lock" \notin mishaps, NEW r \in Reports, pc[r] \in InLock
    PROVE  rlock = r /\ \A u \in Reports \ {r} : pc[u] \notin InLock
  BY DEF Locked

\* While the lock works, every step keeps what it is for.
LEMMA LockedStep ==
    ASSUME TypeOK, Kept, Locked, [Next]_vars
    PROVE  Locked'
<1> SUFFICES ASSUME "lock" \notin mishaps' PROVE Locked'
  BY DEF Locked
<1>0. TypeOK /\ Kept /\ Locked
  OBVIOUS
<1> USE DEF rowVars
<1> DEFINE Copied(r) ==
              copy[r] = [count |-> count[kept[r]], last |-> last[kept[r]], score |-> score[kept[r]]]
<1>1. CASE LockTTL
  BY <1>1 DEF LockTTL, Fault
<1>2. CASE UNCHANGED vars
  BY <1>0, <1>2 DEF vars, Locked
<1>3. ASSUME NEW r \in Reports, Progress(r) \/ Unresolved(r) \/ UnresolvedError(r) \/ Deliver(r)
      PROVE  Locked'
  <2>0. "lock" \notin mishaps
    BY <1>3 DEF Progress, LockLocal, SetNX, Unlocked, Unlock, Find, FindFail, Fold, FoldFail, Insert,
                InsertHeld, InsertRefused, Unresolved, UnresolvedError, Deliver, Fault
  <2>1. CASE LockLocal(r) \/ UnresolvedError(r)
    <3>1. /\ UNCHANGED <<rowVars, held, rlock, kept, copy, stands>>
          /\ \A u \in Reports : pc'[u] \in InLock => pc'[u] = pc[u]
      BY <1>0, <2>1 DEF LockLocal, UnresolvedError, TypeOK, InLock
    <3> QED BY <1>0, <2>0, <3>1 DEF Locked, InLock
  <2>2. CASE SetNX(r)
    <3>1. /\ UNCHANGED <<rowVars, held, kept, copy, stands>>
          /\ rlock = NoReport /\ rlock' = r /\ pc'[r] = "find"
          /\ \A u \in Reports \ {r} : pc'[u] = pc[u]
      BY <1>0, <2>2 DEF SetNX, TypeOK
    <3>2. \A u \in Reports : pc[u] \notin InLock
      BY <1>0, <2>0, <3>1, ReportAssumption DEF Locked
    <3> QED BY <1>0, <2>0, <3>1, <3>2 DEF Locked, InLock
  <2>3. CASE Unlocked(r)
    BY <2>3 DEF Unlocked, Fault
  <2>4. CASE Unlock(r)
    <3>1. /\ UNCHANGED <<rowVars, held, kept, copy, stands>>
          /\ pc[r] \in InLock /\ pc'[r] \in {"done", "refused"}
          /\ \A u \in Reports \ {r} : pc'[u] = pc[u]
      BY <1>0, <2>4 DEF Unlock, TypeOK, InLock
    <3>2. \A u \in Reports \ {r} : pc[u] \notin InLock
      BY <1>0, <2>0, <3>1, Alone
    <3> QED BY <1>0, <2>0, <3>1, <3>2 DEF Locked, InLock
  <2>5. CASE Find(r)
    <3>1. /\ UNCHANGED <<rowVars, held, rlock, stands>> /\ pc[r] = "find"
      BY <2>5 DEF Find
    <3>2. rlock = r /\ \A u \in Reports \ {r} : pc[u] \notin InLock
      BY <1>0, <2>0, <3>1, Alone DEF InLock
    <3>3. CASE pc' = [pc EXCEPT ![r] = "insert"] /\ UNCHANGED <<kept, copy>>
      <4>1. pc'[r] = "insert" /\ \A u \in Reports \ {r} : pc'[u] = pc[u]
        BY <1>0, <3>3 DEF TypeOK
      <4> QED BY <1>0, <2>0, <3>1, <3>2, <3>3, <4>1 DEF Locked, InLock
    <3>4. ASSUME NEW k \in rows,
                 kept' = [kept EXCEPT ![r] = k],
                 copy' = [copy EXCEPT ![r] = [count |-> count[k], last |-> last[k], score |-> score[k]]],
                 pc' = [pc EXCEPT ![r] = "fold"]
          PROVE  Locked'
      <4>1. /\ pc'[r] = "fold" /\ \A u \in Reports \ {r} : pc'[u] = pc[u]
            /\ kept'[r] = k
            /\ copy'[r] = [count |-> count[k], last |-> last[k], score |-> score[k]]
        BY <1>0, <3>4, Zenon DEF TypeOK
      <4>2. \A u \in Reports : pc'[u] \in InLock => u = r
        BY <3>2, <4>1
      <4>3. \A u \in Reports : pc'[u] = "fold" => Copied(u)'
        BY <3>1, <4>1, <4>2 DEF InLock
      <4> QED BY <1>0, <2>0, <3>1, <3>2, <4>2, <4>3 DEF Locked
    <3> QED BY <2>5, <3>3, <3>4, FindEffect, Zenon
  <2>6. CASE FindFail(r) \/ InsertRefused(r)
    <3>1. /\ UNCHANGED <<rowVars, held, rlock, kept, copy, stands>>
          /\ pc[r] \in InLock /\ pc'[r] \in {"insert", "refusing"}
          /\ \A u \in Reports \ {r} : pc'[u] = pc[u]
      BY <1>0, <2>6 DEF FindFail, InsertRefused, TypeOK, InLock
    <3>2. rlock = r /\ \A u \in Reports \ {r} : pc[u] \notin InLock
      BY <1>0, <2>0, <3>1, Alone
    <3> QED BY <1>0, <2>0, <3>1, <3>2 DEF Locked, InLock
  <2>7. CASE Fold(r) \/ FoldFail(r)
    <3>1. /\ UNCHANGED <<rows, held, rlock, kept, copy>>
          /\ pc[r] = "fold" /\ pc'[r] \in {"unlock", "insert"}
          /\ \A u \in Reports \ {r} : pc'[u] = pc[u]
      BY <1>0, <2>7 DEF Fold, FoldFail, TypeOK
    <3>2. rlock = r /\ \A u \in Reports \ {r} : pc[u] \notin InLock
      BY <1>0, <2>0, <3>1, Alone DEF InLock
    <3>3. \A k \in rows \cup held : Accounts(k) /\ k \in Reports /\ IsFiniteSet(stands[k])
      BY <1>0, <2>0 DEF Locked, Accounts, TypeOK, Kept
    <3>4. \A k \in rows \cup held : Accounts(k)'
      <4>1. CASE WriteFold(r)
        <5>0. PICK c \in Reports : c = kept[r]
          BY <1>0, <3>1, <4>1, WriteEffect
        <5>1. /\ c \in rows
              /\ count'[c] = copy[r].count + 1
              /\ score'[c] >= Score[r] /\ score'[c] >= copy[r].score
              /\ score'[c] \in Nat
              /\ \A k \in Reports \ {c} : count'[k] = count[k] /\ score'[k] = score[k]
          BY <1>0, <3>1, <4>1, <5>0, WriteEffect
        <5>2. copy[r].count = count[c] /\ copy[r].score = score[c]
          <6>1. copy[r] = [count |-> count[c], last |-> last[c], score |-> score[c]]
            BY <1>0, <2>0, <3>1, <5>0, Zenon DEF Locked
          <6> QED BY <6>1
        <5>3. /\ \A k \in Reports \ {c} : stands'[k] = stands[k]
              /\ stands'[c] \in {stands[c], stands[c] \cup {r}}
          BY <1>0, <2>7, <5>0 DEF Fold, FoldFail, TypeOK
        <5>4. ASSUME NEW k \in rows \cup held, k # c PROVE Accounts(k)'
          BY <3>3, <5>1, <5>3, <5>4 DEF Accounts
        <5>5. Accounts(c)'
          <6>1. /\ count[c] \in Nat /\ score[c] \in Nat /\ \A u \in Reports : Score[u] \in Nat
                /\ stands[c] \subseteq Reports
            BY <1>0, ReportAssumption DEF TypeOK
          <6>2. /\ Cardinality(stands[c]) \in Nat
                /\ Cardinality(stands[c] \cup {r}) <= Cardinality(stands[c]) + 1
                /\ IsFiniteSet(stands[c] \cup {r})
            BY <3>3, <5>1, StandsFinite
          <6>3. Cardinality(stands[c] \cup {r}) \in Nat
            BY <6>2, FS_CardinalityType
          <6>4. count[c] >= Cardinality(stands[c]) /\ \A u \in stands[c] : Score[u] <= score[c]
            BY <3>3, <5>1 DEF Accounts
          <6>5. count'[c] >= Cardinality(stands'[c])
            <7>1. count'[c] = count[c] + 1
              BY <5>1, <5>2
            <7>2. CASE stands'[c] = stands[c]
              BY <7>1, <7>2, <6>1, <6>2, <6>4
            <7>3. CASE stands'[c] = stands[c] \cup {r}
              BY <7>1, <7>3, <6>1, <6>2, <6>3, <6>4
            <7> QED BY <5>3, <7>2, <7>3
          <6>6. \A u \in stands'[c] : Score[u] <= score'[c]
            BY <5>1, <5>2, <5>3, <6>1, <6>4
          <6> QED BY <6>5, <6>6 DEF Accounts
        <5> QED BY <5>4, <5>5
      <4>2. CASE ~WriteFold(r)
        <5>1. UNCHANGED <<count, score, stands>>
          BY <2>7, <4>2 DEF Fold, FoldFail
        <5> QED BY <3>3, <5>1 DEF Accounts
      <4> QED BY <4>1, <4>2
    <3> QED BY <3>1, <3>2, <3>4 DEF Locked, Accounts, InLock
  <2>8. CASE Insert(r) \/ InsertHeld(r) \/ Unresolved(r)
    <3>1. /\ UNCHANGED <<count, last, score, kept, copy, rlock>>
          /\ rows' \cup held' = rows \cup held \cup {r}
          /\ (pc[r] = "insert" /\ pc'[r] = "unlock") \/ pc'[r] = "done"
          /\ \A k \in Reports \ {r} : pc'[k] = pc[k]
          /\ stands'[r] = {r} /\ \A k \in Reports \ {r} : stands'[k] = stands[k]
          /\ r \notin rows
      BY <1>0, <2>8 DEF Insert, InsertHeld, Unresolved, TypeOK, Kept
    <3>2. /\ count[r] >= 1 /\ score[r] = Score[r] /\ score[r] \in Nat
      BY <1>0, <3>1 DEF Kept, TypeOK
    <3>3. Cardinality({r}) = 1
      BY StandsFinite
    <3>4. Accounts(r)'
      BY <3>1, <3>2, <3>3 DEF Accounts
    <3>5. \A k \in rows \cup held : k \in Reports /\ Accounts(k)
      BY <1>0, <2>0 DEF Locked, Accounts, TypeOK
    <3>6. \A k \in rows' \cup held' : Accounts(k)'
      BY <3>1, <3>4, <3>5 DEF Accounts
    <3>7. /\ \A u \in Reports : pc'[u] \in InLock => rlock' = u
          /\ \A u \in Reports : pc'[u] = "fold" => Copied(u)'
      BY <1>0, <2>0, <3>1 DEF Locked, InLock
    <3> QED BY <3>6, <3>7 DEF Locked, Accounts
  <2>9. CASE Deliver(r)
    <3>1. rows' \cup held' = rows \cup held /\ UNCHANGED <<count, last, score, rlock, pc, kept, copy, stands>>
      BY <2>9 DEF Deliver
    <3> QED BY <1>0, <2>0, <3>1 DEF Locked
  <2> QED BY <1>3, <2>1, <2>2, <2>3, <2>4, <2>5, <2>6, <2>7, <2>8, <2>9 DEF Progress
<1> QED BY <1>1, <1>2, <1>3 DEF Next

\* While nothing goes wrong, reports of one window never make a second row.
LEMMA OneRowStep ==
    ASSUME TypeOK, Kept, Locked, OneRow, [Next]_vars
    PROVE  OneRow'
<1> SUFFICES ASSUME mishaps' = {}, Tight
             PROVE  /\ held' = {}
                    /\ \A j, k \in rows' : j = k
                    /\ \A r \in Reports : pc'[r] = "insert" => rows' = {}
  BY DEF OneRow
<1>0. TypeOK /\ Kept /\ Locked /\ OneRow
  OBVIOUS
<1> USE DEF rowVars
<1>1. CASE LockTTL
  BY <1>1 DEF LockTTL, Fault
<1>2. CASE UNCHANGED vars
  BY <1>0, <1>2 DEF vars, OneRow
<1>3. ASSUME NEW r \in Reports, Progress(r) \/ Unresolved(r) \/ UnresolvedError(r) \/ Deliver(r)
      PROVE  /\ held' = {}
             /\ \A j, k \in rows' : j = k
             /\ \A u \in Reports : pc'[u] = "insert" => rows' = {}
  <2>0. /\ mishaps = {}
        /\ LockLocal(r) \/ SetNX(r) \/ Unlock(r) \/ Find(r) \/ Fold(r) \/ Insert(r) \/ Deliver(r)
    BY <1>3 DEF Progress, LockLocal, SetNX, Unlocked, Unlock, Find, FindFail, Fold, FoldFail, Insert,
                InsertHeld, InsertRefused, Unresolved, UnresolvedError, Deliver, Fault
  <2>1. /\ held = {} /\ \A j, k \in rows : j = k
        /\ \A u \in Reports : pc[u] = "insert" => rows = {}
    BY <1>0, <2>0 DEF OneRow
  <2>2. CASE LockLocal(r) \/ SetNX(r) \/ Unlock(r) \/ Fold(r)
    <3>1. /\ UNCHANGED <<rows, held>>
          /\ \A u \in Reports : pc'[u] = "insert" => pc[u] = "insert"
      BY <1>0, <2>2 DEF LockLocal, SetNX, Unlock, Fold, TypeOK
    <3> QED BY <2>1, <3>1
  <2>3. CASE Find(r)
    <3>1. UNCHANGED <<rows, held>>
      BY <2>3 DEF Find
    <3>2. \A k \in rows : InWindow(r, k)
      <4> TAKE k \in rows
      <4>1. PICK j \in Reports : last[k] = Timestamp[j]
        BY <1>0 DEF Kept, TypeOK
      <4>2. Timestamp[r] - Timestamp[j] < Window
        BY DEF Tight
      <4>3. Timestamp[r] \in Nat /\ Timestamp[j] \in Nat /\ Window \in Nat
        BY ReportAssumption, WindowAssumption
      <4> QED BY <4>1, <4>2, <4>3 DEF InWindow
    <3>3. \A u \in Reports : pc'[u] = "insert" => pc[u] = "insert" \/ rows = {}
      <4>1. CASE {k \in rows : InWindow(r, k)} = {}
        BY <3>2, <4>1
      <4>2. CASE pc' = [pc EXCEPT ![r] = "fold"]
        BY <1>0, <4>2 DEF TypeOK
      <4> QED BY <2>3, <4>1, <4>2, FindEffect, Zenon
    <3> QED BY <2>1, <3>1, <3>3
  <2>4. CASE Insert(r)
    <3>1. /\ rows' = rows \cup {r} /\ held' = held /\ pc[r] = "insert" /\ pc'[r] = "unlock"
          /\ \A u \in Reports \ {r} : pc'[u] = pc[u]
      BY <1>0, <2>4 DEF Insert, TypeOK
    <3>2. \A u \in Reports \ {r} : pc[u] \notin InLock
      BY <1>0, <2>0, <3>1, Alone DEF InLock
    <3> QED BY <2>1, <3>1, <3>2 DEF InLock
  <2>5. CASE Deliver(r)
    BY <2>1, <2>5 DEF Deliver
  <2> QED BY <2>0, <2>2, <2>3, <2>4, <2>5
<1> QED BY <1>1, <1>2, <1>3 DEF Next

-----------------------------------------------------------------------------
(* The theorems.                                                           *)

\* The folding's invariant: what is accepted is stood for, and the lock does
\* what it is there for as long as it works.
THEOREM FoldingInvariant == Spec => [](TypeOK /\ Kept /\ StoodFor /\ Locked /\ OneRow)
<1> DEFINE Inv == TypeOK /\ Kept /\ StoodFor /\ Locked /\ OneRow
<1>1. Init => Inv
  <2> SUFFICES ASSUME Init PROVE Inv
    OBVIOUS
  <2>1. TypeOK
    BY ReportAssumption DEF Init, TypeOK, Copies, NoCopy
  <2>2. \A r \in Reports : IsFiniteSet(stands[r])
    BY FS_EmptySet DEF Init
  <2>3. Kept /\ StoodFor
    BY <2>2 DEF Init, Kept, StoodFor
  <2>4. Locked /\ OneRow
    BY DEF Init, Locked, OneRow, InLock
  <2> QED BY <2>1, <2>3, <2>4
<1>2. Inv /\ [Next]_vars => Inv'
  BY TypeStep, KeptStep, StoodForStep, LockedStep, OneRowStep
<1> QED BY <1>1, <1>2, PTL DEF Spec

\* TypeOK holds in every state: a fold only ever writes to a row that is there.
THEOREM TypeCorrect == Spec => []TypeOK
  BY FoldingInvariant, PTL

\* RecordDeduped loses nothing it accepted, whatever fails: the report has a
\* row, is folded into one or is held; while the lock works, the repeat count
\* accounts for all of them, failed updates that were applied included.
THEOREM NothingIsLost == Spec => []NothingLost
<1>1. TypeOK /\ Kept /\ StoodFor /\ Locked /\ OneRow => NothingLost
  BY DEF NothingLost, StoodFor, Locked
<1> QED BY <1>1, FoldingInvariant, PTL

\* While the lock works keepWorstDLP keeps the highest score of the reports a
\* row stands for: what was read is still true when it is written.
THEOREM WorstIsKept == Spec => []WorstKept
<1>1. TypeOK /\ Kept /\ StoodFor /\ Locked /\ OneRow => WorstKept
  BY DEF WorstKept, Locked
<1> QED BY <1>1, FoldingInvariant, PTL

\* While lock and database work, reports inside one window of one another are
\* one row: no two requests both find nothing and both insert.
THEOREM AlwaysOneIncident == Spec => []OneIncident
<1>1. ASSUME OneRow PROVE OneIncident
  <2> SUFFICES ASSUME mishaps = {}, Tight PROVE Cardinality(rows) <= 1
    BY DEF OneIncident, Tight
  <2>1. \A j, k \in rows : j = k
    BY <1>1 DEF OneRow
  <2>2. CASE rows = {}
    BY <2>2, FS_EmptySet
  <2>3. CASE rows # {}
    <3>1. PICK k \in rows : rows = {k}
      BY <2>1, <2>3
    <3>2. Cardinality({k}) = 1
      BY FS_Singleton
    <3> QED BY <3>1, <3>2
  <2> QED BY <2>2, <2>3
<1>2. TypeOK /\ Kept /\ StoodFor /\ Locked /\ OneRow => OneIncident
  BY <1>1
<1> QED BY <1>2, FoldingInvariant, PTL
=============================================================================
