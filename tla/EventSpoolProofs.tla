--------------------------- MODULE EventSpoolProofs ---------------------------
(***************************************************************************)
(* Proofs about EventSpool, for any number of instances, batches and       *)
(* company databases.                                                      *)
(***************************************************************************)
EXTENDS EventSpool, SequenceTheorems, FiniteSetTheorems, TLAPS

\* What manager.entry returns is an entry that names a database.
LEMMA LoadedType ==
    ASSUME TypeOK, NEW i \in Instances, NEW e \in Loaded(i)
    PROVE  /\ e \in Entries /\ e.dest \in Dests
           /\ [e EXCEPT !.brk = TRUE] \in Entries
<1>1. entry[i] \in Entries /\ row \in Dests /\ row # NoEntry
  BY DestAssumption DEF TypeOK, Dests
<1> DEFINE new == [dest |-> row, fresh |-> TRUE, brk |-> entry[i].brk /\ entry[i].dest = row]
<1>2. (entry[i].brk /\ entry[i].dest = row) \in BOOLEAN
  OBVIOUS
<1>3. new \in Entries /\ new.dest \in Dests
  BY <1>1, <1>2, Zenon DEF Entries, Dests
<1>4. e = new \/ (e = entry[i] /\ (entry[i].fresh \/ entry[i].dest # NoEntry))
  BY Zenon DEF Loaded
<1>5. e \in Entries /\ e.dest \in Dests
  BY <1>1, <1>3, <1>4 DEF Entries, Dests
<1> QED
  BY <1>5 DEF Entries

\* guardedStore.check leaves every entry an entry.
LEMMA TripType ==
    ASSUME TypeOK, NEW i \in Instances, NEW d
    PROVE  Trip(i, d) \in [Instances -> Entries]
<1>1. entry[i] \in Entries /\ entry \in [Instances -> Entries]
  BY DEF TypeOK
<1>2. [entry[i] EXCEPT !.brk = @ \/ entry[i].dest = d] \in Entries
  BY <1>1, Zenon DEF Entries
<1> QED
  BY <1>1, <1>2, Zenon DEF Trip

\* Every step keeps the state well formed.
LEMMA TypeStep ==
    ASSUME TypeOK, [Next]_vars
    PROVE  TypeOK'
<1> USE DEF TypeOK
<1>1. ASSUME NEW b \in Batches, Request(b) PROVE TypeOK'
  <2> USE DEF flushVars
  <2>1. CASE Route(b)
    <3>1. PICK e \in Loaded(at[b]) : /\ entry' = [entry EXCEPT ![at[b]] = e]
                                     /\ dest' = [dest EXCEPT ![b] = e.dest]
      BY <2>1 DEF Route
    <3> QED BY <2>1, <3>1, LoadedType DEF Route
  <2>2. CASE RouteUnavailable(b)
    <3>1. PICK e \in Loaded(at[b]) :
             /\ entry' = [entry EXCEPT ![at[b]] = [e EXCEPT !.brk = TRUE]]
             /\ dest' = [dest EXCEPT ![b] = e.dest]
      BY <2>2 DEF RouteUnavailable
    <3> QED BY <2>2, <3>1, LoadedType DEF RouteUnavailable
  <2>3. CASE InsertOK(b)
    BY <2>3, ContentAssumption DEF InsertOK
  <2>4. CASE InsertFail(b)
    <3>1. entry' \in [Instances -> Entries]
      BY <2>4, TripType DEF InsertFail
    <3> QED BY <2>4, <3>1, ContentAssumption, ZenonT(60) DEF InsertFail
  <2>5. CASE Push(b)
    <3>1. spool' \in Seq(Batches) /\ dropped' \subseteq Batches
      <4>1. CASE Len(spool) < SpoolMax
        <5>1. spool' = Append(spool, b) /\ dropped' = dropped
          BY <2>5, <4>1, Zenon DEF Push
        <5> QED BY <5>1
      <4>2. CASE ~(Len(spool) < SpoolMax)
        <5>1. spool # <<>> /\ Tail(spool) \in Seq(Batches) /\ Head(spool) \in Batches
          BY <4>2, BoundAssumption
        <5>2. spool' = Append(Tail(spool), b) /\ dropped' = dropped \cup {Head(spool)}
          BY <2>5, <4>2, Zenon DEF Push
        <5> QED BY <5>1, <5>2
      <4> QED BY <4>1, <4>2
    <3>2. /\ pc' = [pc EXCEPT ![b] = "acked"]
          /\ UNCHANGED <<row, entry, up, stored, unreadable, at, dest, flushVars>>
      BY <2>5 DEF Push
    <3> QED BY <3>1, <3>2
  <2> QED BY <1>1, <2>1, <2>2, <2>3, <2>4, <2>5 DEF Request, RouteError, PushFail
<1>2. ASSUME NEW i \in Instances, Flush(i) PROVE TypeOK'
  <2> USE DEF reqVars, flushVars
  <2>1. CASE FlushStart(i)
    <3>1. PICK e \in Loaded(i) : /\ entry' = [entry EXCEPT ![i] = e]
                                 /\ fdest' = [fdest EXCEPT ![i] = e.dest]
      BY <2>1 DEF FlushStart
    <3> QED BY <2>1, <3>1, LoadedType DEF FlushStart
  <2>2. CASE FlushNone(i)
    <3>1. PICK e \in Loaded(i) : entry' = [entry EXCEPT ![i] =
             IF e.dest = Primary THEN e ELSE [e EXCEPT !.brk = TRUE]]
      BY <2>2 DEF FlushNone
    <3> QED BY <2>2, <3>1, LoadedType DEF FlushNone
  <2>3. CASE FlushRange(i)
    BY <2>3, BoundAssumption, SMTT(60) DEF FlushRange
  <2>4. CASE FlushWrite(i)
    BY <2>4, ContentAssumption, SMTT(60) DEF FlushWrite
  <2>5. CASE FlushUnreadable(i)
    BY <2>5, SMTT(60) DEF FlushUnreadable
  <2>6. CASE FlushStop(i)
    <3>1. entry' \in [Instances -> Entries]
      BY <2>6, TripType DEF FlushStop
    <3>2. items[i][done[i] + 1] \in Batches
      BY <2>6 DEF FlushStop
    <3> QED BY <2>6, <3>1, <3>2, ContentAssumption, SMTT(60) DEF FlushStop
  <2>7. CASE FlushTrim(i)
    BY <2>7, DestAssumption, SMTT(60) DEF FlushTrim, FlushReturn, Dests
  <2>8. CASE FlushTrimFail(i)
    BY <2>8, DestAssumption DEF FlushTrimFail, FlushReturn, Dests
  <2> QED BY <1>2, <2>1, <2>2, <2>3, <2>4, <2>5, <2>6, <2>7, <2>8 DEF Flush
<1>3. ASSUME NEW i \in Instances, Instance(i) PROVE TypeOK'
  <2> USE DEF reqVars, flushVars
  <2>1. CASE \E d \in Dests : Save(i, d)
    <3>1. entry' = [entry EXCEPT ![i] = [entry[i] EXCEPT !.fresh = FALSE, !.brk = FALSE]]
      BY <2>1 DEF Save
    <3>2. [entry[i] EXCEPT !.fresh = FALSE, !.brk = FALSE] \in Entries
      BY ZenonT(60) DEF Entries
    <3> QED BY <2>1, <3>1, <3>2 DEF Save
  <2>2. CASE RowTTL(i)
    BY <2>2, ZenonT(60) DEF RowTTL, Entries
  <2>3. CASE RetryAfter(i)
    BY <2>3, ZenonT(60) DEF RetryAfter, Entries
  <2>4. CASE Crash(i)
    BY <2>4, DestAssumption DEF Crash, FlushReturn, Blank, Entries, Dests
  <2> QED BY <1>3, <2>1, <2>2, <2>3, <2>4 DEF Instance
<1>4. CASE \E d \in DBs : Flip(d)
  BY <1>4 DEF Flip, reqVars, flushVars
<1>5. CASE SpoolTTL
  BY <1>5 DEF SpoolTTL, Held, reqVars, flushVars
<1>6. CASE RotateKey
  BY <1>6 DEF RotateKey, Held, reqVars, flushVars
<1>7. CASE UNCHANGED vars
  BY <1>7 DEF vars, reqVars, flushVars
<1> QED BY <1>1, <1>2, <1>3, <1>4, <1>5, <1>6, <1>7 DEF Next

\* TypeOK holds in every state: every handler leaves the row, the caches, the
\* stores, the spool and its own locals well formed.
THEOREM TypeCorrect == Spec => []TypeOK
<1>1. Init => TypeOK
  BY DestAssumption, BoundAssumption DEF Init, TypeOK, Entries, Blank, Dests
<1> QED BY <1>1, TypeStep, PTL DEF Spec

(***************************************************************************)
(* Durability.  The spool is trimmed by count, so a flush must still find  *)
(* at the old end what it fetched from there.  RacedTrim is a step that    *)
(* takes the old end away under a flush in progress: another instance's    *)
(* trim, a push past the cap, or the key's expiry.  Without such a step    *)
(* nothing accepted is ever lost, however many instances there are.        *)
(***************************************************************************)
RacedTrim ==
    \E i \in Instances :
        /\ fpc[i] \in {"deliver", "trim"}
        /\ \/ \E j \in Instances \ {i} : FlushTrim(j) /\ done[j] > 0
           \/ \E b \in Batches : Push(b) /\ ~(Len(spool) < SpoolMax)
           \/ SpoolTTL

Durable == TypeOK /\ NoAckedEventLost /\ FlushSound

\* Written events stay written and a batch given up stays given up.
LEMMA KeptGrows ==
    ASSUME TypeOK, [Next]_vars
    PROVE  Kept \subseteq Kept' /\ dropped \subseteq dropped'
<1>1. \/ stored' = stored
      \/ \E d \in Dests, X \in SUBSET Events : stored' = [stored EXCEPT ![d] = @ \cup X]
  <2> USE DEF TypeOK, reqVars, flushVars
  <2>1. ASSUME NEW b \in Batches, Request(b)
        PROVE  \/ stored' = stored
               \/ \E d \in Dests, X \in SUBSET Events : stored' = [stored EXCEPT ![d] = @ \cup X]
    <3>1. CASE InsertOK(b)
      BY <3>1, ContentAssumption DEF InsertOK
    <3>2. CASE InsertFail(b)
      BY <3>2, ContentAssumption DEF InsertFail
    <3> QED BY <2>1, <3>1, <3>2 DEF Request, Route, RouteUnavailable, RouteError, Push, PushFail
  <2>2. ASSUME NEW i \in Instances, Flush(i)
        PROVE  \/ stored' = stored
               \/ \E d \in Dests, X \in SUBSET Events : stored' = [stored EXCEPT ![d] = @ \cup X]
    <3>1. CASE FlushWrite(i)
      <4>1. items[i][done[i] + 1] \in Batches
        BY <3>1 DEF FlushWrite
      <4> QED BY <3>1, <4>1, ContentAssumption DEF FlushWrite
    <3>2. CASE FlushStop(i)
      <4>1. items[i][done[i] + 1] \in Batches
        BY <3>2 DEF FlushStop
      <4> QED BY <3>2, <4>1, ContentAssumption DEF FlushStop
    <3> QED BY <2>2, <3>1, <3>2 DEF Flush, FlushStart, FlushNone, FlushRange,
              FlushUnreadable, FlushTrim, FlushTrimFail
  <2> QED BY <2>1, <2>2 DEF Next, Instance, Save, RowTTL, RetryAfter, Crash, Flip,
            SpoolTTL, RotateKey, vars
<1>2. dropped \subseteq dropped'
  BY ZenonT(60) DEF Next, Request, Flush, Instance, Route, RouteUnavailable, RouteError, InsertOK,
     InsertFail, Push, PushFail, FlushStart, FlushNone, FlushRange, FlushWrite,
     FlushUnreadable, FlushStop, FlushTrim, FlushTrimFail, Save, RowTTL, RetryAfter, Crash,
     Flip, SpoolTTL, RotateKey, vars
<1>3. \A d \in Dests : stored[d] \subseteq stored'[d]
  BY <1>1 DEF TypeOK
<1> QED BY <1>2, <1>3, Zenon DEF Kept

\* The ways the spool changes in one step.
LEMMA SpoolSteps ==
    ASSUME TypeOK, [Next]_vars
    PROVE  \/ spool' = spool
           \/ \E b \in Batches : Push(b)
           \/ \E i \in Instances : FlushTrim(i)
           \/ SpoolTTL
  BY ZenonT(60) DEF Next, Request, Flush, Instance, Route, RouteUnavailable, RouteError, InsertOK,
     InsertFail, PushFail, FlushStart, FlushNone, FlushRange, FlushWrite, FlushUnreadable,
     FlushStop, FlushTrimFail, Save, RowTTL, RetryAfter, Crash, Flip, RotateKey, vars

\* Trimming the first d elements of a sequence moves the others d places down.
LEMMA AfterTrim ==
    ASSUME NEW S, NEW s \in Seq(S), NEW d \in Nat, d < Len(s)
    PROVE  /\ Len(SubSeq(s, d + 1, Len(s))) = Len(s) - d
           /\ \A k \in 1..(Len(s) - d) : SubSeq(s, d + 1, Len(s))[k] = s[k + d]
<1>1. Len(s) \in Nat /\ d + 1 \in 1..(Len(s) + 1)
  OBVIOUS
<1>2. \A i \in 1..Len(s) : s[i] \in S
  OBVIOUS
<1> DEFINE n == Len(s) t == SubSeq(s, d + 1, n)
<1>3. n \in Nat /\ d + 1 \in 1..(n + 1) /\ n \in d..n
  BY <1>1
<1>4. /\ Len(t) = n - (d + 1) + 1
      /\ \A i \in 1..(n - (d + 1) + 1) : t[i] = s[d + 1 + i - 1]
  BY <1>2, <1>3, SMTT(30)
<1>5. n - (d + 1) + 1 = n - d
  BY <1>3
<1>6. \A k \in 1..(n - d) : d + 1 + k - 1 = k + d
  BY <1>3
<1> QED BY <1>4, <1>5, <1>6

\* A held batch stays held, or is by then written or given up.
LEMMA HeldStays ==
    ASSUME Durable, [Next]_vars, NEW b \in Held
    PROVE  b \in Held' \/ Content[b] \subseteq Kept' \/ b \in dropped'
<1> USE DEF Durable
<1>0. PICK k \in 1..Len(spool) : b = spool[k]
  BY DEF Held
<1>1. CASE spool' = spool
  BY <1>1 DEF Held
<1>2. ASSUME NEW c \in Batches, Push(c) PROVE b \in Held' \/ b \in dropped'
  <2>1. CASE Len(spool) < SpoolMax
    <3>1. spool' = Append(spool, c)
      BY <1>2, <2>1, Zenon DEF Push
    <3>2. k \in 1..Len(spool') /\ spool'[k] = b
      BY <1>0, <3>1 DEF TypeOK
    <3> QED BY <3>2 DEF Held
  <2>2. CASE ~(Len(spool) < SpoolMax)
    <3>1. spool' = Append(Tail(spool), c) /\ dropped' = dropped \cup {Head(spool)}
      BY <1>2, <2>2, Zenon DEF Push
    <3>2. CASE k = 1
      BY <1>0, <3>1, <3>2 DEF TypeOK
    <3>3. CASE k # 1
      <4>1. k - 1 \in 1..Len(spool') /\ spool'[k - 1] = b
        BY <1>0, <3>1, <3>3, SMTT(60) DEF TypeOK
      <4> QED BY <4>1 DEF Held
    <3> QED BY <3>2, <3>3
  <2> QED BY <2>1, <2>2
<1>3. ASSUME NEW i \in Instances, FlushTrim(i)
      PROVE  b \in Held' \/ Content[b] \subseteq Kept' \/ b \in dropped'
  <2>1. /\ spool' = SubSeq(spool, done[i] + 1, Len(spool))
        /\ fpc[i] \in {"deliver", "trim"}
    BY <1>3 DEF FlushTrim
  <2>2. /\ done[i] \in Nat /\ done[i] <= Len(items[i]) /\ Len(items[i]) <= Len(spool)
        /\ \A m \in 1..Len(items[i]) : items[i][m] = spool[m]
        /\ \A m \in 1..done[i] : Content[items[i][m]] \subseteq Kept \/ items[i][m] \in dropped
    BY <2>1 DEF FlushSound, TypeOK
  <2>0. spool \in Seq(Batches) /\ Len(spool) \in Nat /\ Len(items[i]) \in Nat
    BY DEF TypeOK
  <2>3. CASE k <= done[i]
    <3>1. k \in 1..done[i] /\ k \in 1..Len(items[i])
      BY <2>0, <2>2, <2>3
    <3>2. items[i][k] = b
      BY <1>0, <2>2, <3>1
    <3> QED BY <2>2, <3>1, <3>2, KeptGrows
  <2>4. CASE ~(k <= done[i])
    <3>0. done[i] \in Nat /\ done[i] < k
      BY <2>2, <2>4
    <3>a. done[i] < Len(spool)
      BY <2>0, <3>0
    <3>b. /\ Len(spool') = Len(spool) - done[i]
          /\ \A j \in 1..(Len(spool) - done[i]) : spool'[j] = spool[j + done[i]]
      BY <2>0, <2>1, <3>0, <3>a, AfterTrim
    <3>c. k - done[i] \in 1..(Len(spool) - done[i]) /\ (k - done[i]) + done[i] = k
      BY <2>0, <3>0
    <3>1. k - done[i] \in 1..Len(spool') /\ spool'[k - done[i]] = b
      BY <1>0, <3>b, <3>c
    <3> QED BY <3>1 DEF Held
  <2> QED BY <2>3, <2>4
<1>4. CASE SpoolTTL
  BY <1>4 DEF SpoolTTL
<1> QED BY <1>1, <1>2, <1>3, <1>4, SpoolSteps

\* Under a flush in progress the spool only grows at its new end.
LEMMA OldEndStays ==
    ASSUME Durable, [Next]_vars, ~RacedTrim, NEW i \in Instances,
           fpc[i] \in {"deliver", "trim"}, fpc'[i] \in {"deliver", "trim"}
    PROVE  Len(spool) <= Len(spool') /\ \A k \in 1..Len(spool) : spool'[k] = spool[k]
<1>0. spool \in Seq(Batches) /\ Len(spool) \in Nat
  BY DEF Durable, TypeOK
<1>1. CASE spool' = spool
  BY <1>0, <1>1
<1>2. ASSUME NEW c \in Batches, Push(c)
      PROVE  Len(spool) <= Len(spool') /\ \A k \in 1..Len(spool) : spool'[k] = spool[k]
  <2>1. Len(spool) < SpoolMax
    BY <1>2, Zenon DEF RacedTrim
  <2>2. spool' = Append(spool, c)
    BY <1>2, <2>1, Zenon DEF Push
  <2> QED BY <1>0, <2>2
<1>3. ASSUME NEW j \in Instances, FlushTrim(j)
      PROVE  Len(spool) <= Len(spool') /\ \A k \in 1..Len(spool) : spool'[k] = spool[k]
  <2>1. j # i
    BY <1>3 DEF FlushTrim, FlushReturn, Durable, TypeOK
  <2>2. ~(done[j] > 0) /\ done[j] \in Nat
    BY <1>3, <2>1 DEF RacedTrim, Durable, TypeOK
  <2>3. spool' = SubSeq(spool, 1, Len(spool))
    BY <1>3, <2>2 DEF FlushTrim
  <2> QED BY <1>0, <2>3
<1>4. ~SpoolTTL
  BY DEF RacedTrim
<1> QED BY <1>1, <1>2, <1>3, <1>4, SpoolSteps DEF Durable

\* A flush under way either has just fetched its batches, has just dealt with
\* one of them, or is where it was.
LEMMA FlushLocals ==
    ASSUME TypeOK, [Next]_vars, NEW i \in Instances, fpc'[i] \in {"deliver", "trim"}
    PROVE  \/ FlushRange(i) \/ FlushWrite(i) \/ FlushUnreadable(i)
           \/ fpc[i] \in {"deliver", "trim"} /\ items'[i] = items[i] /\ done'[i] = done[i]
<1> USE DEF TypeOK, reqVars, flushVars
<1>1. CASE \E b \in Batches : Request(b)
  BY <1>1 DEF Request, Route, RouteUnavailable, RouteError, InsertOK, InsertFail, Push, PushFail
<1>2. ASSUME NEW j \in Instances, Flush(j)
      PROVE  \/ FlushRange(i) \/ FlushWrite(i) \/ FlushUnreadable(i)
             \/ fpc[i] \in {"deliver", "trim"} /\ items'[i] = items[i] /\ done'[i] = done[i]
  BY <1>2, SMTT(60) DEF Flush, FlushStart, FlushNone, FlushRange, FlushWrite, FlushUnreadable,
     FlushStop, FlushTrim, FlushTrimFail, FlushReturn
<1>3. ASSUME NEW j \in Instances, Instance(j)
      PROVE  fpc[i] \in {"deliver", "trim"} /\ items'[i] = items[i] /\ done'[i] = done[i]
  BY <1>3 DEF Instance, Save, RowTTL, RetryAfter, Crash, FlushReturn
<1>4. CASE (\E d \in DBs : Flip(d)) \/ SpoolTTL \/ RotateKey \/ UNCHANGED vars
  BY <1>4 DEF Flip, SpoolTTL, RotateKey, vars
<1> QED BY <1>1, <1>2, <1>3, <1>4 DEF Next

\* Without a raced trim every step of every process leaves each flush under way
\* sound: what flushOrg fetched is still at the old end, what it counts is safe.
LEMMA FlushSoundStep ==
    ASSUME Durable, [Next]_vars, ~RacedTrim
    PROVE  FlushSound'
<1> SUFFICES ASSUME NEW i \in Instances, fpc'[i] \in {"deliver", "trim"}
             PROVE  /\ done'[i] <= Len(items'[i]) /\ Len(items'[i]) <= Len(spool')
                    /\ \A k \in 1..Len(items'[i]) : items'[i][k] = spool'[k]
                    /\ \A k \in 1..done'[i] : \/ Content[items'[i][k]] \subseteq Kept'
                                              \/ items'[i][k] \in dropped'
  BY DEF FlushSound
<1>0. /\ spool \in Seq(Batches) /\ Len(spool) \in Nat
      /\ items[i] \in Seq(Batches) /\ Len(items[i]) \in Nat /\ done[i] \in Nat
  BY DEF Durable, TypeOK
<1>1. CASE FlushRange(i)
  <2> DEFINE m == IF Len(spool) < FlushBatches THEN Len(spool) ELSE FlushBatches
  <2>1. spool' = spool /\ items'[i] = SubSeq(spool, 1, m) /\ done'[i] = 0
    BY <1>1 DEF FlushRange, Durable, TypeOK
  <2>2. m \in 0..Len(spool)
    BY <1>0, BoundAssumption
  <2>3. Len(items'[i]) = m /\ \A k \in 1..m : items'[i][k] = spool[k]
    BY <1>0, <2>1, <2>2
  <2> QED BY <2>1, <2>2, <2>3
<1>2. ASSUME fpc[i] \in {"deliver", "trim"}, items'[i] = items[i]
      PROVE  /\ Len(items'[i]) <= Len(spool')
             /\ \A k \in 1..Len(items'[i]) : items'[i][k] = spool'[k]
             /\ done[i] <= Len(items[i])
             /\ \A k \in 1..done[i] : Content[items[i][k]] \subseteq Kept' \/ items[i][k] \in dropped'
  <2>1. Len(spool) <= Len(spool') /\ \A k \in 1..Len(spool) : spool'[k] = spool[k]
    BY <1>2, OldEndStays
  <2>2. TypeOK' /\ Kept \subseteq Kept' /\ dropped \subseteq dropped'
    BY TypeStep, KeptGrows DEF Durable
  <2>3. Len(spool') \in Nat
    BY <2>2 DEF TypeOK
  <2>4. FlushSound
    BY DEF Durable
  <2>5. /\ done[i] <= Len(items[i]) /\ Len(items[i]) <= Len(spool)
        /\ \A k \in 1..Len(items[i]) : items[i][k] = spool[k]
        /\ \A k \in 1..done[i] : Content[items[i][k]] \subseteq Kept \/ items[i][k] \in dropped
    BY <1>2, <2>4 DEF FlushSound
  <2>6. \A k \in 1..Len(items[i]) : k \in 1..Len(spool)
    BY <1>0, <2>5
  <2> QED BY <1>0, <1>2, <2>1, <2>2, <2>3, <2>5, <2>6
<1>3. CASE FlushWrite(i)
  <2>1. /\ fpc[i] = "deliver" /\ items'[i] = items[i] /\ done'[i] = done[i] + 1
        /\ done[i] < Len(items[i])
    BY <1>3 DEF FlushWrite, Durable, TypeOK
  <2>2. items[i][done[i] + 1] \in Batches
    BY <1>0, <2>1
  <2>3. /\ fdest[i] \in Dests
        /\ stored' = [stored EXCEPT ![fdest[i]] = @ \cup Content[items[i][done[i] + 1]]]
    BY <1>3 DEF FlushWrite, Durable, TypeOK
  <2>4. Content[items[i][done[i] + 1]] \subseteq Kept'
    BY <2>2, <2>3, ContentAssumption DEF Kept, Durable, TypeOK
  <2> QED BY <1>0, <1>2, <2>1, <2>4, SMTT(60)
<1>4. CASE FlushUnreadable(i)
  <2>1. /\ fpc[i] = "deliver" /\ items'[i] = items[i] /\ done'[i] = done[i] + 1
        /\ done[i] < Len(items[i]) /\ items[i][done[i] + 1] \in dropped'
    BY <1>4 DEF FlushUnreadable, Durable, TypeOK
  <2> QED BY <1>0, <1>2, <2>1, SMTT(60)
<1> QED BY <1>0, <1>1, <1>2, <1>3, <1>4, FlushLocals DEF Durable

\* How a request's state changes: it stays, it ends unaccepted, or it is
\* accepted with its events written or held.
LEMMA RequestSteps ==
    ASSUME TypeOK, [Next]_vars, NEW b \in Batches
    PROVE  \/ pc'[b] = pc[b]
           \/ /\ pc[b] \in {"new", "insert", "spool"}
              /\ pc'[b] \in {"insert", "spool", "refused", "gone"}
           \/ pc[b] = "insert" /\ InsertOK(b)
           \/ pc[b] = "spool" /\ Push(b)
<1> USE DEF TypeOK, reqVars
<1>1. ASSUME NEW c \in Batches, Request(c)
      PROVE  \/ pc'[b] = pc[b]
             \/ /\ pc[b] \in {"new", "insert", "spool"}
                /\ pc'[b] \in {"insert", "spool", "refused", "gone"}
             \/ pc[b] = "insert" /\ InsertOK(b)
             \/ pc[b] = "spool" /\ Push(b)
  <2>1. CASE Route(c) \/ RouteUnavailable(c) \/ RouteError(c) \/ InsertFail(c) \/ PushFail(c)
    BY <2>1 DEF Route, RouteUnavailable, RouteError, InsertFail, PushFail
  <2>2. CASE InsertOK(c)
    BY <2>2 DEF InsertOK
  <2>3. CASE Push(c)
    <3>1. pc[c] = "spool" /\ pc' = [pc EXCEPT ![c] = "acked"]
      BY <2>3 DEF Push
    <3> QED BY <2>3, <3>1
  <2> QED BY <1>1, <2>1, <2>2, <2>3 DEF Request
<1>2. CASE \E i \in Instances : Flush(i)
  BY <1>2 DEF Flush, FlushStart, FlushNone, FlushRange, FlushWrite, FlushUnreadable,
     FlushStop, FlushTrim, FlushTrimFail
<1>3. ASSUME NEW i \in Instances, Instance(i)
      PROVE  \/ pc'[b] = pc[b]
             \/ pc[b] \in {"insert", "spool"} /\ pc'[b] = "gone"
  BY <1>3 DEF Instance, Save, RowTTL, RetryAfter, Crash
<1>4. CASE (\E d \in DBs : Flip(d)) \/ SpoolTTL \/ RotateKey \/ UNCHANGED vars
  BY <1>4 DEF Flip, SpoolTTL, RotateKey, vars
<1> QED BY <1>1, <1>2, <1>3, <1>4 DEF Next

\* What a successful insert and a push leave behind.
LEMMA AcceptedSomewhere ==
    ASSUME TypeOK, NEW b \in Batches
    PROVE  /\ InsertOK(b) => Content[b] \subseteq Kept'
           /\ Push(b) => b \in Held'
<1>1. ASSUME InsertOK(b) PROVE Content[b] \subseteq Kept'
  <2>1. dest[b] \in Dests /\ stored' = [stored EXCEPT ![dest[b]] = @ \cup Content[b]]
    BY <1>1 DEF InsertOK, TypeOK
  <2>2. stored'[dest[b]] = stored[dest[b]] \cup Content[b]
    BY <2>1 DEF TypeOK
  <2> QED BY <2>1, <2>2, Zenon DEF Kept
<1>2. ASSUME Push(b) PROVE b \in Held'
  <2>1. spool \in Seq(Batches) /\ Len(spool) \in Nat
    BY DEF TypeOK
  <2>2. CASE Len(spool) < SpoolMax
    <3>1. spool' = Append(spool, b)
      BY <1>2, <2>2, Zenon DEF Push
    <3>2. Len(spool) + 1 \in 1..Len(spool') /\ spool'[Len(spool) + 1] = b
      BY <2>1, <3>1
    <3> QED BY <3>2 DEF Held
  <2>3. CASE ~(Len(spool) < SpoolMax)
    <3>1. spool' = Append(Tail(spool), b) /\ spool # <<>>
      BY <1>2, <2>1, <2>3, BoundAssumption DEF Push
    <3>2. Tail(spool) \in Seq(Batches) /\ Len(Tail(spool)) \in Nat
      BY <2>1, <3>1
    <3>3. Len(Tail(spool)) + 1 \in 1..Len(spool') /\ spool'[Len(Tail(spool)) + 1] = b
      BY <3>1, <3>2
    <3> QED BY <3>3 DEF Held
  <2> QED BY <2>2, <2>3
<1> QED BY <1>1, <1>2

\* Without a raced trim every step keeps the inductive invariant: what a
\* request was told is accepted stays in a database, held or given up.
LEMMA DurableStep ==
    ASSUME Durable, [Next]_vars, ~RacedTrim
    PROVE  Durable'
<1>1. NoAckedEventLost'
  <2> SUFFICES ASSUME NEW b \in Batches, pc'[b] = "acked"
               PROVE  Content[b] \subseteq Kept' \/ b \in Held' \/ b \in dropped'
    BY DEF NoAckedEventLost
  <2>1. pc[b] = "acked" \/ InsertOK(b) \/ Push(b)
    BY RequestSteps DEF Durable
  <2>2. CASE pc[b] = "acked"
    <3>1. Content[b] \subseteq Kept \/ b \in Held \/ b \in dropped
      BY <2>2 DEF Durable, NoAckedEventLost
    <3> QED BY <3>1, HeldStays, KeptGrows DEF Durable
  <2> QED BY <2>1, <2>2, AcceptedSomewhere DEF Durable
<1> QED BY <1>1, TypeStep, FlushSoundStep DEF Durable

\* What durability rests on, in every behaviour in which nothing cuts the old
\* end of the spool under a flush in progress.
THEOREM DurableInvariant == Spec /\ [][~RacedTrim]_vars => []Durable
<1>1. Init => Durable
  <2>1. ASSUME Init PROVE TypeOK
    BY <2>1, DestAssumption DEF Init, TypeOK, Entries, Blank, Dests
  <2> QED BY <2>1 DEF Init, Durable, NoAckedEventLost, FlushSound
<1>2. ASSUME Durable, [Next]_vars, [~RacedTrim]_vars PROVE Durable'
  <2>1. CASE ~RacedTrim
    BY <1>2, <2>1, DurableStep
  <2>2. CASE UNCHANGED vars
    <3>1. TypeOK'
      BY <1>2, TypeStep DEF Durable
    <3>2. Held' = Held /\ Kept' = Kept
      BY <2>2 DEF Held, Kept, vars
    <3>3. NoAckedEventLost'
      BY <1>2, <2>2, <3>2 DEF Durable, NoAckedEventLost, vars, reqVars
    <3>4. FlushSound'
      BY <1>2, <2>2, <3>2 DEF Durable, FlushSound, vars, flushVars
    <3> QED BY <3>1, <3>3, <3>4 DEF Durable
  <2> QED BY <1>2, <2>1, <2>2
<1> QED BY <1>1, <1>2, PTL DEF Spec

\* No accepted batch is lost, for any number of instances, in every behaviour
\* in which nothing cuts the old end of the spool under a flush in progress:
\* two instances' flushers, a push at spoolMaxBatches and the expiry of the
\* key are the only ways to lose one.
THEOREM NoLossWithoutRace == Spec /\ [][~RacedTrim]_vars => []NoAckedEventLost
<1>1. Durable => NoAckedEventLost
  BY DEF Durable
<1> QED BY <1>1, DurableInvariant, PTL

\* In the same behaviours a flush trims what it fetched: until it does, its
\* batches are the oldest in the spool, and those it counts are delivered.
THEOREM FlushTrimsItsOwn == Spec /\ [][~RacedTrim]_vars => []FlushSound
<1>1. Durable => FlushSound
  BY DEF Durable
<1> QED BY <1>1, DurableInvariant, PTL

(***************************************************************************)
(* Refinement.  Only accepted batches are held, fetched or given up, so a  *)
(* batch cannot be given up before it has a standing.                      *)
(***************************************************************************)
AckedOnly ==
    /\ \A k \in 1..Len(spool) : pc[spool[k]] = "acked"
    /\ \A i \in Instances : \A k \in 1..Len(items[i]) : pc[items[i][k]] = "acked"
    /\ \A b \in dropped : pc[b] = "acked"

\* An accepted batch stays accepted.
LEMMA AckedStays ==
    ASSUME TypeOK, [Next]_vars, NEW b \in Batches, pc[b] = "acked"
    PROVE  pc'[b] = "acked"
  BY RequestSteps

\* Every step keeps the spool, what a flush fetched and what was given up made
\* of accepted batches only: spoolEvents answers in the step that pushes.
LEMMA AckedOnlyStep ==
    ASSUME TypeOK, AckedOnly, [Next]_vars
    PROVE  AckedOnly'
<1>0. spool \in Seq(Batches) /\ Len(spool) \in Nat /\ TypeOK'
  BY TypeStep DEF TypeOK
<1>1. \A k \in 1..Len(spool') : pc'[spool'[k]] = "acked"
  <2>1. \A k \in 1..Len(spool) : pc'[spool[k]] = "acked"
    BY <1>0, AckedStays DEF AckedOnly
  <2>2. CASE spool' = spool
    BY <2>1, <2>2
  <2>3. ASSUME NEW b \in Batches, Push(b) PROVE \A k \in 1..Len(spool') : pc'[spool'[k]] = "acked"
    <3>0. pc'[b] = "acked"
      BY <2>3 DEF Push, TypeOK
    <3>1. CASE Len(spool) < SpoolMax
      <4>1. spool' = Append(spool, b)
        BY <2>3, <3>1, Zenon DEF Push
      <4> QED BY <1>0, <2>1, <3>0, <4>1
    <3>2. CASE ~(Len(spool) < SpoolMax)
      <4>1. spool' = Append(Tail(spool), b) /\ spool # <<>>
        BY <1>0, <2>3, <3>2, BoundAssumption DEF Push
      <4>2. \A k \in 1..Len(spool') : spool'[k] = b \/ (k + 1 \in 1..Len(spool) /\ spool'[k] = spool[k + 1])
        BY <1>0, <4>1
      <4> QED BY <2>1, <3>0, <4>2
    <3> QED BY <3>1, <3>2
  <2>4. ASSUME NEW i \in Instances, FlushTrim(i) PROVE \A k \in 1..Len(spool') : pc'[spool'[k]] = "acked"
    <3>1. spool' = SubSeq(spool, done[i] + 1, Len(spool)) /\ done[i] \in Nat
      BY <2>4 DEF FlushTrim, TypeOK
    <3>2. CASE done[i] < Len(spool)
      <4>0. /\ Len(spool') = Len(spool) - done[i]
            /\ \A k \in 1..(Len(spool) - done[i]) : spool'[k] = spool[k + done[i]]
        BY <1>0, <3>1, <3>2, AfterTrim
      <4>a. \A k \in 1..(Len(spool) - done[i]) : k + done[i] \in 1..Len(spool)
        BY <1>0, <3>1, <3>2
      <4>1. \A k \in 1..Len(spool') : k + done[i] \in 1..Len(spool) /\ spool'[k] = spool[k + done[i]]
        BY <4>0, <4>a
      <4> QED BY <2>1, <4>1
    <3>3. CASE ~(done[i] < Len(spool))
      <4>1. Len(spool') = 0
        BY <1>0, <3>1, <3>3
      <4> QED BY <4>1
    <3> QED BY <3>2, <3>3
  <2>5. CASE SpoolTTL
    BY <2>5 DEF SpoolTTL
  <2> QED BY <2>2, <2>3, <2>4, <2>5, SpoolSteps
<1>2. ASSUME NEW i \in Instances, NEW k \in 1..Len(items'[i]) PROVE pc'[items'[i][k]] = "acked"
  <2>1. CASE items'[i] = items[i]
    <3>1. items[i][k] \in Batches /\ pc[items[i][k]] = "acked"
      BY <1>2, <2>1 DEF TypeOK, AckedOnly
    <3> QED BY <2>1, <3>1, AckedStays
  <2>2. CASE FlushRange(i)
    <3> DEFINE m == IF Len(spool) < FlushBatches THEN Len(spool) ELSE FlushBatches
    <3>1. items'[i] = SubSeq(spool, 1, m) /\ m \in 0..Len(spool)
      BY <1>0, <2>2, BoundAssumption, SMTT(60) DEF FlushRange, TypeOK
    <3>2. k \in 1..Len(spool) /\ items'[i][k] = spool[k]
      BY <1>0, <3>1
    <3> QED BY <1>0, <3>2, AckedStays DEF AckedOnly
  <2>3. CASE items'[i] = <<>>
    BY <2>3
  <2>4. items'[i] = items[i] \/ FlushRange(i) \/ items'[i] = <<>>
    <3> USE DEF TypeOK, flushVars
    <3>1. CASE \E b \in Batches : Request(b)
      BY <3>1 DEF Request, Route, RouteUnavailable, RouteError, InsertOK, InsertFail, Push, PushFail
    <3>2. ASSUME NEW j \in Instances, Flush(j)
          PROVE  items'[i] = items[i] \/ FlushRange(i) \/ items'[i] = <<>>
      BY <3>2, SMTT(60) DEF Flush, FlushStart, FlushNone, FlushRange, FlushWrite, FlushUnreadable,
         FlushStop, FlushTrim, FlushTrimFail, FlushReturn
    <3>3. ASSUME NEW j \in Instances, Instance(j) PROVE items'[i] = items[i] \/ items'[i] = <<>>
      BY <3>3 DEF Instance, Save, RowTTL, RetryAfter, Crash, FlushReturn
    <3>4. CASE (\E d \in DBs : Flip(d)) \/ SpoolTTL \/ RotateKey \/ UNCHANGED vars
      BY <3>4 DEF Flip, SpoolTTL, RotateKey, vars
    <3> QED BY <3>1, <3>2, <3>3, <3>4 DEF Next
  <2> QED BY <2>1, <2>2, <2>3, <2>4
<1>3. ASSUME NEW b \in dropped' PROVE pc'[b] = "acked"
  <2>1. b \in dropped \/ b \in Held \/ \E i \in Instances : FlushUnreadable(i) /\ b = items[i][done[i] + 1]
    <3>1. CASE \E c \in Batches : Push(c)
      <4>1. PICK c \in Batches : Push(c)
        BY <3>1
      <4>2. dropped' = dropped \/ (~(Len(spool) < SpoolMax) /\ dropped' = dropped \cup {Head(spool)})
        BY <4>1, Zenon DEF Push
      <4>3. ~(Len(spool) < SpoolMax) => 1 \in 1..Len(spool) /\ Head(spool) = spool[1]
        BY <1>0, BoundAssumption
      <4> QED BY <4>2, <4>3 DEF Held
    <3>2. CASE SpoolTTL
      BY <3>2 DEF SpoolTTL
    <3>3. CASE \E i \in Instances : FlushUnreadable(i)
      BY <3>3 DEF FlushUnreadable
    <3>4. CASE dropped' = dropped
      BY <3>4
    <3> QED BY <3>1, <3>2, <3>3, <3>4, ZenonT(60) DEF Next, Request, Flush, Instance, Route,
              RouteUnavailable, RouteError, InsertOK, InsertFail, PushFail, FlushStart,
              FlushNone, FlushRange, FlushWrite, FlushStop, FlushTrim, FlushTrimFail, Save,
              RowTTL, RetryAfter, Crash, Flip, RotateKey, vars
  <2>2. ASSUME NEW i \in Instances, FlushUnreadable(i), b = items[i][done[i] + 1]
        PROVE  b \in Batches /\ pc[b] = "acked"
    <3>1. done[i] + 1 \in 1..Len(items[i]) /\ items[i] \in Seq(Batches)
      BY <2>2 DEF FlushUnreadable, TypeOK
    <3> QED BY <2>2, <3>1 DEF AckedOnly
  <2>3. b \in Batches /\ pc[b] = "acked"
    BY <1>0, <2>1, <2>2, ZenonT(60) DEF Held, AckedOnly, TypeOK
  <2> QED BY <2>3, AckedStays
<1> QED BY <1>1, <1>2, <1>3 DEF AckedOnly

\* A step changes a batch's standing as EventLedger allows, or not at all.
LEMMA StandingStep ==
    ASSUME Durable, AckedOnly, Durable', [Next]_vars, NEW b \in Batches
    PROVE  /\ Status(b)' \in Ledger!Standing
           /\ Status(b)' = Status(b) \/ <<Status(b), Status(b)'>> \in Ledger!Allowed
<1>0. /\ pc'[b] = "acked" => Content[b] \subseteq Kept' \/ b \in Held' \/ b \in dropped'
      /\ Kept \subseteq Kept' /\ dropped \subseteq dropped'
      /\ pc'[b] \in {"new", "insert", "spool", "acked", "refused", "gone"}
      /\ pc[b] \in {"new", "insert", "spool", "acked", "refused", "gone"}
  BY KeptGrows DEF Durable, NoAckedEventLost, TypeOK
<1>1. Status(b)' \in Ledger!Standing
  BY <1>0 DEF Status, Ledger!Standing
<1>2. CASE pc'[b] = pc[b]
  <2>1. pc[b] = "acked" => Content[b] \subseteq Kept \/ b \in Held \/ b \in dropped
    BY DEF Durable, NoAckedEventLost
  <2>2. b \in Held => b \in Held' \/ Content[b] \subseteq Kept' \/ b \in dropped'
    BY HeldStays
  <2> QED BY <1>0, <1>1, <1>2, <2>1, <2>2 DEF Status, Ledger!Allowed
<1>3. CASE pc[b] \in {"new", "insert", "spool"} /\ pc'[b] \in {"insert", "spool", "refused", "gone"}
  <2>1. Status(b) = "pending" /\ Status(b)' \in {"pending", "refused"}
    BY <1>3 DEF Status
  <2> QED BY <1>1, <2>1 DEF Ledger!Allowed
<1>4. CASE pc[b] = "insert" /\ InsertOK(b)
  <2>1. Status(b) = "pending" /\ pc'[b] = "acked" /\ Content[b] \subseteq Kept'
    BY <1>4, AcceptedSomewhere DEF Status, InsertOK, Durable, TypeOK
  <2> QED BY <2>1, <1>1 DEF Status, Ledger!Allowed
<1>5. CASE pc[b] = "spool" /\ Push(b)
  <2>1. pc'[b] = "acked" /\ b \in Held'
    BY <1>5, AcceptedSomewhere DEF Push, Durable, TypeOK
  <2>2. b \notin dropped'
    <3>1. b \notin dropped
      BY <1>5 DEF AckedOnly
    <3>2. dropped' = dropped \/ (~(Len(spool) < SpoolMax) /\ dropped' = dropped \cup {Head(spool)})
      BY <1>5, Zenon DEF Push
    <3>3. ~(Len(spool) < SpoolMax) => 1 \in 1..Len(spool) /\ Head(spool) = spool[1]
      BY BoundAssumption DEF Durable, TypeOK
    <3>4. ~(Len(spool) < SpoolMax) => Head(spool) # b
      BY <1>5, <3>3 DEF AckedOnly
    <3> QED BY <3>1, <3>2, <3>4
  <2> QED BY <1>1, <1>5, <2>1, <2>2 DEF Status, Ledger!Allowed
<1> QED BY <1>1, <1>2, <1>3, <1>4, <1>5, RequestSteps DEF Durable

\* Recording, holding and delivering implement EventLedger, for any number of
\* instances, in every behaviour without a raced trim.
THEOREM SpoolRefinesLedger == Spec /\ [][~RacedTrim]_vars => KeepsLedger
<1>1. Init => Durable /\ AckedOnly /\ Ledger!Init
  <2>1. ASSUME Init PROVE TypeOK
    BY <2>1, DestAssumption DEF Init, TypeOK, Entries, Blank, Dests
  <2> QED BY <2>1 DEF Init, Durable, NoAckedEventLost, FlushSound, AckedOnly, Ledger!Init, Status
<1>2. ASSUME Durable, AckedOnly, [Next]_vars, [~RacedTrim]_vars
      PROVE  Durable' /\ AckedOnly' /\ [Ledger!Next]_([b \in Batches |-> Status(b)])
  <2>1. CASE ~RacedTrim
    <3>1. Durable' /\ AckedOnly'
      BY <1>2, <2>1, DurableStep, AckedOnlyStep DEF Durable
    <3>2. Ledger!Next
      <4>1. ASSUME NEW b \in Batches
            PROVE  /\ Status(b)' \in Ledger!Standing
                   /\ Status(b)' = Status(b) \/ <<Status(b), Status(b)'>> \in Ledger!Allowed
        BY <1>2, <3>1, StandingStep
      <4> QED BY <4>1, Zenon DEF Ledger!Next
    <3> QED BY <3>1, <3>2
  <2>2. CASE UNCHANGED vars
    <3>1. TypeOK'
      BY <1>2, TypeStep DEF Durable
    <3>2. Held' = Held /\ Kept' = Kept
      BY <2>2 DEF Held, Kept, vars
    <3>3. NoAckedEventLost'
      BY <1>2, <2>2, <3>2 DEF Durable, NoAckedEventLost, vars, reqVars
    <3>4. FlushSound'
      BY <1>2, <2>2, <3>2 DEF Durable, FlushSound, vars, flushVars
    <3>5. \A b \in Batches : Status(b)' = Status(b)
      BY <2>2, <3>2 DEF Status, vars, reqVars
    <3>6. AckedOnly'
      BY <1>2, AckedOnlyStep DEF Durable
    <3> QED BY <3>1, <3>3, <3>4, <3>5, <3>6, Zenon DEF Durable
  <2> QED BY <1>2, <2>1, <2>2
<1> QED BY <1>1, <1>2, PTL DEF Spec, KeepsLedger, Ledger!Spec

(***************************************************************************)
(* One process.  A deployment with one admin-api process, a spool that is  *)
(* not filled and a key that does not expire has no raced trim: a batch is *)
(* pushed once, so the cap is not met before all of them are held.         *)
(***************************************************************************)
OneProcess ==
    /\ \A i, j \in Instances : i = j
    /\ IsFiniteSet(Batches) /\ Cardinality(Batches) <= SpoolMax
    /\ ~SpoolExpires

\* A batch is in the spool once: a request pushes once, a trim only removes.
HeldOnce == \A j, k \in 1..Len(spool) : spool[j] = spool[k] => j = k

\* A sequence without repetitions, cut at either end, has none.
LEMMA CutOnce ==
    ASSUME NEW S, NEW s \in Seq(S), \A j, k \in 1..Len(s) : s[j] = s[k] => j = k,
           NEW t \in Seq(S), NEW d \in Nat,
           \A k \in 1..Len(t) : k + d \in 1..Len(s) /\ t[k] = s[k + d]
    PROVE  \A j, k \in 1..Len(t) : t[j] = t[k] => j = k
<1> SUFFICES ASSUME NEW j \in 1..Len(t), NEW k \in 1..Len(t), t[j] = t[k] PROVE j = k
  OBVIOUS
<1>1. j + d = k + d
  OBVIOUS
<1> QED BY <1>1

\* Every step keeps a batch in the spool at most once.
LEMMA HeldOnceStep ==
    ASSUME TypeOK, AckedOnly, HeldOnce, [Next]_vars
    PROVE  HeldOnce'
<1>0. spool \in Seq(Batches) /\ Len(spool) \in Nat /\ spool' \in Seq(Batches)
  BY TypeStep DEF TypeOK
<1>1. CASE spool' = spool
  BY <1>1 DEF HeldOnce
<1>2. ASSUME NEW b \in Batches, Push(b) PROVE HeldOnce'
  <2>0. \A k \in 1..Len(spool) : spool[k] # b
    BY <1>2 DEF Push, AckedOnly
  <2>1. PICK t \in Seq(Batches), d \in {0, 1} :
          /\ spool' = Append(t, b)
          /\ \A k \in 1..Len(t) : k + d \in 1..Len(spool) /\ t[k] = spool[k + d]
    <3>1. CASE Len(spool) < SpoolMax
      <4>1. spool' = Append(spool, b)
        BY <1>2, <3>1, Zenon DEF Push
      <4>2. \A k \in 1..Len(spool) : k + 0 \in 1..Len(spool) /\ spool[k] = spool[k + 0]
        BY <1>0
      <4> QED BY <1>0, <4>1, <4>2
    <3>2. CASE ~(Len(spool) < SpoolMax)
      <4>1. spool' = Append(Tail(spool), b) /\ spool # <<>>
        BY <1>0, <1>2, <3>2, BoundAssumption DEF Push
      <4>2. /\ Tail(spool) \in Seq(Batches)
            /\ \A k \in 1..Len(Tail(spool)) : k + 1 \in 1..Len(spool) /\ Tail(spool)[k] = spool[k + 1]
        BY <1>0, <4>1
      <4> QED BY <4>1, <4>2
    <3> QED BY <3>1, <3>2
  <2>2. \A j, k \in 1..Len(t) : t[j] = t[k] => j = k
    BY <1>0, <2>1, CutOnce DEF HeldOnce
  <2>3. \A k \in 1..Len(t) : t[k] # b
    BY <2>0, <2>1
  <2>4. /\ Len(t) \in Nat /\ Len(spool') = Len(t) + 1 /\ spool'[Len(t) + 1] = b
        /\ \A k \in 1..Len(t) : spool'[k] = t[k]
    BY <2>1
  <2>5. \A k \in 1..Len(spool') : k \in 1..Len(t) \/ k = Len(t) + 1
    BY <2>4
  <2> QED BY <2>2, <2>3, <2>4, <2>5 DEF HeldOnce
<1>3. ASSUME NEW i \in Instances, FlushTrim(i) PROVE HeldOnce'
  <2>1. spool' = SubSeq(spool, done[i] + 1, Len(spool)) /\ done[i] \in Nat
    BY <1>3 DEF FlushTrim, TypeOK
  <2>2. CASE done[i] < Len(spool)
    <3>1. /\ Len(spool') = Len(spool) - done[i]
          /\ \A k \in 1..(Len(spool) - done[i]) : spool'[k] = spool[k + done[i]]
      BY <1>0, <2>1, <2>2, AfterTrim
    <3>2. \A k \in 1..(Len(spool) - done[i]) : k + done[i] \in 1..Len(spool)
      BY <1>0, <2>1, <2>2
    <3>3. \A k \in 1..Len(spool') : k + done[i] \in 1..Len(spool) /\ spool'[k] = spool[k + done[i]]
      BY <3>1, <3>2
    <3>4. \A j, k \in 1..Len(spool') : spool'[j] = spool'[k] => j = k
      <4>1. done[i] \in Nat
        BY <2>1
      <4>2. \A j, k \in 1..Len(spool) : spool[j] = spool[k] => j = k
        BY DEF HeldOnce
      <4> QED BY <1>0, <3>3, <4>1, <4>2, CutOnce
    <3> QED BY <3>4 DEF HeldOnce
  <2>3. CASE ~(done[i] < Len(spool))
    <3>1. Len(spool') = 0
      BY <1>0, <2>1, <2>3
    <3> QED BY <3>1 DEF HeldOnce
  <2> QED BY <2>2, <2>3
<1>4. CASE SpoolTTL
  BY <1>4 DEF SpoolTTL, HeldOnce
<1> QED BY <1>1, <1>2, <1>3, <1>4, SpoolSteps

\* A batch about to be pushed is not held yet, so there is room for it.
LEMMA RoomToPush ==
    ASSUME OneProcess, TypeOK, AckedOnly, HeldOnce, NEW b \in Batches, Push(b)
    PROVE  Len(spool) < SpoolMax
<1>0. spool \in Seq(Batches) /\ Len(spool) \in Nat
  BY DEF TypeOK
<1>1. \A k \in 1..Len(spool) : spool[k] \in Batches \ {b}
  BY <1>0 DEF Push, AckedOnly
<1>2. spool \in [1..Len(spool) -> Batches \ {b}]
  BY <1>0, <1>1
<1>3. spool \in Injection(1..Len(spool), Batches \ {b})
  BY <1>2 DEF Injection, IsInjective, HeldOnce
<1>4. /\ IsFiniteSet(Batches \ {b}) /\ Cardinality(Batches \ {b}) = Cardinality(Batches) - 1
      /\ Cardinality(Batches) \in Nat
  BY FS_RemoveElement, FS_CardinalityType DEF OneProcess
<1>5. Cardinality(1..Len(spool)) <= Cardinality(Batches \ {b})
  BY <1>3, <1>4, FS_Injection
<1>6. Cardinality(1..Len(spool)) = Len(spool)
  BY <1>0, FS_Interval
<1> QED BY <1>0, <1>4, <1>5, <1>6, BoundAssumption DEF OneProcess

\* With one process nothing cuts the old end under its flush.
LEMMA NoRace ==
    ASSUME OneProcess, TypeOK, AckedOnly, HeldOnce
    PROVE  ~RacedTrim
<1>1. \A i \in Instances : Instances \ {i} = {}
  BY DEF OneProcess
<1>2. \A b \in Batches : Push(b) => Len(spool) < SpoolMax
  BY RoomToPush
<1>3. ~SpoolTTL
  BY DEF OneProcess, SpoolTTL
<1> QED BY <1>1, <1>2, <1>3 DEF RacedTrim

\* So no behaviour of one process has a raced trim.
LEMMA OneProcessNeverRaces ==
    ASSUME OneProcess
    PROVE  Spec => [][~RacedTrim]_vars
<1>1. Init => TypeOK /\ AckedOnly /\ HeldOnce
  <2>1. ASSUME Init PROVE TypeOK
    BY <2>1, DestAssumption DEF Init, TypeOK, Entries, Blank, Dests
  <2> QED BY <2>1 DEF Init, AckedOnly, HeldOnce
<1>2. TypeOK /\ AckedOnly /\ HeldOnce /\ [Next]_vars => TypeOK' /\ AckedOnly' /\ HeldOnce'
  BY TypeStep, AckedOnlyStep, HeldOnceStep
<1>3. TypeOK /\ AckedOnly /\ HeldOnce => ~RacedTrim
  BY NoRace
<1> QED BY <1>1, <1>2, <1>3, PTL DEF Spec

\* One admin-api process that never holds more than the spool takes loses no
\* accepted batch, through outages, timeouts, failed trims, key rotations,
\* changed settings and crashes at any point.
THEOREM OneProcessLosesNothing ==
    ASSUME OneProcess
    PROVE  Spec => []NoAckedEventLost
BY OneProcessNeverRaces, NoLossWithoutRace, PTL

\* And it keeps the ledger: what is kept stays kept, what is held is delivered
\* or given up for a documented reason.
THEOREM OneProcessKeepsLedger ==
    ASSUME OneProcess
    PROVE  Spec => KeepsLedger
BY OneProcessNeverRaces, SpoolRefinesLedger, PTL

(***************************************************************************)
(* Residency: an event in Aavishield's database belongs to a request that  *)
(* was routed there, and a flush only ever writes to a company database.   *)
(***************************************************************************)
OwnRoute ==
    /\ \A b \in Batches :
          Content[b] \cap stored[Primary] # {} => dest[b] = Primary /\ pc[b] # "new"
    /\ \A i \in Instances : fpc[i] # "idle" => fdest[i] # Primary

\* Every step keeps each event in Aavishield's database one whose request was
\* routed there, and every flush on a company database.
LEMMA OwnRouteStep ==
    ASSUME TypeOK, OwnRoute, [Next]_vars
    PROVE  OwnRoute'
<1> USE DEF TypeOK, reqVars, flushVars
<1>1. ASSUME NEW b \in Batches, Request(b) PROVE OwnRoute'
  <2>1. CASE Route(b) \/ RouteUnavailable(b) \/ RouteError(b) \/ PushFail(b)
    BY <2>1 DEF Route, RouteUnavailable, RouteError, PushFail, OwnRoute
  <2>2. CASE Push(b)
    <3>1. UNCHANGED <<stored, dest, fpc, fdest>> /\ pc' = [pc EXCEPT ![b] = "acked"]
      BY <2>2 DEF Push
    <3> QED BY <3>1 DEF OwnRoute
  <2>3. ASSUME NEW X \in SUBSET Content[b], stored' = [stored EXCEPT ![dest[b]] = @ \cup X],
               NEW p \in {"acked", "refused", "spool"}, pc[b] = "insert", pc' = [pc EXCEPT ![b] = p],
               UNCHANGED <<dest, fpc, fdest>>
        PROVE  OwnRoute'
    <3>1. ASSUME NEW c \in Batches, Content[c] \cap stored'[Primary] # {}
          PROVE  dest'[c] = Primary /\ pc'[c] # "new"
      <4>1. CASE c = b
        BY <2>3, <3>1, <4>1 DEF OwnRoute, Dests
      <4>2. CASE c # b
        <5>1. Content[c] \cap stored[Primary] # {}
          BY <2>3, <3>1, <4>2, DisjointAssumption DEF Dests
        <5> QED BY <2>3, <4>2, <5>1 DEF OwnRoute
      <4> QED BY <4>1, <4>2
    <3> QED BY <2>3, <3>1 DEF OwnRoute
  <2>4. CASE InsertOK(b)
    BY <2>3, <2>4 DEF InsertOK
  <2>5. CASE InsertFail(b)
    BY <2>3, <2>5 DEF InsertFail
  <2> QED BY <1>1, <2>1, <2>2, <2>4, <2>5 DEF Request
<1>2. ASSUME NEW i \in Instances, Flush(i) PROVE OwnRoute'
  <2>1. CASE FlushStart(i) \/ FlushNone(i) \/ FlushRange(i) \/ FlushUnreadable(i)
    BY <2>1, ZenonT(60) DEF FlushStart, FlushNone, FlushRange, FlushUnreadable, OwnRoute
  <2>2. CASE FlushTrim(i) \/ FlushTrimFail(i)
    BY <2>2, ZenonT(60) DEF FlushTrim, FlushTrimFail, FlushReturn, OwnRoute
  <2>3. ASSUME NEW X, stored' = [stored EXCEPT ![fdest[i]] = @ \cup X], fpc[i] = "deliver"
        PROVE  stored'[Primary] = stored[Primary]
    BY <2>3 DEF OwnRoute, Dests
  <2>4. CASE FlushWrite(i)
    BY <2>3, <2>4 DEF FlushWrite, OwnRoute
  <2>5. CASE FlushStop(i)
    BY <2>3, <2>5 DEF FlushStop, OwnRoute
  <2> QED BY <1>2, <2>1, <2>2, <2>4, <2>5 DEF Flush
<1>3. ASSUME NEW i \in Instances, Instance(i) PROVE OwnRoute'
  <2>1. CASE Crash(i)
    <3>1. /\ stored' = stored /\ dest' = dest
          /\ \A b \in Batches : pc[b] # "new" => pc'[b] # "new"
      BY <2>1 DEF Crash
    <3>2. /\ \A j \in Instances : fpc'[j] # "idle" => fpc[j] # "idle" /\ fdest'[j] = fdest[j]
      BY <2>1 DEF Crash, FlushReturn
    <3> QED BY <3>1, <3>2 DEF OwnRoute
  <2> QED BY <1>3, <2>1 DEF Instance, Save, RowTTL, RetryAfter, OwnRoute
<1>4. CASE (\E d \in DBs : Flip(d)) \/ SpoolTTL \/ RotateKey \/ UNCHANGED vars
  BY <1>4 DEF Flip, SpoolTTL, RotateKey, vars, OwnRoute
<1> QED BY <1>1, <1>2, <1>3, <1>4 DEF Next

\* A batch routed to a company database never reaches Aavishield's own, in any
\* behaviour: raced trims lose batches, they do not redirect them.
THEOREM NeverRedirected == Spec => []NotRedirected
<1>1. Init => TypeOK /\ OwnRoute
  <2>1. ASSUME Init PROVE TypeOK
    BY <2>1, DestAssumption DEF Init, TypeOK, Entries, Blank, Dests
  <2> QED BY <2>1 DEF Init, OwnRoute, Dests
<1>2. OwnRoute => NotRedirected
  BY DEF OwnRoute, NotRedirected
<1> QED BY <1>1, <1>2, TypeStep, OwnRouteStep, PTL DEF Spec
=============================================================================
