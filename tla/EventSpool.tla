------------------------------ MODULE EventSpool ------------------------------
(***************************************************************************)
(* Recording an organization's activity events and, while its own database *)
(* cannot be reached, holding them in the Redis spool and delivering them  *)
(* later: dataplane.RecordEvents, spoolEvents and flushOrg, with as much   *)
(* of manager.resolve and guardedStore as decides where a batch goes.      *)
(*                                                                         *)
(* One organization.  A batch is the events of one RecordEvents call, an   *)
(* event is its server-assigned ID.  The Redis list is kept oldest first:  *)
(* LPUSH at the head is Append here, and the list's tail is position 1.    *)
(***************************************************************************)
EXTENDS Integers, Sequences

CONSTANTS
    Batches,        \* the calls of RecordEvents
    Events,         \* IDs of activity events
    Content,        \* the events of each batch
    Instances,      \* admin-api processes; each runs StartSpoolFlusher
    DBs,            \* company databases the organization may connect
    Poison,         \* batches a company database refuses with a query error
    SpoolMax,       \* spoolMaxBatches
    FlushBatches,   \* flushBatches
    SpoolExpires,   \* whether the run is long enough for spoolTTL to pass
    Primary,        \* Aavishield's own database
    NoEntry         \* an instance that has not loaded the organization's row

ASSUME ContentAssumption == Content \in [Batches -> SUBSET Events]
ASSUME DisjointAssumption ==
    \A a, b \in Batches : a # b => Content[a] \cap Content[b] = {}
ASSUME DestAssumption == Primary \notin DBs /\ NoEntry \notin DBs \cup {Primary}
ASSUME BoundAssumption == SpoolMax \in Nat \ {0} /\ FlushBatches \in Nat \ {0}
ASSUME PoisonAssumption == Poison \subseteq Batches /\ SpoolExpires \in BOOLEAN

VARIABLES
    row,        \* the database org_data_residency names now
    entry,      \* per instance: the cached row, whether it is trusted, the breaker
    up,         \* which company databases answer
    stored,     \* the events in each database
    spool,      \* held batches, oldest first
    unreadable, \* batches sealed under a key since rotated
    pc, at, dest,               \* per batch: the request recording it
    fpc, fdest, items, done,    \* per instance: its flusher
    dropped     \* batches given up on purpose: past the cap, expired, unreadable

reqVars == <<pc, at, dest>>
flushVars == <<fpc, fdest, items, done>>
vars == <<row, entry, up, stored, spool, unreadable, reqVars, flushVars, dropped>>

Dests == DBs \cup {Primary}
Entries == {e \in [dest : Dests \cup {NoEntry}, fresh : BOOLEAN, brk : BOOLEAN] :
               e.fresh => e.dest # NoEntry}
Blank == [dest |-> NoEntry, fresh |-> FALSE, brk |-> FALSE]
Held == {spool[k] : k \in 1..Len(spool)}
Kept == UNION {stored[d] : d \in Dests}

TypeOK ==
    /\ row \in Dests
    /\ entry \in [Instances -> Entries]
    /\ up \in [DBs -> BOOLEAN]
    /\ stored \in [Dests -> SUBSET Events]
    /\ spool \in Seq(Batches)
    /\ unreadable \subseteq Batches
    /\ pc \in [Batches -> {"new", "insert", "spool", "acked", "refused", "gone"}]
    /\ at \in [Batches -> Instances]
    /\ dest \in [Batches -> Dests]
    /\ fpc \in [Instances -> {"idle", "range", "deliver", "trim"}]
    /\ fdest \in [Instances -> Dests]
    /\ items \in [Instances -> Seq(Batches)]
    /\ done \in [Instances -> Nat]
    /\ dropped \subseteq Batches

Init ==
    /\ row \in Dests
    /\ entry = [i \in Instances |-> Blank]
    /\ up = [d \in DBs |-> TRUE]
    /\ stored = [d \in Dests |-> {}]
    /\ spool = <<>>
    /\ unreadable = {}
    /\ pc = [b \in Batches |-> "new"]
    /\ at \in [Batches -> Instances]
    /\ dest = [b \in Batches |-> Primary]
    /\ fpc = [i \in Instances |-> "idle"]
    /\ fdest = [i \in Instances |-> Primary]
    /\ items = [i \in Instances |-> <<>>]
    /\ done = [i \in Instances |-> 0]
    /\ dropped = {}

(***************************************************************************)
(* manager.entry and manager.resolve                                       *)
(***************************************************************************)

\* What the entry of instance i can be after manager.entry: the cached one
\* while it is trusted; else the row just read, or the last known one when
\* the row cannot be read.  The breaker belongs to a connection, so a row
\* naming another database starts with it closed.
Loaded(i) ==
    IF entry[i].fresh
    THEN {entry[i]}
    ELSE {[dest |-> row, fresh |-> TRUE, brk |-> entry[i].brk /\ entry[i].dest = row]}
         \cup (IF entry[i].dest = NoEntry THEN {} ELSE {entry[i]})

\* resolve found a database to write to.
Reaches(e) == e.dest = Primary \/ ~e.brk

\* guardedStore.check: a connectivity failure opens the breaker of the
\* current connection.
Trip(i, d) == [entry EXCEPT ![i].brk = @ \/ entry[i].dest = d]

(***************************************************************************)
(* RecordEvents                                                            *)
(***************************************************************************)

\* resolve succeeded: the insert is next.
Route(b) ==
    /\ pc[b] = "new"
    /\ \E e \in Loaded(at[b]) :
          /\ Reaches(e)
          /\ entry' = [entry EXCEPT ![at[b]] = e]
          /\ dest' = [dest EXCEPT ![b] = e.dest]
    /\ pc' = [pc EXCEPT ![b] = "insert"]
    /\ UNCHANGED <<row, up, stored, spool, unreadable, at, flushVars, dropped>>

\* resolve failed on a company database, by its breaker or by a connection
\* that could not be opened: the events go to the spool.
RouteUnavailable(b) ==
    /\ pc[b] = "new"
    /\ \E e \in Loaded(at[b]) :
          /\ e.dest # Primary
          /\ entry' = [entry EXCEPT ![at[b]] = [e EXCEPT !.brk = TRUE]]
          /\ dest' = [dest EXCEPT ![b] = e.dest]
    /\ pc' = [pc EXCEPT ![b] = "spool"]
    /\ UNCHANGED <<row, up, stored, spool, unreadable, at, flushVars, dropped>>

\* The row could not be read and none is cached: the caller gets the error.
RouteError(b) ==
    /\ pc[b] = "new"
    /\ entry[at[b]].dest = NoEntry
    /\ pc' = [pc EXCEPT ![b] = "refused"]
    /\ UNCHANGED <<row, entry, up, stored, spool, unreadable, at, dest, flushVars, dropped>>

\* A write of batch b to database d can succeed.
Writable(b, d) == d \in DBs => up[d] /\ b \notin Poison

InsertOK(b) ==
    /\ pc[b] = "insert"
    /\ Writable(b, dest[b])
    /\ stored' = [stored EXCEPT ![dest[b]] = @ \cup Content[b]]
    /\ pc' = [pc EXCEPT ![b] = "acked"]
    /\ UNCHANGED <<row, entry, up, spool, unreadable, at, dest, flushVars, dropped>>

\* The insert reports an error.  A timeout may leave any part of the batch
\* written; an unreachable database and a refused batch leave none.
InsertFail(b) ==
    /\ pc[b] = "insert"
    /\ \E part \in SUBSET Content[b] :
          /\ part # {} => Writable(b, dest[b])
          /\ stored' = [stored EXCEPT ![dest[b]] = @ \cup part]
    /\ entry' = IF dest[b] # Primary /\ (b \notin Poison \/ ~up[dest[b]])
                THEN Trip(at[b], dest[b]) ELSE entry
    /\ pc' = [pc EXCEPT ![b] = IF dest[b] = Primary THEN "refused" ELSE "spool"]
    /\ UNCHANGED <<row, up, spool, unreadable, at, dest, flushVars, dropped>>

(***************************************************************************)
(* spoolEvents                                                             *)
(***************************************************************************)

\* LPUSH; LTRIM 0 spoolMaxBatches-1; EXPIRE, in one transaction.  Past the
\* cap the oldest batch goes.
Push(b) ==
    /\ pc[b] = "spool"
    /\ IF Len(spool) < SpoolMax
       THEN /\ spool' = Append(spool, b)
            /\ dropped' = dropped
       ELSE /\ spool' = Append(Tail(spool), b)
            /\ dropped' = dropped \cup {Head(spool)}
    /\ pc' = [pc EXCEPT ![b] = "acked"]
    /\ UNCHANGED <<row, entry, up, stored, unreadable, at, dest, flushVars>>

\* Mutant: a spool that could not take the batch is not noticed.
PushFailUnnoticed(b) ==
    /\ pc[b] = "spool"
    /\ pc' = [pc EXCEPT ![b] = "acked"]
    /\ UNCHANGED <<row, entry, up, stored, spool, unreadable, at, dest, flushVars, dropped>>

\* Redis did not take it (or the batch could not be sealed).
PushFail(b) ==
    /\ pc[b] = "spool"
    /\ pc' = [pc EXCEPT ![b] = "refused"]
    /\ UNCHANGED <<row, entry, up, stored, spool, unreadable, at, dest, flushVars, dropped>>

(***************************************************************************)
(* flushOrg                                                                *)
(***************************************************************************)

\* Mutant: deliver to whatever resolve returns, tenant or not.
FlushStartAnywhere(i) ==
    /\ fpc[i] = "idle" /\ spool # <<>>
    /\ \E e \in Loaded(i) :
          /\ Reaches(e)
          /\ entry' = [entry EXCEPT ![i] = e]
          /\ fdest' = [fdest EXCEPT ![i] = e.dest]
    /\ fpc' = [fpc EXCEPT ![i] = "range"]
    /\ UNCHANGED <<row, up, stored, spool, unreadable, reqVars, items, done, dropped>>

\* The scan found the organization's key and resolve a company database.
FlushStart(i) ==
    /\ fpc[i] = "idle" /\ spool # <<>>
    /\ \E e \in Loaded(i) :
          /\ e.dest # Primary /\ ~e.brk
          /\ entry' = [entry EXCEPT ![i] = e]
          /\ fdest' = [fdest EXCEPT ![i] = e.dest]
    /\ fpc' = [fpc EXCEPT ![i] = "range"]
    /\ UNCHANGED <<row, up, stored, spool, unreadable, reqVars, items, done, dropped>>

\* resolve failed, or data residency is off: nothing is delivered.
FlushNone(i) ==
    /\ fpc[i] = "idle" /\ spool # <<>>
    /\ \E e \in Loaded(i) :
          entry' = [entry EXCEPT ![i] = IF e.dest = Primary THEN e ELSE [e EXCEPT !.brk = TRUE]]
    /\ UNCHANGED <<row, up, stored, spool, unreadable, reqVars, flushVars, dropped>>

\* LRANGE of the oldest flushBatches.
FlushRange(i) ==
    /\ fpc[i] = "range"
    /\ items' = [items EXCEPT ![i] =
          SubSeq(spool, 1, IF Len(spool) < FlushBatches THEN Len(spool) ELSE FlushBatches)]
    /\ done' = [done EXCEPT ![i] = 0]
    /\ fpc' = [fpc EXCEPT ![i] = "deliver"]
    /\ UNCHANGED <<row, entry, up, stored, spool, unreadable, reqVars, fdest, dropped>>

\* The next batch is written; what an earlier attempt wrote is skipped.
FlushWrite(i) ==
    /\ fpc[i] = "deliver" /\ done[i] < Len(items[i])
    /\ LET b == items[i][done[i] + 1] IN
          /\ b \notin unreadable
          /\ Writable(b, fdest[i])
          /\ stored' = [stored EXCEPT ![fdest[i]] = @ \cup Content[b]]
    /\ done' = [done EXCEPT ![i] = @ + 1]
    /\ UNCHANGED <<row, entry, up, spool, unreadable, reqVars, fpc, fdest, items, dropped>>

\* A batch that cannot be opened or parsed counts as delivered.
FlushUnreadable(i) ==
    /\ fpc[i] = "deliver" /\ done[i] < Len(items[i])
    /\ items[i][done[i] + 1] \in unreadable
    /\ dropped' = dropped \cup {items[i][done[i] + 1]}
    /\ done' = [done EXCEPT ![i] = @ + 1]
    /\ UNCHANGED <<row, entry, up, stored, spool, unreadable, reqVars, fpc, fdest, items>>

\* Mutant: the batch is counted before it is written.
FlushStopCounted(i) ==
    /\ fpc[i] = "deliver" /\ done[i] < Len(items[i])
    /\ items[i][done[i] + 1] \notin unreadable
    /\ done' = [done EXCEPT ![i] = @ + 1]
    /\ entry' = Trip(i, fdest[i])
    /\ fpc' = [fpc EXCEPT ![i] = "trim"]
    /\ UNCHANGED <<row, up, stored, spool, unreadable, reqVars, fdest, items, dropped>>

\* The write fails, perhaps part-way: this batch and the rest stay.
FlushStop(i) ==
    /\ fpc[i] = "deliver" /\ done[i] < Len(items[i])
    /\ LET b == items[i][done[i] + 1] IN
          /\ b \notin unreadable
          /\ \E part \in SUBSET Content[b] :
                /\ part # {} => Writable(b, fdest[i])
                /\ stored' = [stored EXCEPT ![fdest[i]] = @ \cup part]
          /\ entry' = IF b \notin Poison \/ ~up[fdest[i]]
                      THEN Trip(i, fdest[i]) ELSE entry
    /\ fpc' = [fpc EXCEPT ![i] = "trim"]
    /\ UNCHANGED <<row, up, spool, unreadable, reqVars, fdest, items, done, dropped>>

\* flushOrg returns: its locals are gone.
FlushReturn(i) ==
    /\ fpc' = [fpc EXCEPT ![i] = "idle"]
    /\ fdest' = [fdest EXCEPT ![i] = Primary]
    /\ items' = [items EXCEPT ![i] = <<>>]
    /\ done' = [done EXCEPT ![i] = 0]

\* Mutants: all that was fetched is trimmed; one batch too few is trimmed.
FlushTrimAll(i) ==
    /\ fpc[i] = "trim" \/ (fpc[i] = "deliver" /\ done[i] = Len(items[i]))
    /\ spool' = SubSeq(spool, Len(items[i]) + 1, Len(spool))
    /\ FlushReturn(i)
    /\ UNCHANGED <<row, entry, up, stored, unreadable, reqVars, dropped>>

FlushTrimShort(i) ==
    /\ fpc[i] = "trim" \/ (fpc[i] = "deliver" /\ done[i] = Len(items[i]))
    /\ spool' = IF done[i] = 0 THEN spool ELSE SubSeq(spool, done[i], Len(spool))
    /\ FlushReturn(i)
    /\ UNCHANGED <<row, entry, up, stored, unreadable, reqVars, dropped>>

\* LTRIM 0 -delivered-1: as many batches as were delivered leave the old end.
FlushTrim(i) ==
    /\ fpc[i] = "trim" \/ (fpc[i] = "deliver" /\ done[i] = Len(items[i]))
    /\ spool' = SubSeq(spool, done[i] + 1, Len(spool))
    /\ FlushReturn(i)
    /\ UNCHANGED <<row, entry, up, stored, unreadable, reqVars, dropped>>

\* The trim itself fails: everything stays, to be delivered again.
FlushTrimFail(i) ==
    /\ fpc[i] = "trim" \/ (fpc[i] = "deliver" /\ done[i] = Len(items[i]))
    /\ done[i] > 0
    /\ FlushReturn(i)
    /\ UNCHANGED <<row, entry, up, stored, spool, unreadable, reqVars, dropped>>

(***************************************************************************)
(* Settings, time and failures                                             *)
(***************************************************************************)

\* Mutant: Invalidate renews the entry instead of expiring it.
SaveRenewing(i, d) ==
    /\ row' = d
    /\ entry' = [entry EXCEPT ![i].fresh = TRUE, ![i].brk = FALSE]
    /\ UNCHANGED <<up, stored, spool, unreadable, reqVars, flushVars, dropped>>

\* A settings handler on instance i saves the row and invalidates its entry.
Save(i, d) ==
    /\ row' = d
    /\ entry' = [entry EXCEPT ![i].fresh = FALSE, ![i].brk = FALSE]
    /\ UNCHANGED <<up, stored, spool, unreadable, reqVars, flushVars, dropped>>

\* rowTTL passes on instance i.
RowTTL(i) ==
    /\ entry[i].fresh
    /\ entry' = [entry EXCEPT ![i].fresh = FALSE]
    /\ UNCHANGED <<row, up, stored, spool, unreadable, reqVars, flushVars, dropped>>

\* retryAfter passes, or a health check clears the breaker.
RetryAfter(i) ==
    /\ entry[i].brk
    /\ entry' = [entry EXCEPT ![i].brk = FALSE]
    /\ UNCHANGED <<row, up, stored, spool, unreadable, reqVars, flushVars, dropped>>

\* spoolTTL passes: Redis removes the key.
SpoolTTL ==
    /\ SpoolExpires /\ spool # <<>>
    /\ spool' = <<>>
    /\ dropped' = dropped \cup Held
    /\ UNCHANGED <<row, entry, up, stored, unreadable, reqVars, flushVars>>

\* CA_KEY_ENCRYPTION_KEY is replaced: what is sealed cannot be opened.
RotateKey ==
    /\ Held \ unreadable # {}
    /\ unreadable' = unreadable \cup Held
    /\ UNCHANGED <<row, entry, up, stored, spool, reqVars, flushVars, dropped>>

\* A company database stops or starts answering.
Flip(d) ==
    /\ up' = [up EXCEPT ![d] = ~@]
    /\ UNCHANGED <<row, entry, stored, spool, unreadable, reqVars, flushVars, dropped>>

\* The process of instance i dies and starts again: its cache, its requests
\* and its flusher's place are gone.
Crash(i) ==
    /\ entry' = [entry EXCEPT ![i] = Blank]
    /\ pc' = [b \in Batches |-> IF at[b] = i /\ pc[b] \in {"insert", "spool"}
                                THEN "gone" ELSE pc[b]]
    /\ FlushReturn(i)
    /\ UNCHANGED <<row, up, stored, spool, unreadable, at, dest, dropped>>

Request(b) ==
    \/ Route(b) \/ RouteUnavailable(b) \/ RouteError(b)
    \/ InsertOK(b) \/ InsertFail(b) \/ Push(b) \/ PushFail(b)

Flush(i) ==
    \/ FlushStart(i) \/ FlushNone(i) \/ FlushRange(i) \/ FlushWrite(i)
    \/ FlushUnreadable(i) \/ FlushStop(i) \/ FlushTrim(i) \/ FlushTrimFail(i)

Instance(i) ==
    \/ \E d \in Dests : Save(i, d)
    \/ RowTTL(i) \/ RetryAfter(i) \/ Crash(i)

Next ==
    \/ \E b \in Batches : Request(b)
    \/ \E i \in Instances : Flush(i) \/ Instance(i)
    \/ \E d \in DBs : Flip(d)
    \/ SpoolTTL
    \/ RotateKey

Spec == Init /\ [][Next]_vars

(***************************************************************************)
(* Fairness.  The flusher is a ticker loop, so a flush that can go on does; *)
(* timers fire; and a database that answers, a row that can be read and a  *)
(* Redis that is up do not fail every single time they are tried.          *)
(***************************************************************************)
Fairness ==
    \A i \in Instances :
        /\ WF_vars(RowTTL(i)) /\ WF_vars(RetryAfter(i))
        /\ SF_vars(FlushStart(i) /\ entry'[i].fresh)
        /\ WF_vars(FlushRange(i)) /\ WF_vars(FlushWrite(i) \/ FlushUnreadable(i) \/ FlushStop(i))
        /\ SF_vars(FlushWrite(i)) /\ WF_vars(FlushTrim(i))
        /\ SF_vars(FlushTrim(i) /\ done[i] > 0)

FairSpec == Spec /\ Fairness

(***************************************************************************)
(* Properties                                                              *)
(***************************************************************************)

\* An accepted batch is never lost: once RecordEvents has answered success
\* (the agent does not send it again), its events are in a database, or the
\* batch is held, or it was given up for a documented reason.
NoAckedEventLost ==
    \A b \in Batches :
        pc[b] = "acked" => Content[b] \subseteq Kept \/ b \in Held \/ b \in dropped

\* Data is not redirected: a batch that resolve routed to a company database
\* never reaches Aavishield's own, not through an outage, the spool, a
\* switched-off data residency or a restart.
NotRedirected ==
    \A b \in Batches : dest[b] # Primary => Content[b] \cap stored[Primary] = {}

\* A flush knows what it may trim: until it trims, the batches it fetched are
\* the oldest in the spool, and those it counts as delivered are written or
\* given up.
FlushSound ==
    \A i \in Instances : fpc[i] \in {"deliver", "trim"} =>
        /\ done[i] <= Len(items[i]) /\ Len(items[i]) <= Len(spool)
        /\ \A k \in 1..Len(items[i]) : items[i][k] = spool[k]
        /\ \A k \in 1..done[i] : Content[items[i][k]] \subseteq Kept \/ items[i][k] \in dropped

\* The standing of a batch, and the promise kept: recording, holding and
\* delivering implement EventLedger.
Status(b) ==
    IF pc[b] \in {"new", "insert", "spool"} THEN "pending"
    ELSE IF pc[b] \in {"refused", "gone"} THEN "refused"
    ELSE IF Content[b] \subseteq Kept THEN "kept"
    ELSE IF b \in dropped THEN "dropped"
    ELSE IF b \in Held THEN "held"
    ELSE "lost"

Ledger == INSTANCE EventLedger WITH status <- [b \in Batches |-> Status(b)]

KeepsLedger == Ledger!Spec

\* What is held is delivered: once an organization's database stays connected
\* and answers, and none of the held batches is one it refuses, every held
\* batch leaves the spool.
HeldIsDelivered ==
    \A d \in DBs :
        /\ <>[](row = d /\ up[d] /\ Held \cap Poison = {})
        /\ <>[][\A i \in Instances : ~Crash(i)]_vars
        => \A b \in Batches : b \in Held ~> b \notin Held
=============================================================================
