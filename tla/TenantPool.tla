------------------------------ MODULE TenantPool ------------------------------
(***************************************************************************)
(* The cache of company-database connections in one admin-api process:     *)
(* manager.entry, manager.resolve, Invalidate, closeEntry and              *)
(* guardedStore.check (manager.go, guard.go), with requests that interleave *)
(* at every point where the manager's mutex is not held.                   *)
(*                                                                         *)
(* One organization.  Entries and connections are objects: an entry that   *)
(* was replaced is still used by the requests that hold it.                *)
(***************************************************************************)
EXTENDS Integers, FiniteSets

CONSTANTS
    Threads,        \* requests running side by side
    Configs,        \* sealed database configurations
    EntryIds,       \* entry objects
    StoreIds,       \* connection objects
    MaxSaves,       \* bound on settings changes
    None            \* nil

ASSUME NoneAssumption == None \notin EntryIds \cup StoreIds \cup Configs
ASSUME PoolAssumption == MaxSaves \in Nat

VARIABLES
    row,        \* the org_data_residency row: what is configured, is it on
    saves,      \* settings changes so far
    switched,   \* one of them named another database
    settled,    \* the last change whose Invalidate found nobody about to install
                \* a row read earlier
    saving,     \* a change saved but not yet followed by Invalidate
    cur,        \* m.entries[orgID]
    ent,        \* the entry objects
    conn,       \* the connection objects: their configuration and state
    running,    \* history: the requests that were running when the close of a
                \* connection was scheduled, and still are
    pc, seen, read, mine, got, since    \* the locals of each request

threadVars == <<pc, seen, read, mine, got, since>>
vars == <<row, saves, switched, settled, saving, cur, ent, conn, running, threadVars>>

Rows == [sealed : Configs, active : BOOLEAN, ver : 0..MaxSaves]
Entries == [row : Rows \cup {None}, fresh : BOOLEAN, sealed : Configs \cup {None},
            store : StoreIds \cup {None}, err : BOOLEAN]
Conns == [sealed : Configs \cup {None}, state : {"open", "closing", "closed"}]
Holding == {"check", "open", "attach", "using"}
EmptyEntry == [row |-> None, fresh |-> FALSE, sealed |-> None, store |-> None, err |-> FALSE]
Closed == [sealed |-> None, state |-> "closed"]

TypeOK ==
    /\ row \in Rows /\ saves \in 0..MaxSaves /\ settled \in 0..MaxSaves
    /\ saving \in BOOLEAN /\ switched \in BOOLEAN
    /\ cur \in EntryIds \cup {None}
    /\ ent \in [EntryIds -> Entries]
    /\ conn \in [StoreIds -> Conns]
    /\ running \in [StoreIds -> SUBSET Threads]
    /\ pc \in [Threads -> {"idle", "read", "install", "check", "open", "attach", "using"}]
    /\ seen \in [Threads -> EntryIds \cup {None}]
    /\ mine \in [Threads -> EntryIds \cup {None}]
    /\ read \in [Threads -> Rows \cup {None}]
    /\ got \in [Threads -> StoreIds \cup {None}]
    /\ since \in [Threads -> 0..MaxSaves]
    /\ \A t \in Threads : pc[t] \in Holding => mine[t] # None
    /\ \A t \in Threads : pc[t] = "attach" => got[t] # None

Init ==
    /\ row \in {r \in Rows : r.active /\ r.ver = 0}
    /\ saves = 0 /\ settled = 0 /\ saving = FALSE /\ switched = FALSE
    /\ cur = None
    /\ ent = [e \in EntryIds |-> EmptyEntry]
    /\ conn = [s \in StoreIds |-> Closed]
    /\ running = [s \in StoreIds |-> {}]
    /\ pc = [t \in Threads |-> "idle"]
    /\ seen = [t \in Threads |-> None] /\ mine = [t \in Threads |-> None]
    /\ read = [t \in Threads |-> None] /\ got = [t \in Threads |-> None]
    /\ since = [t \in Threads |-> 0]

Busy == {t \in Threads : pc[t] # "idle"}

\* closeEntry: the connection is to be closed in closeGrace.
Close(s, c) == [c EXCEPT ![s].state = "closing"]

\* Entry and connection objects nobody refers to any more are reused.
FreeEntry(e) == e # cur /\ \A t \in Threads : e # seen[t] /\ e # mine[t]
FreeConn(s) ==
    /\ conn[s].state = "closed"
    /\ \A t \in Threads : got[t] # s
    /\ \A e \in EntryIds : ~FreeEntry(e) => ent[e].store # s

(***************************************************************************)
(* manager.entry                                                           *)
(***************************************************************************)

\* A request starts: a fresh entry is used as it is, else the row is re-read.
Begin(t) ==
    /\ pc[t] = "idle"
    /\ since' = [since EXCEPT ![t] = settled]
    /\ IF cur # None /\ ent[cur].fresh
       THEN /\ mine' = [mine EXCEPT ![t] = cur]
            /\ pc' = [pc EXCEPT ![t] = "check"]
            /\ seen' = seen
       ELSE /\ seen' = [seen EXCEPT ![t] = cur]
            /\ pc' = [pc EXCEPT ![t] = "read"]
            /\ mine' = mine
    /\ UNCHANGED <<row, saves, switched, settled, saving, cur, ent, conn, running, read, got>>

ReadRow(t) ==
    /\ pc[t] = "read"
    /\ read' = [read EXCEPT ![t] = row]
    /\ pc' = [pc EXCEPT ![t] = "install"]
    /\ UNCHANGED <<row, saves, switched, settled, saving, cur, ent, conn, running, seen, mine, got, since>>

Finish(t) ==
    /\ pc' = [pc EXCEPT ![t] = "idle"]
    /\ seen' = [seen EXCEPT ![t] = None] /\ mine' = [mine EXCEPT ![t] = None]
    /\ read' = [read EXCEPT ![t] = None] /\ got' = [got EXCEPT ![t] = None]
    /\ since' = [since EXCEPT ![t] = 0]

\* Mutant: the cached entry is returned without looking whether there is one.
ReadFailUnchecked(t) ==
    /\ pc[t] = "read"
    /\ mine' = [mine EXCEPT ![t] = seen[t]]
    /\ seen' = [seen EXCEPT ![t] = None]
    /\ pc' = [pc EXCEPT ![t] = "check"]
    /\ UNCHANGED <<row, saves, switched, settled, saving, cur, ent, conn, running, read, got, since>>

\* The row cannot be read: the last known entry serves, if there is one.
ReadFail(t) ==
    /\ pc[t] = "read"
    /\ IF seen[t] # None
       THEN /\ mine' = [mine EXCEPT ![t] = seen[t]]
            /\ seen' = [seen EXCEPT ![t] = None]
            /\ pc' = [pc EXCEPT ![t] = "check"]
            /\ since' = [since EXCEPT ![t] = 0]
            /\ UNCHANGED <<read, got, running>>
       ELSE /\ Finish(t)
            /\ running' = [s \in StoreIds |-> running[s] \ {t}]
    /\ UNCHANGED <<row, saves, switched, settled, saving, cur, ent, conn>>

\* The connection of the current entry is kept for a row of the same
\* configuration, with its breaker.
Keeps(r) == cur # None /\ r.active /\ ent[cur].sealed = r.sealed

\* Mutant: the old entry is not made to forget a connection that is kept.
ReleasesKept(r) == IF cur = None THEN None ELSE ent[cur].store

\* The connection the replaced entry is left with.
Releases(r) == IF cur = None \/ Keeps(r) THEN None ELSE ent[cur].store

\* A new entry takes the current one's place; a connection it does not keep
\* is closed.
Install(t) ==
    /\ pc[t] = "install"
    /\ \E e \in EntryIds :
          /\ FreeEntry(e)
          /\ LET r == read[t]
                 new == IF Keeps(r)
                        THEN [ent[cur] EXCEPT !.row = r, !.fresh = TRUE]
                        ELSE [EmptyEntry EXCEPT !.row = r, !.fresh = TRUE]
             IN /\ ent' = IF cur = None THEN [ent EXCEPT ![e] = new]
                          ELSE [ent EXCEPT ![e] = new, ![cur].store = Releases(r)]
                /\ IF Releases(r) = None
                   THEN UNCHANGED <<conn, running>>
                   ELSE /\ conn' = Close(Releases(r), conn)
                        /\ running' = [running EXCEPT ![Releases(r)] = Busy]
          /\ cur' = e
          /\ mine' = [mine EXCEPT ![t] = e]
    /\ seen' = [seen EXCEPT ![t] = None] /\ read' = [read EXCEPT ![t] = None]
    /\ pc' = [pc EXCEPT ![t] = "check"]
    /\ UNCHANGED <<row, saves, switched, settled, saving, got, since>>

(***************************************************************************)
(* manager.resolve                                                         *)
(***************************************************************************)

\* Aavishield's own database, or the breaker's error: the request needs no
\* connection.
NoConnection(t) ==
    /\ pc[t] = "check"
    /\ ~ent[mine[t]].row.active \/ ent[mine[t]].err
    /\ pc' = [pc EXCEPT ![t] = "using"]
    /\ UNCHANGED <<row, saves, switched, settled, saving, cur, ent, conn, running, seen, mine, read, got, since>>

Reuse(t) ==
    /\ pc[t] = "check"
    /\ LET e == ent[mine[t]] IN
          /\ e.row.active /\ ~e.err
          /\ e.store # None /\ e.sealed = e.row.sealed
          /\ got' = [got EXCEPT ![t] = e.store]
    /\ pc' = [pc EXCEPT ![t] = "using"]
    /\ UNCHANGED <<row, saves, switched, settled, saving, cur, ent, conn, running, seen, mine, read, since>>

MustOpen(t) ==
    /\ pc[t] = "check"
    /\ LET e == ent[mine[t]] IN
          /\ e.row.active /\ ~e.err
          /\ e.store = None \/ e.sealed # e.row.sealed
    /\ pc' = [pc EXCEPT ![t] = "open"]
    /\ UNCHANGED <<row, saves, switched, settled, saving, cur, ent, conn, running, seen, mine, read, got, since>>

\* openSealedDB, outside the mutex.
Open(t) ==
    /\ pc[t] = "open"
    /\ \E s \in StoreIds :
          /\ FreeConn(s)
          /\ conn' = [conn EXCEPT ![s] = [sealed |-> ent[mine[t]].row.sealed, state |-> "open"]]
          /\ got' = [got EXCEPT ![t] = s]
    /\ pc' = [pc EXCEPT ![t] = "attach"]
    /\ UNCHANGED <<row, saves, switched, settled, saving, cur, ent, running, seen, mine, read, since>>

OpenFail(t) ==
    /\ pc[t] = "open"
    /\ ent' = [ent EXCEPT ![mine[t]].err = TRUE]
    /\ pc' = [pc EXCEPT ![t] = "using"]
    /\ UNCHANGED <<row, saves, switched, settled, saving, cur, conn, running, seen, mine, read, got, since>>

\* Mutants: always the request's own entry; always the current one.
TargetOwn(t) == mine[t]
TargetCurrent(t) == cur

\* The entry a new connection belongs on: the current one if it still has the
\* configuration that was opened, else the one the request holds.
Target(t) ==
    IF ent[cur].row.sealed = conn[got[t]].sealed THEN cur ELSE mine[t]

Attach(t) ==
    /\ pc[t] = "attach"
    /\ LET g == Target(t) IN
          IF ent[g].store # None
          THEN /\ conn' = Close(got[t], conn)
               /\ running' = [running EXCEPT ![got[t]] = Busy]
               /\ got' = [got EXCEPT ![t] = ent[g].store]
               /\ ent' = ent
          ELSE /\ ent' = [ent EXCEPT ![g].store = got[t], ![g].sealed = conn[got[t]].sealed,
                                     ![g].err = FALSE]
               /\ UNCHANGED <<conn, running, got>>
    /\ pc' = [pc EXCEPT ![t] = "using"]
    /\ UNCHANGED <<row, saves, switched, settled, saving, cur, seen, mine, read, since>>

\* A call fails because the database cannot be reached: guardedStore.check
\* opens the breaker if the connection is the current entry's.
Trip(t) ==
    /\ pc[t] = "using" /\ got[t] # None
    /\ cur # None /\ ent[cur].store = got[t] /\ ~ent[cur].err
    /\ ent' = [ent EXCEPT ![cur].err = TRUE]
    /\ UNCHANGED <<row, saves, switched, settled, saving, cur, conn, running, threadVars>>

\* The request ends.
Done(t) ==
    /\ pc[t] = "using"
    /\ Finish(t)
    /\ running' = [s \in StoreIds |-> running[s] \ {t}]
    /\ UNCHANGED <<row, saves, switched, settled, saving, cur, ent, conn>>

(***************************************************************************)
(* Settings and time                                                       *)
(***************************************************************************)

\* A settings handler writes the row ...
Save ==
    /\ ~saving /\ saves < MaxSaves
    /\ \E c \in Configs, a \in BOOLEAN : row' = [sealed |-> c, active |-> a, ver |-> saves + 1]
    /\ saves' = saves + 1 /\ saving' = TRUE
    /\ switched' = (switched \/ row'.sealed # row.sealed)
    /\ UNCHANGED <<settled, cur, ent, conn, running, threadVars>>

\* The change is settled unless a request is about to install a row it read
\* before.
Settle == settled' = IF \E t \in Threads : pc[t] = "install" THEN settled ELSE saves

\* Mutant: only the breaker is reset.
InvalidateBreaker ==
    /\ saving
    /\ ent' = IF cur = None THEN ent ELSE [ent EXCEPT ![cur].err = FALSE]
    /\ saving' = FALSE /\ Settle
    /\ UNCHANGED <<row, saves, switched, cur, conn, running, threadVars>>

\* ... and then calls Invalidate.
Invalidate ==
    /\ saving
    /\ ent' = IF cur = None THEN ent ELSE [ent EXCEPT ![cur].fresh = FALSE, ![cur].err = FALSE]
    /\ saving' = FALSE /\ Settle
    /\ UNCHANGED <<row, saves, switched, cur, conn, running, threadVars>>

\* rowTTL passes.
RowTTL ==
    /\ cur # None /\ ent[cur].fresh
    /\ ent' = [ent EXCEPT ![cur].fresh = FALSE]
    /\ UNCHANGED <<row, saves, switched, settled, saving, cur, conn, running, threadVars>>

\* retryAfter passes, or checkDB clears the error.
RetryAfter(e) ==
    /\ ent[e].err
    /\ ent' = [ent EXCEPT ![e].err = FALSE]
    /\ UNCHANGED <<row, saves, switched, settled, saving, cur, conn, running, threadVars>>

\* closeGrace passes: the timer fires after its two minutes, whoever still
\* works on the connection.
CloseGrace(s) ==
    /\ conn[s].state = "closing"
    /\ conn' = [conn EXCEPT ![s].state = "closed"]
    /\ UNCHANGED <<row, saves, switched, settled, saving, cur, ent, running, threadVars>>

Request(t) ==
    \/ Begin(t) \/ ReadRow(t) \/ ReadFail(t) \/ Install(t)
    \/ NoConnection(t) \/ Reuse(t) \/ MustOpen(t) \/ Open(t) \/ OpenFail(t) \/ Attach(t)
    \/ Trip(t) \/ Done(t)

Next ==
    \/ \E t \in Threads : Request(t)
    \/ Save \/ Invalidate \/ RowTTL
    \/ \E e \in EntryIds : RetryAfter(e)
    \/ \E s \in StoreIds : CloseGrace(s)

Spec == Init /\ [][Next]_vars

(***************************************************************************)
(* Properties                                                              *)
(***************************************************************************)

\* Only a request that was running when its connection was replaced can find
\* it closed, and so only by going on for longer than closeGrace: whatever
\* races with the replacement, a request that starts later is not handed it.
ClosedOnlyUnderOld ==
    \A t \in Threads :
        got[t] # None /\ conn[got[t]].state # "open" => t \in running[got[t]]

\* A request only ever writes to the database its own configuration names,
\* whatever other requests install, open or close meanwhile.
OwnDatabase ==
    \A t \in Threads :
        pc[t] = "using" /\ got[t] # None => conn[got[t]].sealed = ent[mine[t]].row.sealed

\* No connection leaks while the organization keeps to one database: an open
\* one is on the current entry, or with the request that is about to attach
\* it, however requests reload the entry, race to open a connection, or see
\* data residency switched off and on.
NoLeak ==
    \A s \in StoreIds :
        conn[s].state = "open" /\ ~switched =>
            \/ cur # None /\ ent[cur].store = s
            \/ \E t \in Threads : pc[t] = "attach" /\ got[t] = s

\* A change made through this instance takes effect at once: unless a request
\* was just then about to install the row it had read before, a request that
\* starts after the handler's Invalidate, and can read the row, uses that
\* configuration or a later one.
TakesEffect ==
    \A t \in Threads :
        pc[t] \in Holding => ent[mine[t]].row.ver >= since[t]
=============================================================================
