--------------------------- MODULE TenantPoolProofs ---------------------------
(***************************************************************************)
(* Proofs about TenantPool, for any number of requests, entries,           *)
(* connections and settings changes.                                       *)
(***************************************************************************)
EXTENDS TenantPool, TLAPS

\* Which locals a request has at which point; once a request refers to an
\* entry, the organization has one.
Locals ==
    \A t \in Threads :
        /\ mine[t] # None => pc[t] \in Holding
        /\ seen[t] # None => pc[t] \in {"read", "install"}
        /\ got[t] # None => pc[t] \in {"attach", "using"}
        /\ pc[t] = "install" => read[t] \in Rows
        /\ mine[t] # None \/ seen[t] # None => cur # None

\* Request t may still read or use entry e.
Refers(t, e) == seen[t] = e \/ mine[t] = e

\* Somebody may.
Live(e) == e = cur \/ \E t \in Threads : Refers(t, e)

\* An entry somebody refers to has a row.  The connection on it is one to the
\* database of that row, and is open; or its close is scheduled or over, which
\* happens to replaced entries only, and every request that refers to the entry
\* was running by then.
EntrySound(e) ==
    Live(e) =>
        /\ ent[e].row \in Rows
        /\ ent[e].store # None =>
              /\ ent[e].sealed = ent[e].row.sealed
              /\ conn[ent[e].store].sealed = ent[e].row.sealed
              /\ conn[ent[e].store].state # "open" =>
                    /\ e # cur
                    /\ \A t \in Threads : Refers(t, e) => t \in running[ent[e].store]

EntriesSound == \A e \in EntryIds : EntrySound(e)

\* The connection a request holds is to the database of its row, and is open
\* unless the request was running when its close was scheduled.
HeldSound ==
    \A t \in Threads : got[t] # None =>
        /\ conn[got[t]].sealed = ent[mine[t]].row.sealed
        /\ conn[got[t]].state # "open" => t \in running[got[t]]

\* A connection that is about to be attached is open, belongs to no entry and
\* is in no other request's hands.
OwnedSound ==
    \A t \in Threads : pc[t] = "attach" =>
        /\ conn[got[t]].state = "open"
        /\ \A u \in Threads : got[u] = got[t] => u = t
        /\ \A e \in EntryIds : Live(e) => ent[e].store # got[t]

PoolSound == Locals /\ EntriesSound /\ HeldSound /\ OwnedSound

\* While the organization keeps to one database, every row a request has read
\* or an entry carries names it.
OneConfig ==
    ~switched =>
        /\ \A t \in Threads : pc[t] = "install" => read[t].sealed = row.sealed
        /\ \A e \in EntryIds : Live(e) => ent[e].row.sealed = row.sealed

\* Versions only grow, and what is fresh is as new as the last change settled.
Fresh ==
    /\ row.ver = saves /\ settled <= saves
    /\ cur # None /\ ent[cur].fresh => ent[cur].row.ver >= settled
    /\ \A t \in Threads : since[t] <= settled
    /\ \A t \in Threads : pc[t] = "install" => read[t].ver >= settled

-----------------------------------------------------------------------------
(* Types.                                                                  *)

\* Closing a connection changes its state only.
LEMMA CloseEffect ==
    ASSUME conn \in [StoreIds -> Conns], NEW s \in StoreIds
    PROVE  /\ Close(s, conn) \in [StoreIds -> Conns]
           /\ \A x \in StoreIds :
                 /\ Close(s, conn)[x].sealed = conn[x].sealed
                 /\ Close(s, conn)[x].state = IF x = s THEN "closing" ELSE conn[x].state
<1>1. Close(s, conn) = [conn EXCEPT ![s] = [conn[s] EXCEPT !.state = "closing"]]
  BY DEF Close
<1>2. /\ [conn[s] EXCEPT !.state = "closing"] \in Conns
      /\ [conn[s] EXCEPT !.state = "closing"].sealed = conn[s].sealed
      /\ [conn[s] EXCEPT !.state = "closing"].state = "closing"
  BY DEF Conns
<1> QED BY <1>1, <1>2

\* What Install does to each entry and each connection.
LEMMA InstallEffect ==
    ASSUME TypeOK, NEW t \in Threads, Install(t)
    PROVE  \E e \in EntryIds :
             /\ FreeEntry(e) /\ cur' = e /\ mine' = [mine EXCEPT ![t] = e]
             /\ ent' \in [EntryIds -> Entries]
             /\ ent'[e].row = read[t] /\ ent'[e].fresh
             /\ IF Keeps(read[t])
                THEN ent'[e].sealed = ent[cur].sealed /\ ent'[e].store = ent[cur].store
                ELSE ent'[e].sealed = None /\ ent'[e].store = None
             /\ \A x \in EntryIds \ {e} :
                   /\ ent'[x].row = ent[x].row /\ ent'[x].sealed = ent[x].sealed
                   /\ ent'[x].store = IF x = cur THEN Releases(read[t]) ELSE ent[x].store
             /\ conn' \in [StoreIds -> Conns]
             /\ running' \in [StoreIds -> SUBSET Threads]
             /\ \A s \in StoreIds :
                   /\ conn'[s].sealed = conn[s].sealed
                   /\ conn'[s].state = IF s = Releases(read[t]) THEN "closing" ELSE conn[s].state
                   /\ running'[s] = IF s = Releases(read[t]) THEN Busy ELSE running[s]
<1> USE DEF TypeOK
<1> DEFINE r == read[t]
           new == IF Keeps(r) THEN [ent[cur] EXCEPT !.row = r, !.fresh = TRUE]
                  ELSE [EmptyEntry EXCEPT !.row = r, !.fresh = TRUE]
<1>1. PICK e \in EntryIds :
         /\ FreeEntry(e)
         /\ ent' = IF cur = None THEN [ent EXCEPT ![e] = new]
                   ELSE [ent EXCEPT ![e] = new, ![cur].store = Releases(r)]
         /\ IF Releases(r) = None
            THEN UNCHANGED <<conn, running>>
            ELSE /\ conn' = Close(Releases(r), conn)
                 /\ running' = [running EXCEPT ![Releases(r)] = Busy]
         /\ cur' = e
         /\ mine' = [mine EXCEPT ![t] = e]
  BY DEF Install
<1>2. r \in Rows \cup {None} /\ e # cur /\ Busy \subseteq Threads
  BY <1>1 DEF FreeEntry, Busy
<1>3. cur # None => cur \in EntryIds /\ ent[cur] \in Entries
  OBVIOUS
<1>4. Releases(r) \in StoreIds \cup {None}
  BY <1>3 DEF Releases, Entries
<1>5. /\ new \in Entries /\ new.row = r /\ new.fresh
      /\ IF Keeps(r) THEN new.sealed = ent[cur].sealed /\ new.store = ent[cur].store
         ELSE new.sealed = None /\ new.store = None
  <2>1. CASE Keeps(r)
    <3>1. new = [ent[cur] EXCEPT !.row = r, !.fresh = TRUE] /\ ent[cur] \in Entries
      BY <2>1, <1>3 DEF Keeps
    <3> QED BY <2>1, <3>1, <1>2 DEF Entries
  <2>2. CASE ~Keeps(r)
    <3>1. new = [EmptyEntry EXCEPT !.row = r, !.fresh = TRUE]
      BY <2>2
    <3> QED BY <2>2, <3>1, <1>2 DEF Entries, EmptyEntry
  <2> QED BY <2>1, <2>2
<1> HIDE DEF new
<1>6. /\ ent' \in [EntryIds -> Entries] /\ ent'[e] = new
      /\ \A x \in EntryIds \ {e} :
            /\ ent'[x].row = ent[x].row /\ ent'[x].sealed = ent[x].sealed
            /\ ent'[x].store = IF x = cur THEN Releases(r) ELSE ent[x].store
  <2>1. CASE cur = None
    BY <2>1, <1>1, <1>5, NoneAssumption
  <2>2. CASE cur # None
    <3> DEFINE old == [ent[cur] EXCEPT !.store = Releases(r)]
    <3>1. ent' = [ent EXCEPT ![e] = new, ![cur] = old]
      BY <2>2, <1>1, <1>2
    <3>2. /\ old \in Entries /\ old.row = ent[cur].row /\ old.sealed = ent[cur].sealed
          /\ old.store = Releases(r)
      BY <2>2, <1>3, <1>4 DEF Entries
    <3> HIDE DEF old
    <3> QED BY <2>2, <3>1, <3>2, <1>2, <1>5
  <2> QED BY <2>1, <2>2
<1>7. /\ conn' \in [StoreIds -> Conns]
      /\ running' \in [StoreIds -> SUBSET Threads]
      /\ \A s \in StoreIds :
            /\ conn'[s].sealed = conn[s].sealed
            /\ conn'[s].state = IF s = Releases(r) THEN "closing" ELSE conn[s].state
            /\ running'[s] = IF s = Releases(r) THEN Busy ELSE running[s]
  <2>1. CASE Releases(r) = None
    BY <2>1, <1>1, NoneAssumption
  <2>2. CASE Releases(r) # None
    <3>1. conn' = Close(Releases(r), conn) /\ running' = [running EXCEPT ![Releases(r)] = Busy]
      BY <2>2, <1>1, Zenon
    <3>2. Releases(r) \in StoreIds
      BY <2>2, <1>4
    <3>3. running' \in [StoreIds -> SUBSET Threads]
          /\ \A s \in StoreIds : running'[s] = IF s = Releases(r) THEN Busy ELSE running[s]
      BY <1>2, <3>1, <3>2
    <3>4. /\ conn' \in [StoreIds -> Conns]
          /\ \A s \in StoreIds :
                /\ conn'[s].sealed = conn[s].sealed
                /\ conn'[s].state = IF s = Releases(r) THEN "closing" ELSE conn[s].state
      BY <3>1, <3>2, CloseEffect, Zenon
    <3> QED BY <3>3, <3>4
  <2> QED BY <2>1, <2>2
<1> QED BY <1>1, <1>5, <1>6, <1>7

\* Where the new connection goes: an entry whose row names its database.
LEMMA TargetSound ==
    ASSUME TypeOK, PoolSound, NEW t \in Threads, pc[t] = "attach"
    PROVE  /\ got[t] \in StoreIds /\ mine[t] \in EntryIds /\ cur \in EntryIds
           /\ Target(t) \in {cur, mine[t]}
           /\ ent[Target(t)].row \in Rows
           /\ ent[Target(t)].row.sealed = conn[got[t]].sealed
           /\ ent[mine[t]].row.sealed = conn[got[t]].sealed
<1>1. got[t] \in StoreIds /\ mine[t] \in EntryIds /\ mine[t] # None /\ got[t] # None
  BY NoneAssumption DEF TypeOK, Holding
<1>2. cur \in EntryIds
  BY <1>1 DEF PoolSound, Locals, TypeOK
<1>3. ent[mine[t]].row \in Rows /\ ent[cur].row \in Rows
  BY <1>1, <1>2 DEF PoolSound, EntriesSound, EntrySound, Live, Refers
<1>4. ent[mine[t]].row.sealed = conn[got[t]].sealed
  BY <1>1 DEF PoolSound, HeldSound
<1> QED BY <1>1, <1>2, <1>3, <1>4 DEF Target

\* What Attach does: the connection is closed in favour of the one the target
\* has, or is put on the target.
LEMMA AttachEffect ==
    ASSUME TypeOK, PoolSound, NEW t \in Threads, Attach(t)
    PROVE  \/ /\ ent[Target(t)].store # None
              /\ conn' \in [StoreIds -> Conns]
              /\ \A x \in StoreIds :
                    /\ conn'[x].sealed = conn[x].sealed
                    /\ conn'[x].state = IF x = got[t] THEN "closing" ELSE conn[x].state
              /\ running' = [running EXCEPT ![got[t]] = Busy]
              /\ got' = [got EXCEPT ![t] = ent[Target(t)].store]
              /\ ent' = ent
           \/ /\ ent[Target(t)].store = None
              /\ ent' \in [EntryIds -> Entries]
              /\ ent'[Target(t)].row = ent[Target(t)].row
              /\ ent'[Target(t)].fresh = ent[Target(t)].fresh
              /\ ent'[Target(t)].sealed = conn[got[t]].sealed
              /\ ent'[Target(t)].store = got[t]
              /\ \A x \in EntryIds \ {Target(t)} : ent'[x] = ent[x]
              /\ UNCHANGED <<conn, running, got>>
<1> DEFINE g == Target(t)
<1>1. /\ g \in EntryIds /\ ent[g] \in Entries /\ got[t] \in StoreIds /\ conn[got[t]] \in Conns
      /\ conn \in [StoreIds -> Conns] /\ ent \in [EntryIds -> Entries]
  BY TargetSound DEF TypeOK, Attach
<1>2. CASE ent[g].store # None
  <2>1. /\ conn' = Close(got[t], conn)
        /\ running' = [running EXCEPT ![got[t]] = Busy]
        /\ got' = [got EXCEPT ![t] = ent[g].store]
        /\ ent' = ent
    BY <1>2, Zenon DEF Attach
  <2>2. /\ conn' \in [StoreIds -> Conns]
        /\ \A x \in StoreIds :
              /\ conn'[x].sealed = conn[x].sealed
              /\ conn'[x].state = IF x = got[t] THEN "closing" ELSE conn[x].state
    BY <1>1, <2>1, CloseEffect, Zenon
  <2> QED BY <1>2, <2>1, <2>2, Zenon
<1>3. CASE ent[g].store = None
  <2> DEFINE new == [ent[g] EXCEPT !.store = got[t], !.sealed = conn[got[t]].sealed, !.err = FALSE]
  <2>1. /\ ent' = [ent EXCEPT ![g].store = got[t], ![g].sealed = conn[got[t]].sealed,
                              ![g].err = FALSE]
        /\ UNCHANGED <<conn, running, got>>
    BY <1>3, Zenon DEF Attach
  <2>2. ent' = [ent EXCEPT ![g] = new]
    BY <1>1, <2>1
  <2>3. conn[got[t]].sealed \in Configs \cup {None}
    BY <1>1 DEF Conns
  <2>4. /\ new \in Entries /\ new.row = ent[g].row /\ new.sealed = conn[got[t]].sealed
        /\ new.store = got[t] /\ new.fresh = ent[g].fresh
    BY <1>1, <2>3 DEF Entries
  <2> HIDE DEF new
  <2>5. /\ ent' \in [EntryIds -> Entries] /\ ent'[g] = new
        /\ \A x \in EntryIds \ {g} : ent'[x] = ent[x]
    BY <1>1, <2>2, <2>4
  <2> QED BY <1>3, <2>1, <2>4, <2>5
<1> QED BY <1>2, <1>3

\* The breaker and the age of an entry are changed without touching the rest.
LEMMA MarkEffect ==
    ASSUME TypeOK,
           \/ \E t \in Threads : OpenFail(t) \/ Trip(t)
           \/ Invalidate \/ RowTTL
           \/ \E e \in EntryIds : RetryAfter(e)
    PROVE  /\ ent' \in [EntryIds -> Entries]
           /\ \A x \in EntryIds :
                 /\ ent'[x].row = ent[x].row /\ ent'[x].sealed = ent[x].sealed
                 /\ ent'[x].store = ent[x].store
                 /\ ent'[x].fresh => ent[x].fresh
<1>1. ASSUME NEW e \in EntryIds, NEW b \in BOOLEAN, b => ent[e].fresh, NEW c \in BOOLEAN,
             ent' = [ent EXCEPT ![e] = [ent[e] EXCEPT !.fresh = b, !.err = c]]
      PROVE  /\ ent' \in [EntryIds -> Entries]
             /\ \A x \in EntryIds :
                   /\ ent'[x].row = ent[x].row /\ ent'[x].sealed = ent[x].sealed
                   /\ ent'[x].store = ent[x].store
                   /\ ent'[x].fresh => ent[x].fresh
  <2> DEFINE new == [ent[e] EXCEPT !.fresh = b, !.err = c]
  <2>1. /\ new \in Entries /\ new.row = ent[e].row /\ new.sealed = ent[e].sealed
        /\ new.store = ent[e].store /\ new.fresh = b
    BY <1>1 DEF TypeOK, Entries
  <2>2. ent' = [ent EXCEPT ![e] = new]
    BY <1>1
  <2> HIDE DEF new
  <2> QED BY <1>1, <2>1, <2>2 DEF TypeOK
<1>2. ASSUME NEW e \in EntryIds
      PROVE  /\ ent[e] \in Entries
             /\ [ent[e] EXCEPT !.err = TRUE] = [ent[e] EXCEPT !.fresh = ent[e].fresh, !.err = TRUE]
             /\ [ent[e] EXCEPT !.err = FALSE] = [ent[e] EXCEPT !.fresh = ent[e].fresh, !.err = FALSE]
             /\ [ent[e] EXCEPT !.fresh = FALSE] = [ent[e] EXCEPT !.fresh = FALSE, !.err = ent[e].err]
  BY DEF TypeOK, Entries
<1> DEFINE Marked == \E e \in EntryIds, b \in BOOLEAN, c \in BOOLEAN :
              /\ b => ent[e].fresh
              /\ ent' = [ent EXCEPT ![e] = [ent[e] EXCEPT !.fresh = b, !.err = c]]
<1>3. Marked \/ ent' = ent
  <2>1. ASSUME NEW t \in Threads, OpenFail(t) PROVE Marked
    <3>1. mine[t] \in EntryIds
      BY <2>1, NoneAssumption DEF OpenFail, TypeOK, Holding
    <3>2. ent' = [ent EXCEPT ![mine[t]] = [ent[mine[t]] EXCEPT !.err = TRUE]]
      BY <2>1 DEF OpenFail
    <3>3. ent[mine[t]].fresh \in BOOLEAN
      BY <1>2, <3>1 DEF Entries
    <3> QED BY <1>2, <3>1, <3>2, <3>3, Zenon
  <2>2. ASSUME NEW t \in Threads, Trip(t) PROVE Marked
    <3>1. cur \in EntryIds
      BY <2>2 DEF Trip, TypeOK
    <3>2. ent' = [ent EXCEPT ![cur] = [ent[cur] EXCEPT !.err = TRUE]]
      BY <2>2 DEF Trip
    <3>3. ent[cur].fresh \in BOOLEAN
      BY <1>2, <3>1 DEF Entries
    <3> QED BY <1>2, <3>1, <3>2, <3>3, Zenon
  <2>3. CASE Invalidate /\ cur # None
    <3>1. cur \in EntryIds
      BY <2>3 DEF TypeOK
    <3>2. ent' = [ent EXCEPT ![cur] = [ent[cur] EXCEPT !.fresh = FALSE, !.err = FALSE]]
      BY <2>3, <3>1 DEF Invalidate, TypeOK
    <3> QED BY <3>1, <3>2, Zenon
  <2>4. CASE RowTTL
    <3>1. cur \in EntryIds
      BY <2>4 DEF RowTTL, TypeOK
    <3>2. ent' = [ent EXCEPT ![cur] = [ent[cur] EXCEPT !.fresh = FALSE]]
      BY <2>4 DEF RowTTL
    <3>3. ent[cur].err \in BOOLEAN
      BY <1>2, <3>1 DEF Entries
    <3> QED BY <1>2, <3>1, <3>2, <3>3, Zenon
  <2>5. ASSUME NEW e \in EntryIds, RetryAfter(e) PROVE Marked
    <3>1. ent' = [ent EXCEPT ![e] = [ent[e] EXCEPT !.err = FALSE]]
      BY <2>5 DEF RetryAfter
    <3>2. ent[e].fresh \in BOOLEAN
      BY <1>2, <2>5 DEF Entries
    <3> QED BY <1>2, <2>5, <3>1, <3>2, Zenon
  <2> QED BY <2>1, <2>2, <2>3, <2>4, <2>5 DEF Invalidate
<1> QED BY <1>1, <1>3 DEF TypeOK

\* Every step keeps the state well formed.
LEMMA TypeStep ==
    ASSUME TypeOK, PoolSound, [Next]_vars
    PROVE  TypeOK'
<1> USE DEF TypeOK, threadVars
<1>1. ASSUME NEW t \in Threads, Request(t) PROVE TypeOK'
  <2>1. CASE Begin(t)
    <3>1. CASE cur # None /\ ent[cur].fresh
      BY <2>1, <3>1 DEF Begin, Holding
    <3>2. CASE ~(cur # None /\ ent[cur].fresh)
      BY <2>1, <3>2 DEF Begin, Holding
    <3> QED BY <3>1, <3>2
  <2>2. CASE ReadRow(t)
    BY <2>2 DEF ReadRow, Holding
  <2>3. CASE ReadFail(t)
    BY <2>3, PoolAssumption DEF ReadFail, Finish, Holding
  <2>4. CASE Install(t)
    <3>1. PICK e \in EntryIds :
             /\ cur' = e /\ mine' = [mine EXCEPT ![t] = e]
             /\ ent' \in [EntryIds -> Entries]
             /\ conn' \in [StoreIds -> Conns]
             /\ running' \in [StoreIds -> SUBSET Threads]
      BY <2>4, InstallEffect
    <3>2. /\ seen' = [seen EXCEPT ![t] = None] /\ read' = [read EXCEPT ![t] = None]
          /\ pc' = [pc EXCEPT ![t] = "check"]
          /\ UNCHANGED <<row, saves, switched, settled, saving, got, since>>
      BY <2>4 DEF Install
    <3> QED BY <3>1, <3>2, NoneAssumption DEF Holding
  <2>5. CASE Open(t)
    <3>1. PICK s \in StoreIds :
             /\ conn' = [conn EXCEPT ![s] = [sealed |-> ent[mine[t]].row.sealed, state |-> "open"]]
             /\ got' = [got EXCEPT ![t] = s]
      BY <2>5 DEF Open
    <3>2. mine[t] \in EntryIds /\ ent[mine[t]].row \in Rows
      BY <2>5, NoneAssumption DEF Open, Holding, PoolSound, EntriesSound, EntrySound, Live, Refers
    <3>3. [sealed |-> ent[mine[t]].row.sealed, state |-> "open"] \in Conns
      BY <3>2 DEF Rows, Conns
    <3> QED BY <2>5, <3>1, <3>3, NoneAssumption DEF Open, Holding
  <2>6. CASE OpenFail(t)
    <3>1. ent' \in [EntryIds -> Entries]
      BY <2>6, MarkEffect
    <3> QED BY <2>6, <3>1 DEF OpenFail, Holding
  <2>7. CASE Attach(t)
    <3>1. /\ conn' \in [StoreIds -> Conns]
          /\ running' \in [StoreIds -> SUBSET Threads]
          /\ got' \in [Threads -> StoreIds \cup {None}]
          /\ ent' \in [EntryIds -> Entries]
          /\ \A u \in Threads \ {t} : got'[u] = got[u]
      <4>1. ent[Target(t)].store \in StoreIds \cup {None}
        BY <2>7, TargetSound DEF Attach, Entries
      <4>2. Busy \subseteq Threads
        BY DEF Busy
      <4> QED BY <2>7, <4>1, <4>2, AttachEffect
    <3>2. /\ pc' = [pc EXCEPT ![t] = "using"]
          /\ UNCHANGED <<row, saves, switched, settled, saving, cur, seen, mine, read, since>>
          /\ pc[t] = "attach"
      BY <2>7 DEF Attach
    <3> QED BY <3>1, <3>2 DEF Holding
  <2>8. CASE Trip(t)
    <3>1. ent' \in [EntryIds -> Entries]
      BY <2>8, MarkEffect
    <3> QED BY <2>8, <3>1 DEF Trip
  <2>9. CASE Done(t)
    BY <2>9, PoolAssumption DEF Done, Finish, Holding
  <2>10. CASE NoConnection(t) \/ Reuse(t) \/ MustOpen(t)
    BY <2>10 DEF NoConnection, Reuse, MustOpen, Holding, Entries
  <2> QED BY <1>1, <2>1, <2>2, <2>3, <2>4, <2>5, <2>6, <2>7, <2>8, <2>9, <2>10 DEF Request
<1>2. CASE Save
  <2>1. PICK c \in Configs, a \in BOOLEAN : row' = [sealed |-> c, active |-> a, ver |-> saves + 1]
    BY <1>2 DEF Save
  <2>2. saves + 1 \in 0..MaxSaves
    BY <1>2, PoolAssumption DEF Save
  <2>3. row' \in Rows
    BY <2>1, <2>2 DEF Rows
  <2>4. switched' \in BOOLEAN
    BY <1>2, Zenon DEF Save
  <2> QED BY <1>2, <2>2, <2>3, <2>4 DEF Save
<1>3. CASE Invalidate
  <2>1. ent' \in [EntryIds -> Entries]
    BY <1>3, MarkEffect
  <2> QED BY <1>3, <2>1 DEF Invalidate, Settle
<1>4. CASE RowTTL
  <2>1. ent' \in [EntryIds -> Entries]
    BY <1>4, MarkEffect
  <2> QED BY <1>4, <2>1 DEF RowTTL
<1>5. CASE \E e \in EntryIds : RetryAfter(e)
  <2>1. ent' \in [EntryIds -> Entries]
    BY <1>5, MarkEffect
  <2> QED BY <1>5, <2>1 DEF RetryAfter
<1>6. CASE \E s \in StoreIds : CloseGrace(s)
  <2>1. PICK s \in StoreIds : CloseGrace(s)
    BY <1>6
  <2>2. conn' = [conn EXCEPT ![s] = [conn[s] EXCEPT !.state = "closed"]]
    BY <2>1 DEF CloseGrace
  <2>3. [conn[s] EXCEPT !.state = "closed"] \in Conns
    BY DEF Conns
  <2>4. conn' \in [StoreIds -> Conns]
    BY <2>2, <2>3
  <2> QED BY <2>1, <2>4 DEF CloseGrace
<1>7. CASE UNCHANGED vars
  BY <1>7 DEF vars
<1> QED BY <1>1, <1>2, <1>3, <1>4, <1>5, <1>6, <1>7 DEF Next

-----------------------------------------------------------------------------
(* Entries, connections and those who hold them.                           *)

\* Each request keeps to its own locals.
LEMMA LocalsStep ==
    ASSUME TypeOK, PoolSound, [Next]_vars
    PROVE  Locals'
<1> USE DEF TypeOK, threadVars, PoolSound, Locals, Holding
<1>1. ASSUME NEW t \in Threads, Request(t) PROVE Locals'
  <2>1. CASE Begin(t)
    <3>1. CASE cur # None /\ ent[cur].fresh
      BY <2>1, <3>1 DEF Begin
    <3>2. CASE ~(cur # None /\ ent[cur].fresh)
      BY <2>1, <3>2 DEF Begin
    <3> QED BY <3>1, <3>2
  <2>2. CASE ReadRow(t)
    BY <2>2 DEF ReadRow
  <2>3. CASE ReadFail(t)
    BY <2>3 DEF ReadFail, Finish
  <2>4. CASE Install(t)
    <3>1. PICK e \in EntryIds : cur' = e /\ mine' = [mine EXCEPT ![t] = e]
      BY <2>4 DEF Install
    <3>2. /\ seen' = [seen EXCEPT ![t] = None] /\ read' = [read EXCEPT ![t] = None]
          /\ pc' = [pc EXCEPT ![t] = "check"] /\ got' = got /\ pc[t] = "install"
      BY <2>4 DEF Install
    <3> QED BY <3>1, <3>2, NoneAssumption
  <2>5. CASE Open(t)
    BY <2>5 DEF Open
  <2>6. CASE Attach(t)
    <3>1. \A u \in Threads \ {t} : got'[u] = got[u]
      BY <2>6, AttachEffect
    <3>2. /\ pc' = [pc EXCEPT ![t] = "using"] /\ UNCHANGED <<cur, seen, mine, read>>
          /\ pc[t] = "attach"
      BY <2>6 DEF Attach
    <3> QED BY <3>1, <3>2
  <2>7. CASE Done(t)
    BY <2>7 DEF Done, Finish
  <2>8. CASE OpenFail(t) \/ Trip(t) \/ NoConnection(t) \/ Reuse(t) \/ MustOpen(t)
    BY <2>8 DEF OpenFail, Trip, NoConnection, Reuse, MustOpen
  <2> QED BY <1>1, <2>1, <2>2, <2>3, <2>4, <2>5, <2>6, <2>7, <2>8 DEF Request
<1>2. CASE Save \/ Invalidate \/ RowTTL
  BY <1>2 DEF Save, Invalidate, RowTTL
<1>3. CASE \E e \in EntryIds : RetryAfter(e)
  BY <1>3 DEF RetryAfter
<1>4. CASE \E s \in StoreIds : CloseGrace(s)
  BY <1>4 DEF CloseGrace
<1>5. CASE UNCHANGED vars
  BY <1>5 DEF vars
<1> QED BY <1>1, <1>2, <1>3, <1>4, <1>5 DEF Next

\* Steps that change no connection, no reference and of the entries only
\* their age and breaker.
LEMMA QuietStep ==
    ASSUME TypeOK, PoolSound,
           \A x \in EntryIds : /\ ent'[x].row = ent[x].row /\ ent'[x].sealed = ent[x].sealed
                               /\ ent'[x].store = ent[x].store,
           UNCHANGED <<cur, conn, running, seen, mine, got>>,
           \A t \in Threads : pc'[t] = "attach" => pc[t] = "attach"
    PROVE  EntriesSound' /\ HeldSound' /\ OwnedSound'
<1>1. \A t \in Threads : got[t] # None => mine[t] \in EntryIds
  BY NoneAssumption DEF TypeOK, PoolSound, Locals, Holding
<1> QED BY <1>1 DEF PoolSound, EntriesSound, EntrySound, HeldSound, OwnedSound, Live, Refers

\* A request that ends refers to nothing and nothing waits for it.
LEMMA FinishStep ==
    ASSUME TypeOK, PoolSound, NEW t \in Threads, Finish(t),
           running' = [s \in StoreIds |-> running[s] \ {t}], UNCHANGED <<cur, ent, conn>>
    PROVE  EntriesSound' /\ HeldSound' /\ OwnedSound'
<1>0. TypeOK /\ PoolSound
  OBVIOUS
<1>1. /\ seen'[t] = None /\ mine'[t] = None /\ got'[t] = None /\ pc'[t] = "idle"
      /\ \A u \in Threads \ {t} : /\ seen'[u] = seen[u] /\ mine'[u] = mine[u]
                                  /\ got'[u] = got[u] /\ pc'[u] = pc[u]
  BY DEF Finish, TypeOK
<1>2. \A e \in EntryIds : /\ Live(e)' => Live(e)
                          /\ \A u \in Threads : Refers(u, e)' => u # t /\ Refers(u, e)
  BY <1>1, NoneAssumption DEF Live, Refers
<1>3. EntriesSound'
  <2> SUFFICES ASSUME NEW e \in EntryIds, Live(e)' PROVE EntrySound(e)'
    BY DEF EntriesSound, EntrySound
  <2>1. EntrySound(e) /\ Live(e)
    BY <1>0, <1>2 DEF PoolSound, EntriesSound
  <2>2. ent[e].store # None => ent[e].store \in StoreIds
    BY <1>0 DEF TypeOK, Entries
  <2> QED BY <1>2, <2>1, <2>2 DEF EntrySound
<1>4. HeldSound'
  <2> SUFFICES ASSUME NEW u \in Threads, got'[u] # None
               PROVE  /\ conn[got'[u]].sealed = ent[mine'[u]].row.sealed
                      /\ conn[got'[u]].state # "open" => u \in running'[got'[u]]
    BY DEF HeldSound
  <2>1. u # t /\ got'[u] = got[u] /\ mine'[u] = mine[u] /\ got[u] \in StoreIds
    BY <1>0, <1>1 DEF TypeOK
  <2> QED BY <1>0, <2>1 DEF PoolSound, HeldSound
<1>5. OwnedSound'
  BY <1>0, <1>1, <1>2, NoneAssumption DEF PoolSound, OwnedSound, TypeOK
<1> QED BY <1>3, <1>4, <1>5

\* Entries and connections stay sound whatever a request does.
LEMMA RequestStep ==
    ASSUME TypeOK, PoolSound, NEW t \in Threads, Request(t)
    PROVE  EntriesSound' /\ HeldSound' /\ OwnedSound'
<1>0. TypeOK /\ PoolSound /\ Locals /\ EntriesSound /\ HeldSound /\ OwnedSound
  BY DEF PoolSound
<1>1. CASE Begin(t)
  <2>1. /\ UNCHANGED <<cur, ent, conn, running, got>>
        /\ \A u \in Threads : pc'[u] = "attach" => pc[u] = "attach"
        /\ \A u \in Threads \ {t} : seen'[u] = seen[u] /\ mine'[u] = mine[u]
        /\ seen'[t] \in {seen[t], cur} /\ mine'[t] \in {mine[t], cur}
        /\ got[t] = None
    BY <1>0, <1>1 DEF Begin, TypeOK, Locals
  <2>2. \A e \in EntryIds : /\ Live(e)' => Live(e)
                            /\ \A u \in Threads : Refers(u, e)' => Refers(u, e) \/ e = cur
    BY <2>1 DEF Live, Refers
  <2>3. EntriesSound'
    BY <1>0, <2>1, <2>2 DEF EntriesSound, EntrySound
  <2>4. HeldSound'
    BY <1>0, <2>1 DEF HeldSound
  <2>5. OwnedSound'
    BY <1>0, <2>1, <2>2 DEF OwnedSound
  <2> QED BY <2>3, <2>4, <2>5
<1>2. CASE ReadRow(t) \/ NoConnection(t) \/ MustOpen(t) \/ Trip(t) \/ OpenFail(t)
  <2>1. /\ UNCHANGED <<cur, conn, running, seen, mine, got>>
        /\ \A u \in Threads : pc'[u] = "attach" => pc[u] = "attach"
    BY <1>0, <1>2 DEF ReadRow, NoConnection, MustOpen, Trip, OpenFail, TypeOK, threadVars
  <2>2. \A x \in EntryIds : /\ ent'[x].row = ent[x].row /\ ent'[x].sealed = ent[x].sealed
                            /\ ent'[x].store = ent[x].store
    BY <1>2, MarkEffect DEF ReadRow, NoConnection, MustOpen
  <2> QED BY <2>1, <2>2, QuietStep
<1>3. CASE ReadFail(t)
  <2>1. CASE seen[t] = None
    BY <1>3, <2>1, FinishStep DEF ReadFail
  <2>2. CASE seen[t] # None
    <3>1. /\ UNCHANGED <<cur, ent, conn, running, got>>
          /\ \A u \in Threads : pc'[u] = "attach" => pc[u] = "attach"
          /\ \A u \in Threads \ {t} : seen'[u] = seen[u] /\ mine'[u] = mine[u]
          /\ seen'[t] = None /\ mine'[t] = seen[t]
          /\ got[t] = None
      BY <1>0, <1>3, <2>2 DEF ReadFail, TypeOK, Locals
    <3>2. \A e \in EntryIds : /\ Live(e)' => Live(e)
                              /\ \A u \in Threads : Refers(u, e)' => Refers(u, e)
      BY <3>1, NoneAssumption DEF Live, Refers
    <3>3. EntriesSound'
      BY <1>0, <3>1, <3>2 DEF EntriesSound, EntrySound
    <3>4. HeldSound'
      BY <1>0, <3>1 DEF HeldSound
    <3>5. OwnedSound'
      BY <1>0, <3>1, <3>2 DEF OwnedSound
    <3> QED BY <3>3, <3>4, <3>5
  <2> QED BY <2>1, <2>2
<1>4. CASE Install(t)
  <2> DEFINE rel == Releases(read[t])
  <2>1. PICK e \in EntryIds :
             /\ FreeEntry(e) /\ cur' = e /\ mine' = [mine EXCEPT ![t] = e]
             /\ ent' \in [EntryIds -> Entries]
             /\ ent'[e].row = read[t] /\ ent'[e].fresh
             /\ IF Keeps(read[t])
                THEN ent'[e].sealed = ent[cur].sealed /\ ent'[e].store = ent[cur].store
                ELSE ent'[e].sealed = None /\ ent'[e].store = None
             /\ \A x \in EntryIds \ {e} :
                   /\ ent'[x].row = ent[x].row /\ ent'[x].sealed = ent[x].sealed
                   /\ ent'[x].store = IF x = cur THEN rel ELSE ent[x].store
             /\ conn' \in [StoreIds -> Conns]
             /\ running' \in [StoreIds -> SUBSET Threads]
             /\ \A s \in StoreIds :
                   /\ conn'[s].sealed = conn[s].sealed
                   /\ conn'[s].state = IF s = rel THEN "closing" ELSE conn[s].state
                   /\ running'[s] = IF s = rel THEN Busy ELSE running[s]
    BY <1>4, InstallEffect
  <2>2. /\ seen' = [seen EXCEPT ![t] = None] /\ pc' = [pc EXCEPT ![t] = "check"]
        /\ got' = got /\ pc[t] = "install" /\ got[t] = None /\ read[t] \in Rows
    BY <1>0, <1>4 DEF Install, Locals
  <2>3. ~Live(e) /\ \A u \in Threads : ~Refers(u, e)
    BY <2>1 DEF FreeEntry, Live, Refers
  <2>4. /\ \A x \in EntryIds \ {e} : /\ Live(x)' => Live(x)
                                     /\ \A u \in Threads : Refers(u, x)' => Refers(u, x)
        /\ \A u \in Threads : Refers(u, e)' => u = t
    BY <1>0, <2>1, <2>2, <2>3, NoneAssumption DEF Live, Refers, TypeOK
  <2>5. /\ \A u \in Threads, x \in EntryIds : Refers(u, x) => u \in Busy
        /\ \A u \in Threads : got[u] # None => u \in Busy
    BY <1>0, NoneAssumption DEF Locals, Refers, Busy, Holding, TypeOK
  <2>6. cur # None => Live(cur) /\ cur \in EntryIds /\ EntrySound(cur)
    BY <1>0 DEF Live, TypeOK, EntriesSound
  <2>7. rel # None => cur # None /\ rel = ent[cur].store /\ rel \in StoreIds
    BY <1>0, <2>6 DEF Releases, TypeOK, Entries
  <2>8. Keeps(read[t]) => cur # None /\ rel = None /\ ent[cur].sealed = read[t].sealed
    BY DEF Keeps, Releases
  <2> HIDE DEF rel
  <2>9. EntriesSound'
    <3> SUFFICES ASSUME NEW x \in EntryIds, Live(x)' PROVE EntrySound(x)'
      BY DEF EntriesSound, EntrySound
    <3>1. CASE x = e
      <4>1. CASE Keeps(read[t])
        <5>1. ent[cur].store # None => ent[cur].store \in StoreIds
          BY <1>0, <2>6, <2>8, <4>1 DEF TypeOK, Entries
        <5> QED BY <2>1, <2>2, <2>6, <2>8, <3>1, <4>1, <5>1, NoneAssumption DEF EntrySound
      <4>2. CASE ~Keeps(read[t])
        BY <2>1, <2>2, <3>1, <4>2 DEF EntrySound
      <4> QED BY <4>1, <4>2
    <3>2. CASE x # e
      <4>1. /\ EntrySound(x) /\ Live(x) /\ ent[x].store \in StoreIds \cup {None}
            /\ ent'[x].row = ent[x].row /\ ent'[x].sealed = ent[x].sealed /\ x # cur'
        BY <1>0, <2>1, <2>4, <3>2 DEF EntriesSound, TypeOK, Entries
      <4>2. CASE x = cur /\ rel = None
        BY <2>1, <4>1, <4>2, <3>2 DEF EntrySound
      <4>3. CASE x = cur /\ rel # None
        BY <2>1, <2>4, <2>5, <2>7, <4>1, <4>3, <3>2 DEF EntrySound
      <4>4. CASE x # cur
        BY <2>1, <2>4, <2>5, <2>7, <4>1, <4>4, <3>2 DEF EntrySound
      <4> QED BY <4>2, <4>3, <4>4
    <3> QED BY <3>1, <3>2
  <2>10. HeldSound'
    <3> SUFFICES ASSUME NEW u \in Threads, got[u] # None
                 PROVE  /\ conn'[got[u]].sealed = ent'[mine'[u]].row.sealed
                        /\ conn'[got[u]].state # "open" => u \in running'[got[u]]
      BY <2>2 DEF HeldSound
    <3>1. u # t /\ mine'[u] = mine[u] /\ got[u] \in StoreIds /\ mine[u] \in EntryIds
      BY <1>0, <2>1, <2>2, NoneAssumption DEF TypeOK, Locals, Holding
    <3>2. mine[u] # e
      BY <2>3 DEF Refers
    <3> QED BY <1>0, <2>1, <2>5, <3>1, <3>2 DEF HeldSound
  <2>11. OwnedSound'
    <3> SUFFICES ASSUME NEW u \in Threads, pc'[u] = "attach"
                 PROVE  /\ conn'[got[u]].state = "open"
                        /\ \A v \in Threads : got[v] = got[u] => v = u
                        /\ \A x \in EntryIds : Live(x)' => ent'[x].store # got[u]
      BY <2>2 DEF OwnedSound
    <3>1. pc[u] = "attach" /\ got[u] # None /\ got[u] \in StoreIds
      BY <1>0, <2>2 DEF TypeOK
    <3>2. got[u] # rel /\ (cur # None => ent[cur].store # got[u])
      BY <1>0, <2>6, <2>7, <3>1 DEF OwnedSound
    <3> QED BY <1>0, <2>1, <2>4, <2>8, <3>1, <3>2 DEF OwnedSound
  <2> QED BY <2>9, <2>10, <2>11
<1>5. CASE Reuse(t)
  <2> DEFINE m == mine[t]
             s == ent[m].store
  <2>1. /\ m \in EntryIds /\ Live(m) /\ Refers(t, m)
        /\ s # None /\ s \in StoreIds /\ got' = [got EXCEPT ![t] = s]
        /\ UNCHANGED <<cur, ent, conn, running, seen, mine>>
        /\ pc' = [pc EXCEPT ![t] = "using"]
    BY <1>0, <1>5, NoneAssumption DEF Reuse, TypeOK, Holding, Live, Refers, Entries
  <2>2. EntrySound(m)
    BY <1>0, <2>1 DEF EntriesSound
  <2>3. EntriesSound'
    BY <1>0, <2>1 DEF EntriesSound, EntrySound, Live, Refers
  <2>4. HeldSound'
    BY <1>0, <2>1, <2>2 DEF HeldSound, EntrySound, TypeOK
  <2>5. OwnedSound'
    <3> SUFFICES ASSUME NEW u \in Threads, pc'[u] = "attach"
                 PROVE  /\ conn'[got'[u]].state = "open"
                        /\ \A v \in Threads : got'[v] = got'[u] => v = u
                        /\ \A x \in EntryIds : Live(x)' => ent'[x].store # got'[u]
      BY DEF OwnedSound
    <3>1. u # t /\ pc[u] = "attach" /\ got'[u] = got[u]
      BY <1>0, <2>1 DEF TypeOK
    <3>2. got[u] # s
      BY <1>0, <2>1, <3>1 DEF OwnedSound
    <3> QED BY <1>0, <2>1, <3>1, <3>2 DEF OwnedSound, Live, Refers, TypeOK
  <2> QED BY <2>3, <2>4, <2>5
<1>6. CASE Open(t)
  <2>1. PICK s \in StoreIds :
           /\ FreeConn(s)
           /\ conn' = [conn EXCEPT ![s] = [sealed |-> ent[mine[t]].row.sealed, state |-> "open"]]
           /\ got' = [got EXCEPT ![t] = s]
    BY <1>6 DEF Open
  <2>2. /\ UNCHANGED <<cur, ent, running, seen, mine>> /\ pc' = [pc EXCEPT ![t] = "attach"]
        /\ pc[t] = "open"
    BY <1>6 DEF Open
  <2>3. /\ conn[s].state = "closed" /\ \A u \in Threads : got[u] # s
        /\ conn'[s].sealed = ent[mine[t]].row.sealed /\ conn'[s].state = "open"
        /\ \A x \in StoreIds \ {s} : conn'[x] = conn[x]
    BY <1>0, <2>1 DEF FreeConn, TypeOK
  <2>4. \A x \in EntryIds : Live(x) => ent[x].store # s
    BY <2>1 DEF FreeConn, FreeEntry, Live, Refers
  <2>5. EntriesSound'
    <3> SUFFICES ASSUME NEW x \in EntryIds, Live(x) PROVE EntrySound(x)'
      BY <2>2 DEF EntriesSound, EntrySound, Live, Refers
    <3>1. EntrySound(x) /\ ent[x].store # s /\ ent[x].store \in StoreIds \cup {None}
      BY <1>0, <2>4 DEF EntriesSound, TypeOK, Entries
    <3> QED BY <2>2, <2>3, <3>1 DEF EntrySound, Refers
  <2>6. HeldSound'
    BY <1>0, <2>1, <2>2, <2>3 DEF HeldSound, TypeOK
  <2>7. OwnedSound'
    <3> SUFFICES ASSUME NEW u \in Threads, pc'[u] = "attach"
                 PROVE  /\ conn'[got'[u]].state = "open"
                        /\ \A v \in Threads : got'[v] = got'[u] => v = u
                        /\ \A x \in EntryIds : Live(x)' => ent'[x].store # got'[u]
      BY DEF OwnedSound
    <3>1. \A x \in EntryIds : Live(x)' => Live(x)
      BY <2>2 DEF Live, Refers
    <3>2. CASE u = t
      BY <1>0, <2>1, <2>2, <2>3, <2>4, <3>1, <3>2 DEF TypeOK
    <3>3. CASE u # t
      BY <1>0, <2>1, <2>2, <2>3, <3>1, <3>3 DEF OwnedSound, TypeOK
    <3> QED BY <3>2, <3>3
  <2> QED BY <2>5, <2>6, <2>7
<1>7. CASE Attach(t)
  <2> DEFINE g == Target(t)
             s == got[t]
  <2>1. /\ pc[t] = "attach" /\ pc' = [pc EXCEPT ![t] = "using"]
        /\ UNCHANGED <<cur, seen, mine>>
    BY <1>7 DEF Attach
  <2>2. /\ s \in StoreIds /\ mine[t] \in EntryIds /\ g \in EntryIds /\ Live(g)
        /\ g \in {cur, mine[t]}
        /\ ent[g].row \in Rows /\ ent[g].row.sealed = conn[s].sealed
        /\ ent[mine[t]].row.sealed = conn[s].sealed
    BY <1>0, <2>1, TargetSound DEF Live, Refers
  <2>3. /\ \A x \in EntryIds : Live(x)' <=> Live(x)
        /\ \A x \in EntryIds, u \in Threads : Refers(u, x)' <=> Refers(u, x)
    BY <2>1 DEF Live, Refers
  <2>4. /\ conn[s].state = "open" /\ \A u \in Threads : got[u] = s => u = t
        /\ \A x \in EntryIds : Live(x) => ent[x].store # s
    BY <1>0, <2>1 DEF OwnedSound
  <2>5. EntrySound(g) /\ ent[g].store \in StoreIds \cup {None}
    BY <1>0, <2>2 DEF EntriesSound, TypeOK, Entries
  <2>6. \A u \in Threads : got[u] \in StoreIds \cup {None}
    BY <1>0 DEF TypeOK
  <2>7. CASE /\ ent[g].store # None
             /\ \A x \in StoreIds :
                   /\ conn'[x].sealed = conn[x].sealed
                   /\ conn'[x].state = IF x = s THEN "closing" ELSE conn[x].state
             /\ running' = [running EXCEPT ![s] = Busy]
             /\ got' = [got EXCEPT ![t] = ent[g].store]
             /\ ent' = ent
    <3>1. got'[t] = ent[g].store /\ \A u \in Threads \ {t} : got'[u] = got[u] /\ got[u] # s
      BY <1>0, <2>4, <2>7 DEF TypeOK
    <3>2. \A x \in StoreIds \ {s} : conn'[x].state = conn[x].state /\ running'[x] = running[x]
      BY <1>0, <2>7 DEF TypeOK
    <3>3. EntriesSound'
      <4> SUFFICES ASSUME NEW x \in EntryIds, Live(x) PROVE EntrySound(x)'
        BY <2>3 DEF EntriesSound, EntrySound
      <4>1. EntrySound(x) /\ ent[x].store # s /\ ent[x].store \in StoreIds \cup {None}
        BY <1>0, <2>4 DEF EntriesSound, TypeOK, Entries
      <4> QED BY <2>1, <2>3, <2>7, <3>2, <4>1 DEF EntrySound
    <3>4. HeldSound'
      <4> SUFFICES ASSUME NEW u \in Threads, got'[u] # None
                   PROVE  /\ conn'[got'[u]].sealed = ent[mine[u]].row.sealed
                          /\ conn'[got'[u]].state # "open" => u \in running'[got'[u]]
        BY <2>1, <2>7 DEF HeldSound
      <4>1. CASE u = t
        <5>1. ent[g].store \in StoreIds \ {s}
          BY <2>2, <2>4, <2>5, <2>7
        <5>2. g # cur => Refers(t, g)
          BY <2>2 DEF Refers
        <5> QED BY <2>2, <2>5, <2>7, <3>1, <3>2, <4>1, <5>1, <5>2 DEF EntrySound
      <4>2. CASE u # t
        BY <1>0, <2>6, <2>7, <3>1, <3>2, <4>2 DEF HeldSound
      <4> QED BY <4>1, <4>2
    <3>5. OwnedSound'
      <4> SUFFICES ASSUME NEW u \in Threads, pc'[u] = "attach"
                   PROVE  /\ conn'[got'[u]].state = "open"
                          /\ \A v \in Threads : got'[v] = got'[u] => v = u
                          /\ \A x \in EntryIds : Live(x)' => ent'[x].store # got'[u]
        BY DEF OwnedSound
      <4>1. u # t /\ pc[u] = "attach"
        BY <1>0, <2>1 DEF TypeOK
      <4>2. /\ got'[u] = got[u] /\ got[u] # s /\ got[u] # None /\ got[u] # ent[g].store
            /\ got[u] \in StoreIds
        BY <1>0, <2>2, <2>6, <3>1, <4>1 DEF OwnedSound, TypeOK
      <4> QED BY <1>0, <2>3, <2>7, <3>1, <3>2, <4>1, <4>2 DEF OwnedSound
    <3> QED BY <3>3, <3>4, <3>5
  <2>8. CASE /\ ent[g].store = None
             /\ ent'[g].row = ent[g].row
             /\ ent'[g].sealed = conn[s].sealed
             /\ ent'[g].store = s
             /\ \A x \in EntryIds \ {g} : ent'[x] = ent[x]
             /\ UNCHANGED <<conn, running, got>>
    <3>1. EntriesSound'
      <4> SUFFICES ASSUME NEW x \in EntryIds, Live(x) PROVE EntrySound(x)'
        BY <2>3 DEF EntriesSound, EntrySound
      <4>1. EntrySound(x)
        BY <1>0 DEF EntriesSound
      <4>2. CASE x = g
        BY <2>2, <2>4, <2>8, <4>2 DEF EntrySound
      <4>3. CASE x # g
        BY <2>1, <2>3, <2>8, <4>1, <4>3 DEF EntrySound
      <4> QED BY <4>2, <4>3
    <3>2. HeldSound'
      <4>1. \A u \in Threads : got[u] # None => mine[u] \in EntryIds
        BY <1>0, NoneAssumption DEF Locals, Holding, TypeOK
      <4> QED BY <1>0, <2>1, <2>8, <4>1 DEF HeldSound
    <3>3. OwnedSound'
      <4> SUFFICES ASSUME NEW u \in Threads, pc'[u] = "attach"
                   PROVE  /\ conn'[got'[u]].state = "open"
                          /\ \A v \in Threads : got'[v] = got'[u] => v = u
                          /\ \A x \in EntryIds : Live(x)' => ent'[x].store # got'[u]
        BY DEF OwnedSound
      <4>1. u # t /\ pc[u] = "attach"
        BY <1>0, <2>1 DEF TypeOK
      <4>2. got[u] # s
        BY <2>4, <4>1
      <4> QED BY <1>0, <2>3, <2>8, <4>1, <4>2 DEF OwnedSound
    <3> QED BY <3>1, <3>2, <3>3
  <2> QED BY <1>0, <1>7, <2>7, <2>8, AttachEffect
<1>8. CASE Done(t)
  BY <1>8, FinishStep DEF Done
<1> QED BY <1>1, <1>2, <1>3, <1>4, <1>5, <1>6, <1>7, <1>8 DEF Request

\* The pool's invariant is kept by every step.
LEMMA SoundStep ==
    ASSUME TypeOK, PoolSound, [Next]_vars
    PROVE  PoolSound'
<1> SUFFICES EntriesSound' /\ HeldSound' /\ OwnedSound'
  BY LocalsStep DEF PoolSound
<1>1. ASSUME NEW t \in Threads, Request(t) PROVE EntriesSound' /\ HeldSound' /\ OwnedSound'
  BY <1>1, RequestStep
<1>2. CASE Invalidate \/ RowTTL \/ (\E e \in EntryIds : RetryAfter(e))
  <2>1. \A x \in EntryIds : /\ ent'[x].row = ent[x].row /\ ent'[x].sealed = ent[x].sealed
                            /\ ent'[x].store = ent[x].store
    BY <1>2, MarkEffect
  <2>2. UNCHANGED <<cur, conn, running, threadVars>>
    BY <1>2 DEF Invalidate, RowTTL, RetryAfter
  <2>3. UNCHANGED <<cur, conn, running, seen, mine, got>> /\ pc' = pc
    BY <2>2 DEF threadVars
  <2> QED BY <2>1, <2>3, QuietStep
<1>3. CASE Save \/ UNCHANGED vars
  <2>1. UNCHANGED <<cur, conn, running, seen, mine, got>> /\ pc' = pc /\ ent' = ent
    BY <1>3 DEF Save, vars, threadVars
  <2> QED BY <2>1, QuietStep
<1>4. ASSUME NEW s \in StoreIds, CloseGrace(s) PROVE EntriesSound' /\ HeldSound' /\ OwnedSound'
  <2>0. TypeOK /\ Locals /\ EntriesSound /\ HeldSound /\ OwnedSound
    BY DEF PoolSound
  <2>1. /\ UNCHANGED <<cur, ent, running, pc, seen, mine, got>>
        /\ conn[s].state = "closing"
        /\ \A x \in StoreIds : /\ conn'[x].sealed = conn[x].sealed
                               /\ conn'[x].state = IF x = s THEN "closed" ELSE conn[x].state
    BY <1>4, <2>0 DEF CloseGrace, TypeOK, threadVars, Conns
  <2>2. EntriesSound'
    <3> SUFFICES ASSUME NEW x \in EntryIds, Live(x) PROVE EntrySound(x)'
      BY <2>1 DEF EntriesSound, EntrySound, Live, Refers
    <3>1. EntrySound(x) /\ ent[x].store \in StoreIds \cup {None}
      BY <2>0 DEF EntriesSound, TypeOK, Entries
    <3> QED BY <2>1, <3>1 DEF EntrySound, Refers
  <2>3. HeldSound'
    BY <2>0, <2>1 DEF HeldSound, TypeOK
  <2>4. OwnedSound'
    BY <2>0, <2>1, NoneAssumption DEF OwnedSound, TypeOK, Live, Refers
  <2> QED BY <2>2, <2>3, <2>4
<1> QED BY <1>1, <1>2, <1>3, <1>4 DEF Next

-----------------------------------------------------------------------------
(* One database, no leak.                                                  *)

\* Steps in which no row is read or installed keep the rows in use.
LEMMA SameRows ==
    ASSUME OneConfig, ~switched',
           switched' = switched, row' = row,
           \A t \in Threads : pc'[t] = "install" => pc[t] = "install" /\ read'[t] = read[t],
           \A e \in EntryIds : Live(e)' => Live(e) /\ ent'[e].row = ent[e].row
    PROVE  OneConfig'
  BY DEF OneConfig

\* As long as the settings name one database, so does every row in use.
LEMMA OneConfigStep ==
    ASSUME TypeOK, PoolSound, OneConfig, [Next]_vars
    PROVE  OneConfig'
<1> SUFFICES ASSUME ~switched' PROVE OneConfig'
  BY DEF OneConfig
<1>0. TypeOK /\ PoolSound /\ OneConfig
  OBVIOUS
<1>1. ASSUME NEW t \in Threads, Request(t) PROVE OneConfig'
  <2>0. switched' = switched /\ row' = row
    BY <1>1 DEF Request, Begin, ReadRow, ReadFail, Install, NoConnection, Reuse, MustOpen, Open,
                OpenFail, Attach, Trip, Done
  <2>1. CASE Begin(t) \/ ReadFail(t) \/ Done(t)
    <3>1. /\ \A u \in Threads : pc'[u] = "install" => pc[u] = "install" /\ read'[u] = read[u]
          /\ UNCHANGED <<cur, ent>>
      BY <1>0, <2>1 DEF Begin, ReadFail, Done, Finish, TypeOK
    <3>2. \A u \in Threads : /\ seen'[u] \in {seen[u], cur, None}
                             /\ mine'[u] \in {mine[u], seen[u], cur, None}
      BY <1>0, <2>1 DEF Begin, ReadFail, Done, Finish, TypeOK
    <3>3. \A e \in EntryIds : Live(e)' => Live(e)
      BY <3>1, <3>2, NoneAssumption DEF Live, Refers
    <3> QED BY <2>0, <3>1, <3>3, SameRows
  <2>2. CASE ReadRow(t)
    <3>1. /\ UNCHANGED <<cur, ent, seen, mine>>
          /\ \A u \in Threads : pc'[u] = "install" =>
                read'[u] = row \/ (pc[u] = "install" /\ read'[u] = read[u])
      BY <1>0, <2>2 DEF ReadRow, TypeOK
    <3> QED BY <1>0, <2>0, <3>1 DEF OneConfig, Live, Refers
  <2>3. CASE Install(t)
    <3>1. PICK e \in EntryIds :
             /\ cur' = e /\ mine' = [mine EXCEPT ![t] = e] /\ ent'[e].row = read[t]
             /\ \A x \in EntryIds \ {e} : ent'[x].row = ent[x].row
      BY <2>3, InstallEffect
    <3>2. /\ seen' = [seen EXCEPT ![t] = None] /\ read' = [read EXCEPT ![t] = None]
          /\ pc' = [pc EXCEPT ![t] = "check"] /\ pc[t] = "install"
      BY <2>3 DEF Install
    <3>3. \A x \in EntryIds \ {e} : Live(x)' => Live(x)
      BY <1>0, <3>1, <3>2, NoneAssumption DEF Live, Refers, TypeOK
    <3>4. \A u \in Threads : pc'[u] = "install" => pc[u] = "install" /\ read'[u] = read[u]
      BY <1>0, <3>2 DEF TypeOK
    <3> QED BY <1>0, <2>0, <3>1, <3>2, <3>3, <3>4 DEF OneConfig
  <2>4. CASE NoConnection(t) \/ Reuse(t) \/ MustOpen(t) \/ Open(t) \/ OpenFail(t) \/ Attach(t)
             \/ Trip(t)
    <3>1. /\ UNCHANGED <<cur, seen, mine, read>>
          /\ \A u \in Threads : pc'[u] = "install" => pc[u] = "install"
      BY <1>0, <2>4 DEF NoConnection, Reuse, MustOpen, Open, OpenFail, Attach, Trip, TypeOK, threadVars
    <3>2. \A x \in EntryIds : ent'[x].row = ent[x].row
      BY <2>4, MarkEffect, AttachEffect DEF NoConnection, Reuse, MustOpen, Open
    <3> QED BY <2>0, <3>1, <3>2, SameRows DEF Live, Refers
  <2> QED BY <1>1, <2>1, <2>2, <2>3, <2>4 DEF Request
<1>2. CASE Save
  <2>1. ~switched /\ row'.sealed = row.sealed
    BY <1>2 DEF Save
  <2>2. UNCHANGED <<cur, ent, pc, seen, mine, read>>
    BY <1>2 DEF Save, threadVars
  <2> QED BY <1>0, <2>1, <2>2 DEF OneConfig, Live, Refers
<1>3. CASE Invalidate \/ RowTTL \/ (\E e \in EntryIds : RetryAfter(e))
  <2>1. \A x \in EntryIds : ent'[x].row = ent[x].row
    BY <1>3, MarkEffect
  <2>2. UNCHANGED <<row, switched, cur, pc, seen, mine, read>>
    BY <1>3 DEF Invalidate, RowTTL, RetryAfter, threadVars
  <2> QED BY <2>1, <2>2, SameRows DEF Live, Refers
<1>4. CASE (\E s \in StoreIds : CloseGrace(s)) \/ UNCHANGED vars
  <2>1. UNCHANGED <<row, switched, cur, ent, pc, seen, mine, read>>
    BY <1>4 DEF CloseGrace, threadVars, vars
  <2> QED BY <2>1, SameRows DEF Live, Refers
<1> QED BY <1>1, <1>2, <1>3, <1>4 DEF Next

\* Steps that change neither a connection's state nor the current entry's
\* connection, and end no attempt to attach one, leak nothing.
LEMMA SameConns ==
    ASSUME NoLeak, switched => switched', cur' = cur,
           cur # None => ent'[cur].store = ent[cur].store,
           \A s \in StoreIds : conn'[s].state = "open" => conn[s].state = "open",
           \A t \in Threads : pc[t] = "attach" => pc'[t] = "attach" /\ got'[t] = got[t]
    PROVE  NoLeak'
  BY DEF NoLeak

\* No step leaks a connection.
LEMMA NoLeakStep ==
    ASSUME TypeOK, PoolSound, OneConfig, NoLeak, [Next]_vars
    PROVE  NoLeak'
<1>0. TypeOK /\ PoolSound /\ OneConfig /\ NoLeak
  OBVIOUS
<1>1. ASSUME NEW t \in Threads, Request(t) PROVE NoLeak'
  <2>0. switched' = switched
    BY <1>1 DEF Request, Begin, ReadRow, ReadFail, Install, NoConnection, Reuse, MustOpen, Open,
                OpenFail, Attach, Trip, Done
  <2>1. CASE Begin(t) \/ ReadRow(t) \/ ReadFail(t) \/ NoConnection(t) \/ Reuse(t) \/ MustOpen(t)
             \/ Done(t)
    <3>1. /\ UNCHANGED <<cur, ent, conn>>
          /\ \A u \in Threads : pc[u] = "attach" => pc'[u] = "attach" /\ got'[u] = got[u]
      BY <1>0, <2>1 DEF Begin, ReadRow, ReadFail, NoConnection, Reuse, MustOpen, Done, Finish, TypeOK
    <3> QED BY <2>0, <3>1, SameConns
  <2>2. CASE OpenFail(t) \/ Trip(t)
    <3>1. /\ UNCHANGED <<cur, conn>>
          /\ \A u \in Threads : pc[u] = "attach" => pc'[u] = "attach" /\ got'[u] = got[u]
      BY <1>0, <2>2 DEF OpenFail, Trip, TypeOK, threadVars
    <3>2. cur # None => ent'[cur].store = ent[cur].store
      BY <1>0, <2>2, MarkEffect DEF TypeOK
    <3> QED BY <2>0, <3>1, <3>2, SameConns
  <2>3. CASE Install(t)
    <3> DEFINE rel == Releases(read[t])
    <3>1. PICK e \in EntryIds :
             /\ cur' = e
             /\ IF Keeps(read[t]) THEN ent'[e].store = ent[cur].store ELSE ent'[e].store = None
             /\ \A s \in StoreIds :
                   conn'[s].state = IF s = rel THEN "closing" ELSE conn[s].state
      BY <2>3, InstallEffect
    <3>2. \A u \in Threads : pc[u] = "attach" => pc'[u] = "attach" /\ got'[u] = got[u]
      BY <1>0, <2>3 DEF Install, TypeOK
    <3>3. cur # None /\ ~Keeps(read[t]) => rel = ent[cur].store
      BY DEF Releases
    <3> QED BY <1>0, <2>0, <3>1, <3>2, <3>3, NoneAssumption DEF NoLeak
  <2>4. CASE Open(t)
    <3>1. PICK s \in StoreIds :
             /\ FreeConn(s)
             /\ conn' = [conn EXCEPT ![s] = [sealed |-> ent[mine[t]].row.sealed, state |-> "open"]]
             /\ got' = [got EXCEPT ![t] = s]
      BY <2>4 DEF Open
    <3>2. UNCHANGED <<cur, ent>> /\ pc' = [pc EXCEPT ![t] = "attach"] /\ pc[t] = "open"
      BY <2>4 DEF Open
    <3>3. \A x \in StoreIds \ {s} : conn'[x] = conn[x]
      BY <1>0, <3>1 DEF TypeOK
    <3>4. /\ pc'[t] = "attach" /\ got'[t] = s
          /\ \A u \in Threads : pc[u] = "attach" => pc'[u] = "attach" /\ got'[u] = got[u]
      BY <1>0, <3>1, <3>2 DEF TypeOK
    <3> QED BY <1>0, <2>0, <3>2, <3>3, <3>4 DEF NoLeak
  <2>5. CASE Attach(t)
    <3> SUFFICES ASSUME ~switched, NEW s \in StoreIds, conn'[s].state = "open"
                 PROVE  \/ cur' # None /\ ent'[cur'].store = s
                        \/ \E u \in Threads : pc'[u] = "attach" /\ got'[u] = s
      BY <2>0 DEF NoLeak
    <3>1. /\ pc[t] = "attach" /\ cur' = cur /\ pc' = [pc EXCEPT ![t] = "using"]
      BY <2>5 DEF Attach
    <3>2. cur \in EntryIds /\ cur # None /\ Live(cur) /\ mine[t] \in EntryIds /\ Live(mine[t])
      BY <3>1, TargetSound, NoneAssumption DEF Live, Refers
    <3>3. ent[mine[t]].row.sealed = conn[got[t]].sealed
      BY <3>1, TargetSound
    <3>4. Target(t) = cur
      BY <1>0, <3>2, <3>3 DEF OneConfig, Target
    <3>5. CASE s = got[t]
      BY <3>1, <3>2, <3>4, <3>5, <2>5, AttachEffect
    <3>6. CASE s # got[t]
      <4>1. conn[s].state = "open" /\ \A u \in Threads \ {t} : got'[u] = got[u] /\ pc'[u] = pc[u]
        BY <1>0, <2>5, <3>1, <3>6, AttachEffect DEF TypeOK
      <4>2. ent[cur].store # None => ent'[cur].store = ent[cur].store
        BY <2>5, <3>4, AttachEffect
      <4>3. ent[cur].store = s \/ \E u \in Threads : pc[u] = "attach" /\ got[u] = s
        BY <1>0, <4>1 DEF NoLeak
      <4> QED BY <3>1, <3>2, <3>6, <4>1, <4>2, <4>3, NoneAssumption
    <3> QED BY <3>5, <3>6
  <2> QED BY <1>1, <2>1, <2>2, <2>3, <2>4, <2>5 DEF Request
<1>2. CASE Invalidate \/ RowTTL \/ (\E e \in EntryIds : RetryAfter(e))
  <2>1. cur # None => ent'[cur].store = ent[cur].store
    BY <1>0, <1>2, MarkEffect DEF TypeOK
  <2>2. UNCHANGED <<switched, cur, conn, pc, got>>
    BY <1>2 DEF Invalidate, RowTTL, RetryAfter, threadVars
  <2> QED BY <2>1, <2>2, SameConns
<1>3. CASE Save \/ UNCHANGED vars
  <2>1. UNCHANGED <<cur, ent, conn, pc, got>>
    BY <1>3 DEF Save, threadVars, vars
  <2>2. switched => switched'
    BY <1>3, Zenon DEF Save, vars
  <2> QED BY <2>1, <2>2, SameConns
<1>4. ASSUME NEW s \in StoreIds, CloseGrace(s) PROVE NoLeak'
  <2>1. /\ UNCHANGED <<switched, cur, ent, pc, got>>
        /\ \A x \in StoreIds : conn'[x].state = "open" => conn[x].state = "open"
    BY <1>0, <1>4 DEF CloseGrace, threadVars, TypeOK, Conns
  <2> QED BY <2>1, SameConns
<1> QED BY <1>1, <1>2, <1>3, <1>4 DEF Next

-----------------------------------------------------------------------------
(* A change takes effect.                                                  *)

\* The versions of the rows in use are numbers.
LEMMA VersionTypes ==
    ASSUME TypeOK, PoolSound
    PROVE  /\ saves \in Int /\ settled \in Int /\ row.ver \in Int /\ settled <= MaxSaves
           /\ \A t \in Threads : since[t] \in Int
           /\ \A t \in Threads : pc[t] = "install" => read[t].ver \in Int
           /\ \A e \in EntryIds : Live(e) => ent[e].row.ver \in Int
<1>1. \A r \in Rows : r.ver \in 0..MaxSaves
  BY DEF Rows
<1> QED BY <1>1, PoolAssumption DEF TypeOK, PoolSound, Locals, EntriesSound, EntrySound

\* Fresh and TakesEffect together are kept by every step.
LEMMA EffectStep ==
    ASSUME TypeOK, PoolSound, Fresh, TakesEffect, [Next]_vars
    PROVE  Fresh' /\ TakesEffect'
<1>0. TypeOK /\ PoolSound /\ Locals /\ Fresh /\ TakesEffect
  BY DEF PoolSound
<1>1. /\ \A t \in Threads : pc[t] \in Holding => mine[t] \in EntryIds /\ Live(mine[t])
      /\ cur # None => cur \in EntryIds /\ Live(cur)
  BY <1>0, NoneAssumption DEF TypeOK, Live, Refers
<1>2. ASSUME NEW t \in Threads, Request(t) PROVE Fresh' /\ TakesEffect'
  <2>0. UNCHANGED <<row, saves, settled>>
    BY <1>2 DEF Request, Begin, ReadRow, ReadFail, Install, NoConnection, Reuse, MustOpen, Open,
                OpenFail, Attach, Trip, Done
  <2>1. CASE Begin(t)
    <3>1. /\ since'[t] = settled
          /\ UNCHANGED <<cur, ent, read>>
          /\ \A u \in Threads \ {t} : /\ since'[u] = since[u] /\ pc'[u] = pc[u]
                                      /\ mine'[u] = mine[u]
          /\ \/ cur # None /\ ent[cur].fresh /\ pc'[t] = "check" /\ mine'[t] = cur
             \/ pc'[t] = "read"
      BY <1>0, <2>1 DEF Begin, TypeOK
    <3> QED BY <1>0, <1>1, <2>0, <3>1, VersionTypes DEF Fresh, TakesEffect, Holding
  <2>2. CASE ReadRow(t)
    <3>1. /\ UNCHANGED <<cur, ent, since, mine>>
          /\ pc'[t] = "install" /\ read'[t] = row
          /\ \A u \in Threads \ {t} : pc'[u] = pc[u] /\ read'[u] = read[u]
      BY <1>0, <2>2 DEF ReadRow, TypeOK
    <3> QED BY <1>0, <2>0, <3>1, VersionTypes DEF Fresh, TakesEffect, Holding
  <2>3. CASE ReadFail(t) \/ Done(t)
    <3>1. /\ UNCHANGED <<cur, ent>>
          /\ since'[t] = 0
          /\ pc'[t] # "idle" => pc'[t] = "check" /\ mine'[t] = seen[t] /\ seen[t] # None
          /\ \A u \in Threads \ {t} : /\ pc'[u] = pc[u] /\ read'[u] = read[u]
                                      /\ since'[u] = since[u] /\ mine'[u] = mine[u]
      <4>1. CASE ReadFail(t) /\ seen[t] # None
        BY <1>0, <4>1 DEF ReadFail, TypeOK
      <4>2. CASE Finish(t) /\ UNCHANGED <<cur, ent>>
        BY <1>0, <4>2 DEF Finish, TypeOK
      <4> QED BY <2>3, <4>1, <4>2 DEF ReadFail, Done
    <3>2. seen[t] # None => ent[seen[t]].row.ver \in 0..MaxSaves
      BY <1>0 DEF TypeOK, PoolSound, EntriesSound, EntrySound, Live, Refers, Rows
    <3>3. settled >= 0
      BY <1>0, PoolAssumption DEF TypeOK
    <3> QED BY <1>0, <2>0, <3>1, <3>2, <3>3, PoolAssumption DEF Fresh, TakesEffect, Holding
  <2>4. CASE Install(t)
    <3>1. PICK e \in EntryIds :
             /\ FreeEntry(e) /\ cur' = e /\ mine' = [mine EXCEPT ![t] = e]
             /\ ent'[e].row = read[t]
             /\ \A x \in EntryIds \ {e} : ent'[x].row = ent[x].row
      BY <2>4, InstallEffect
    <3>2. /\ pc[t] = "install" /\ pc'[t] = "check" /\ mine'[t] = e /\ since' = since
          /\ \A u \in Threads \ {t} : /\ pc'[u] = pc[u] /\ read'[u] = read[u]
                                      /\ mine'[u] = mine[u] /\ mine[u] # e
      BY <1>0, <2>4, <3>1 DEF Install, TypeOK, FreeEntry
    <3>3. read[t].ver >= settled /\ read[t].ver >= since[t]
      BY <1>0, <3>2, VersionTypes DEF Fresh
    <3>4. Fresh'
      BY <1>0, <2>0, <3>1, <3>2, <3>3 DEF Fresh
    <3>5. TakesEffect'
      BY <1>0, <1>1, <3>1, <3>2, <3>3 DEF TakesEffect
    <3> QED BY <3>4, <3>5
  <2>5. CASE NoConnection(t) \/ Reuse(t) \/ MustOpen(t) \/ Open(t) \/ OpenFail(t) \/ Attach(t)
             \/ Trip(t)
    <3>1. /\ UNCHANGED <<cur, since, mine, read>>
          /\ pc[t] \in Holding /\ pc'[t] \in Holding
          /\ \A u \in Threads \ {t} : pc'[u] = pc[u]
      BY <1>0, <2>5 DEF NoConnection, Reuse, MustOpen, Open, OpenFail, Attach, Trip, TypeOK,
                        threadVars, Holding
    <3>2. \A x \in EntryIds : ent'[x].row = ent[x].row /\ (ent'[x].fresh => ent[x].fresh)
      BY <2>5, MarkEffect, AttachEffect DEF NoConnection, Reuse, MustOpen, Open
    <3> QED BY <1>0, <1>1, <2>0, <3>1, <3>2 DEF Fresh, TakesEffect, Holding
  <2> QED BY <1>2, <2>1, <2>2, <2>3, <2>4, <2>5 DEF Request
<1>3. CASE Save
  <2>1. row'.ver = saves + 1 /\ saves' = saves + 1 /\ UNCHANGED <<settled, cur, ent, threadVars>>
    BY <1>3 DEF Save
  <2> QED BY <1>0, <2>1, VersionTypes DEF Fresh, TakesEffect, threadVars
<1>4. CASE Invalidate
  <2>1. /\ \A x \in EntryIds : ent'[x].row = ent[x].row
        /\ UNCHANGED <<row, saves, cur, threadVars>>
    BY <1>4, MarkEffect DEF Invalidate
  <2>2. cur # None => ~ent'[cur].fresh
    <3> SUFFICES ASSUME cur # None PROVE ~ent'[cur].fresh
      OBVIOUS
    <3>1. ent' = [ent EXCEPT ![cur].fresh = FALSE, ![cur].err = FALSE]
      BY <1>4 DEF Invalidate
    <3> QED BY <1>0, <1>1, <3>1 DEF TypeOK, Entries
  <2>3. /\ settled' = settled \/ settled' = saves
        /\ (\E t \in Threads : pc[t] = "install") => settled' = settled
    BY <1>4 DEF Invalidate, Settle
  <2> QED BY <1>0, <1>1, <2>1, <2>2, <2>3, VersionTypes DEF Fresh, TakesEffect, threadVars
<1>5. CASE RowTTL \/ (\E e \in EntryIds : RetryAfter(e))
  <2>1. \A x \in EntryIds : ent'[x].row = ent[x].row /\ (ent'[x].fresh => ent[x].fresh)
    BY <1>5, MarkEffect
  <2>2. UNCHANGED <<row, saves, settled, cur, threadVars>>
    BY <1>5 DEF RowTTL, RetryAfter
  <2> QED BY <1>0, <1>1, <2>1, <2>2 DEF Fresh, TakesEffect, threadVars
<1>6. CASE (\E s \in StoreIds : CloseGrace(s)) \/ UNCHANGED vars
  <2>1. UNCHANGED <<row, saves, settled, cur, ent, threadVars>>
    BY <1>6 DEF CloseGrace, vars
  <2> QED BY <1>0, <2>1 DEF Fresh, TakesEffect, threadVars
<1> QED BY <1>2, <1>3, <1>4, <1>5, <1>6 DEF Next

-----------------------------------------------------------------------------
(* The theorems.                                                           *)

LEMMA InitSound == Init => TypeOK /\ PoolSound
<1> SUFFICES ASSUME Init PROVE TypeOK /\ PoolSound
  OBVIOUS
<1>1. /\ EmptyEntry \in Entries /\ Closed \in Conns
      /\ \A e \in EntryIds : ent[e] = EmptyEntry
      /\ cur = None
      /\ \A t \in Threads : /\ pc[t] = "idle" /\ seen[t] = None /\ mine[t] = None
                            /\ read[t] = None /\ got[t] = None
  BY DEF Init, EmptyEntry, Entries, Closed, Conns
<1>2. TypeOK
  BY <1>1, PoolAssumption DEF Init, TypeOK, Rows, Holding
<1>3. \A e \in EntryIds : ~Live(e)
  BY <1>1, NoneAssumption DEF Live, Refers
<1>4. PoolSound
  BY <1>1, <1>3 DEF PoolSound, Locals, EntriesSound, EntrySound, HeldSound, OwnedSound
<1> QED BY <1>2, <1>4

\* Every handler leaves the cache, the connections and its own locals well
\* formed, and the pool sound.
THEOREM PoolInvariant == Spec => [](TypeOK /\ PoolSound)
<1>1. TypeOK /\ PoolSound /\ [Next]_vars => (TypeOK /\ PoolSound)'
  BY TypeStep, SoundStep
<1> QED BY <1>1, InitSound, PTL DEF Spec

\* TypeOK holds in every state: an entry in use has a row, a request that is
\* about to attach a connection has one.
THEOREM TypeCorrect == Spec => []TypeOK
  BY PoolInvariant, PTL

\* A connection is closed only under requests that were running when it was
\* replaced: entry and resolve hand a later one the connection of the current
\* entry, whose close nobody has scheduled.
THEOREM NewRequestsFindItOpen == Spec => []ClosedOnlyUnderOld
<1>1. TypeOK /\ PoolSound => ClosedOnlyUnderOld
  BY DEF PoolSound, HeldSound, ClosedOnlyUnderOld
<1> QED BY <1>1, PoolInvariant, PTL

\* A request writes only to the database its own row names, whichever entry
\* resolve attached its connection to.
THEOREM AlwaysOwnDatabase == Spec => []OwnDatabase
<1>1. TypeOK /\ PoolSound => OwnDatabase
  BY DEF PoolSound, HeldSound, OwnDatabase
<1> QED BY <1>1, PoolInvariant, PTL

\* While the settings name one database, every open connection is on the
\* current entry or with the request that is about to attach it: Install and
\* Attach close or hand on whatever they replace.
THEOREM NeverLeaks == Spec => []NoLeak
<1>1. Init => OneConfig /\ NoLeak
  <2> SUFFICES ASSUME Init PROVE OneConfig /\ NoLeak
    OBVIOUS
  <2>1. \A e \in EntryIds : ~Live(e)
    BY NoneAssumption DEF Init, Live, Refers
  <2> QED BY <2>1 DEF Init, OneConfig, NoLeak, Closed
<1>2. TypeOK /\ PoolSound /\ OneConfig /\ NoLeak /\ [Next]_vars => OneConfig' /\ NoLeak'
  BY OneConfigStep, NoLeakStep
<1> QED BY <1>1, <1>2, PoolInvariant, PTL DEF Spec

\* A request that starts after the Invalidate of a settings change uses that
\* change or a later one, unless a row read earlier was just being installed:
\* a fresh entry is never older than the last change that settled.
THEOREM ChangeTakesEffect == Spec => []TakesEffect
<1>1. Init => Fresh /\ TakesEffect
  BY DEF Init, Fresh, TakesEffect, Holding
<1>2. TypeOK /\ PoolSound /\ Fresh /\ TakesEffect /\ [Next]_vars => Fresh' /\ TakesEffect'
  BY EffectStep
<1> QED BY <1>1, <1>2, PoolInvariant, PTL DEF Spec
=============================================================================
