------------------------ MODULE ResidencySettingsProofs ------------------------
(***************************************************************************)
(* Proofs about ResidencySettings, for any number of administrators,       *)
(* goroutines and configurations.                                          *)
(***************************************************************************)
EXTENDS ResidencySettings, FiniteSetTheorems, TLAPS

\* The row somebody has loaded, and nobody has written since, differs from the
\* stored one only in what its own operation changes, and not in the move;
\* during a move that can only be switching on.
OwnCopy ==
    \A a \in Admins : apc[a] = "save" /\ a \notin stale =>
        /\ \A k \in Kinds : mem[a].conf[k] # row.conf[k] =>
              op[a].do \in {"connect", "disconnect"} /\ op[a].kind = k
        /\ mem[a].migration = row.migration
        /\ mem[a].migration = "running" => op[a].do = "enable"
        /\ op[a].do = "enable" => mem[a].enabled

\* While a move runs the row says so, names the connections it copies to, and
\* has them switched on; and the move is the only one.
Guarded(m) ==
    /\ row.migration = "running" /\ row.enabled
    /\ \A k \in Kinds : mover[m][k] # None => row.conf[k] = mover[m][k]
    /\ \A n \in Moves : mover[n] # None => n = m

\* That holds until an outdated row is saved.
MoveGuarded == ~raced => \A m \in Moves : mover[m] # None => Guarded(m)

\* Every load of the row is one of four operations, each with its own change.
LEMMA LoadEffect ==
    ASSUME TypeOK, NEW a \in Admins, SetEnabled(a) \/ SaveConnection(a) \/ Disconnect(a)
    PROVE  \E o \in Ops, r \in Rows :
              /\ Load(a, o, r)
              /\ r.migration = row.migration
              /\ row.migration = "running" => o.do = "enable"
              /\ o.do = "enable" => r.enabled
              /\ \A k \in Kinds : r.conf[k] # row.conf[k] =>
                    o.do \in {"connect", "disconnect"} /\ o.kind = k
<1> DEFINE Fits(o, r) == /\ Load(a, o, r)
                         /\ r.migration = row.migration
                         /\ row.migration = "running" => o.do = "enable"
                         /\ o.do = "enable" => r.enabled
                         /\ \A k \in Kinds : r.conf[k] # row.conf[k] =>
                               o.do \in {"connect", "disconnect"} /\ o.kind = k
<1>0. row \in Rows /\ row.conf \in Conf
  BY DEF TypeOK, Rows
<1>1. CASE Load(a, [do |-> "enable"], [row EXCEPT !.enabled = TRUE])
  <2>1. [row EXCEPT !.enabled = TRUE] \in Rows /\ [do |-> "enable"] \in Ops
    BY <1>0 DEF Rows, Ops
  <2>2. Fits([do |-> "enable"], [row EXCEPT !.enabled = TRUE])
    BY <1>0, <1>1 DEF Rows
  <2> QED BY <2>1, <2>2
<1>2. CASE row.migration # "running" /\ Load(a, [do |-> "disable"], [row EXCEPT !.enabled = FALSE])
  <2>1. [row EXCEPT !.enabled = FALSE] \in Rows /\ [do |-> "disable"] \in Ops
    BY <1>0 DEF Rows, Ops
  <2>2. Fits([do |-> "disable"], [row EXCEPT !.enabled = FALSE])
    BY <1>0, <1>2 DEF Rows
  <2> QED BY <2>1, <2>2
<1>3. ASSUME NEW k \in Kinds, NEW c \in Configs, row.migration # "running",
             Load(a, [do |-> "connect", kind |-> k, to |-> c],
                  [row EXCEPT !.conf[k] = c, !.status[k] = "connected"])
      PROVE  \E o \in Ops, r \in Rows : Fits(o, r)
  <2> DEFINE o == [do |-> "connect", kind |-> k, to |-> c]
             r == [row EXCEPT !.conf[k] = c, !.status[k] = "connected"]
  <2>1. o \in Ops /\ r \in Rows
    BY <1>0 DEF Rows, Ops, Conf, Status
  <2>2. r.migration = row.migration /\ \A j \in Kinds \ {k} : r.conf[j] = row.conf[j]
    BY <1>0 DEF Rows, Conf
  <2>3. Fits(o, r)
    BY <1>3, <2>2
  <2> QED BY <2>1, <2>3
<1>4. ASSUME NEW k \in Kinds, row.migration # "running",
             Load(a, [do |-> "disconnect", kind |-> k],
                  [row EXCEPT !.conf[k] = None, !.status[k] = "not_configured"])
      PROVE  \E o \in Ops, r \in Rows : Fits(o, r)
  <2> DEFINE o == [do |-> "disconnect", kind |-> k]
             r == [row EXCEPT !.conf[k] = None, !.status[k] = "not_configured"]
  <2>1. o \in Ops /\ r \in Rows
    BY <1>0 DEF Rows, Ops, Conf, Status
  <2>2. r.migration = row.migration /\ \A j \in Kinds \ {k} : r.conf[j] = row.conf[j]
    BY <1>0 DEF Rows, Conf
  <2>3. Fits(o, r)
    BY <1>4, <2>2
  <2> QED BY <2>1, <2>3
<1> QED BY <1>1, <1>2, <1>3, <1>4, Zenon DEF SetEnabled, SaveConnection, Disconnect

\* The status of a connection can be changed, and a move claimed or ended,
\* without touching the configuration.
LEMMA UpdateTypes ==
    ASSUME TypeOK
    PROVE  /\ \A k \in Kinds, x \in Status :
                 /\ [row EXCEPT !.status[k] = x] \in Rows
                 /\ [row EXCEPT !.status[k] = x].conf = row.conf
                 /\ [row EXCEPT !.status[k] = x].enabled = row.enabled
                 /\ [row EXCEPT !.status[k] = x].migration = row.migration
           /\ \A x \in {"idle", "running", "done", "failed"} :
                 /\ [row EXCEPT !.migration = x] \in Rows
                 /\ [row EXCEPT !.migration = x].conf = row.conf
                 /\ [row EXCEPT !.migration = x].enabled = row.enabled
                 /\ [row EXCEPT !.migration = x].migration = x
<1>1. row \in Rows /\ row.status \in [Kinds -> Status]
  BY DEF TypeOK, Rows
<1>2. ASSUME NEW k \in Kinds, NEW x \in Status
      PROVE  /\ [row EXCEPT !.status[k] = x] \in Rows
             /\ [row EXCEPT !.status[k] = x].conf = row.conf
             /\ [row EXCEPT !.status[k] = x].enabled = row.enabled
             /\ [row EXCEPT !.status[k] = x].migration = row.migration
  BY <1>1 DEF Rows
<1> QED BY <1>1, <1>2 DEF Rows

\* Blank is a row.
LEMMA BlankType == Blank \in Rows
  BY DEF Blank, Rows, Conf, Status

\* What one health check does to the row: at most its own status.  The death
\* of its process ends moves.
LEMMA HealthEffect ==
    ASSUME TypeOK, Health
    PROVE  /\ row' \in Rows
           /\ row'.conf = row.conf /\ row'.enabled = row.enabled /\ row'.migration = row.migration
           /\ UNCHANGED <<apc, op, mem, stale, raced>>
           /\ mover' \in [Moves -> Conf \cup {None}]
           /\ \A m \in Moves : mover'[m] # None => mover'[m] = mover[m]
<1>1. CASE CheckAll \/ Check
  BY <1>1 DEF CheckAll, Check, adminVars, raceVars, TypeOK
<1>2. CASE RecordUp \/ RecordDown
  <2>1. row' = row \/ \E x \in Status : row' = [row EXCEPT !.status[hkind] = x]
    BY <1>2 DEF RecordUp, RecordDown, Status
  <2>2. hkind \in Kinds /\ row \in Rows /\ mover \in [Moves -> Conf \cup {None}]
    BY DEF TypeOK
  <2>3. UNCHANGED <<apc, op, mem, mover, stale, raced>>
    BY <1>2 DEF RecordUp, RecordDown, adminVars, raceVars
  <2>4. ASSUME NEW x \in Status, row' = [row EXCEPT !.status[hkind] = x]
        PROVE  /\ row' \in Rows /\ row'.conf = row.conf /\ row'.enabled = row.enabled
               /\ row'.migration = row.migration
    BY <2>2, <2>4, UpdateTypes, Zenon
  <2> QED BY <2>1, <2>2, <2>3, <2>4
<1>3. CASE CheckPanics \/ ProcessDies
  <2>1. PICK gone \in SUBSET Moves :
              mover' = [m \in Moves |-> IF m \in gone THEN None ELSE mover[m]]
    BY <1>3 DEF CheckPanics, ProcessDies
  <2>2. mover' \in [Moves -> Conf \cup {None}]
    BY <2>1 DEF TypeOK
  <2>3. row' = row /\ UNCHANGED <<apc, op, mem, stale, raced>>
    BY <1>3 DEF CheckPanics, ProcessDies, adminVars, raceVars
  <2> QED BY <2>1, <2>2, <2>3 DEF TypeOK
<1> QED BY <1>1, <1>2, <1>3 DEF Health

\* The health check keeps its own variables well formed.
LEMMA HealthTypes ==
    ASSUME TypeOK, Health
    PROVE  /\ hpc' \in {"idle", "check", "record"} /\ hrow' \in Rows
           /\ hkind' \in Kinds /\ herr' \in BOOLEAN
           /\ streak' \in [Kinds -> 0..1]
<1> USE DEF TypeOK
<1>1. CASE CheckAll
  <2>1. hkind' \in Kinds
    BY <1>1, KindAssumption DEF CheckAll
  <2> QED BY <1>1, <2>1 DEF CheckAll
<1>2. CASE Check
  <2>1. herr' \in BOOLEAN /\ hpc' = "record"
    BY <1>2 DEF Check
  <2> QED BY <1>2, <2>1 DEF Check
<1>3. CASE RecordUp \/ RecordDown
  <2>1. hpc' \in {"idle", "check", "record"} /\ hrow' \in Rows /\ hkind' \in Kinds /\ herr' \in BOOLEAN
    BY <1>3, KindAssumption, BlankType DEF RecordUp, RecordDown, NextCheck
  <2>2. streak' \in [Kinds -> 0..1]
    BY <1>3 DEF RecordUp, RecordDown
  <2> QED BY <2>1, <2>2
<1>4. CASE CheckPanics \/ ProcessDies
  <2>1. streak' = [k \in Kinds |-> 0] /\ hkind' = "db" /\ hrow' = Blank /\ hpc' = "idle" /\ herr' = FALSE
    BY <1>4 DEF CheckPanics, ProcessDies
  <2>2. streak' \in [Kinds -> 0..1]
    BY <2>1
  <2> QED BY <2>1, <2>2, KindAssumption, BlankType, Zenon
<1> QED BY <1>1, <1>2, <1>3, <1>4 DEF Health

\* The configurations a move copies to.
LEMMA MoverType ==
    ASSUME TypeOK
    PROVE  [k \in Kinds |-> IF Active(row, k) THEN row.conf[k] ELSE None] \in Conf
  BY DEF TypeOK, Rows, Conf

\* What claiming, starting and ending a move do to the row and the goroutines.
LEMMA MoveEffect ==
    ASSUME TypeOK, NEW m \in Moves, Move(m) \/ \E a \in Admins : Claim(a, m)
    PROVE  /\ row' \in Rows /\ row'.conf = row.conf /\ row'.enabled = row.enabled
           /\ mover' \in [Moves -> Conf \cup {None}]
           /\ stale' \subseteq Admins /\ raced' = raced
           /\ UNCHANGED <<op, mem, healthVars>>
<1>1. ASSUME NEW a \in Admins, Claim(a, m)
      PROVE  /\ row' \in Rows /\ row'.conf = row.conf /\ row'.enabled = row.enabled
             /\ mover' \in [Moves -> Conf \cup {None}]
             /\ stale' \subseteq Admins /\ raced' = raced
             /\ UNCHANGED <<op, mem, healthVars>>
  <2>1. Unread \in Conf
    BY DEF Unread, Conf
  <2> QED BY <1>1, <2>1, UpdateTypes DEF Claim, Claimed, TypeOK
<1>2. CASE StartMove(m)
  BY <1>2, MoverType DEF StartMove, TypeOK, adminVars, raceVars
<1>3. CASE FinishMove(m)
  <2>1. PICK s \in {"done", "failed", row.migration} : row' = [row EXCEPT !.migration = s]
    BY <1>3 DEF FinishMove
  <2>2. s \in {"idle", "running", "done", "failed"}
    BY <2>1 DEF TypeOK, Rows
  <2> QED BY <1>3, <2>1, <2>2, UpdateTypes DEF FinishMove, TypeOK, adminVars
<1>4. CASE CrashMove(m)
  BY <1>4 DEF CrashMove, TypeOK, adminVars, raceVars
<1> QED BY <1>1, <1>2, <1>3, <1>4 DEF Move

\* Every step keeps the state well formed.
LEMMA TypeStep ==
    ASSUME TypeOK, [Next]_vars
    PROVE  TypeOK'
<1>0. TypeOK
  OBVIOUS
<1>1. ASSUME NEW a \in Admins, SetEnabled(a) \/ SaveConnection(a) \/ Disconnect(a) PROVE TypeOK'
  <2>1. PICK o \in Ops, r \in Rows : Load(a, o, r)
    BY <1>1, LoadEffect
  <2> QED BY <1>0, <2>1 DEF Load, TypeOK, healthVars, raceVars
<1>2. ASSUME NEW a \in Admins, Save(a) \/ Abandon(a) PROVE TypeOK'
  <2>1. [do |-> "none"] \in Ops
    BY DEF Ops
  <2>2. stale' \subseteq Admins /\ raced' \in BOOLEAN
    BY <1>0, <1>2 DEF Save, Abandon, TypeOK
  <2> QED BY <1>0, <1>2, <2>1, <2>2, BlankType DEF Save, Abandon, Over, TypeOK, healthVars
<1>3. ASSUME NEW a \in Admins, MoveHistory(a) PROVE TypeOK'
  BY <1>0, <1>3 DEF MoveHistory, TypeOK, healthVars, raceVars
<1>4. ASSUME NEW a \in Admins, NEW m \in Moves, Claim(a, m) PROVE TypeOK'
  <2>1. apc' \in [Admins -> {"idle", "save", "claim"}]
    BY <1>0, <1>4 DEF Claim, Claimed, TypeOK
  <2> QED BY <1>0, <1>4, <2>1, MoveEffect DEF TypeOK, healthVars
<1>5. ASSUME NEW m \in Moves, Move(m) PROVE TypeOK'
  <2>1. apc' = apc
    BY <1>5 DEF Move, StartMove, FinishMove, CrashMove, adminVars
  <2> QED BY <1>0, <1>5, <2>1, MoveEffect DEF TypeOK, healthVars
<1>6. CASE Health
  BY <1>0, <1>6, HealthEffect, HealthTypes DEF TypeOK
<1>7. CASE UNCHANGED vars
  BY <1>0, <1>7 DEF TypeOK, vars, adminVars, healthVars, raceVars
<1> QED BY <1>1, <1>2, <1>3, <1>4, <1>5, <1>6, <1>7 DEF Next, Admin

\* OwnCopy and MoveGuarded together are kept by every step.
LEMMA GuardedStep ==
    ASSUME TypeOK, OwnCopy, MoveGuarded, [Next]_vars
    PROVE  OwnCopy' /\ MoveGuarded'
<1>0. TypeOK /\ OwnCopy /\ MoveGuarded
  OBVIOUS
<1>1. ASSUME NEW a \in Admins, SetEnabled(a) \/ SaveConnection(a) \/ Disconnect(a)
      PROVE  OwnCopy' /\ MoveGuarded'
  <2>1. PICK o \in Ops, r \in Rows :
              /\ Load(a, o, r)
              /\ r.migration = row.migration
              /\ row.migration = "running" => o.do = "enable"
              /\ o.do = "enable" => r.enabled
              /\ \A k \in Kinds : r.conf[k] # row.conf[k] =>
                    o.do \in {"connect", "disconnect"} /\ o.kind = k
    BY <1>1, LoadEffect
  <2>2. /\ UNCHANGED <<row, mover, stale, raced>> /\ op'[a] = o /\ mem'[a] = r
        /\ \A b \in Admins \ {a} : op'[b] = op[b] /\ mem'[b] = mem[b] /\ apc'[b] = apc[b]
    BY <1>0, <2>1 DEF Load, TypeOK, raceVars
  <2>3. OwnCopy'
    BY <1>0, <2>1, <2>2 DEF OwnCopy
  <2>4. MoveGuarded'
    BY <1>0, <2>2 DEF MoveGuarded, Guarded
  <2> QED BY <2>3, <2>4
<1>2. ASSUME NEW a \in Admins, Save(a) PROVE OwnCopy' /\ MoveGuarded'
  <2>1. /\ apc[a] = "save" /\ row' = mem[a] /\ mover' = mover /\ apc'[a] = "idle"
        /\ stale' = (stale \cup {b \in Admins : apc[b] = "save"}) \ {a}
        /\ raced' = (raced \/ a \in stale)
        /\ \A b \in Admins \ {a} : apc'[b] = apc[b]
    BY <1>0, <1>2 DEF Save, Over, TypeOK
  <2>2. OwnCopy'
    BY <2>1 DEF OwnCopy
  <2>3. ASSUME ~raced', NEW m \in Moves, mover'[m] # None PROVE Guarded(m)'
    <3>1. ~raced /\ a \notin stale /\ mover[m] # None
      BY <2>1, <2>3
    <3>2. Guarded(m)
      BY <1>0, <3>1 DEF MoveGuarded
    <3>3. mem[a].migration = "running" /\ op[a].do = "enable" /\ mem[a].enabled
      BY <1>0, <2>1, <3>1, <3>2 DEF OwnCopy, Guarded
    <3>4. \A k \in Kinds : mem[a].conf[k] = row.conf[k]
      BY <1>0, <2>1, <3>1, <3>3 DEF OwnCopy
    <3> QED BY <2>1, <3>2, <3>3, <3>4 DEF Guarded
  <2> QED BY <2>2, <2>3 DEF MoveGuarded
<1>3. ASSUME NEW a \in Admins, Abandon(a) \/ MoveHistory(a) PROVE OwnCopy' /\ MoveGuarded'
  <2>1. /\ UNCHANGED <<row, mover, raced>> /\ apc'[a] # "save"
        /\ \A b \in Admins \ {a} : /\ op'[b] = op[b] /\ mem'[b] = mem[b] /\ apc'[b] = apc[b]
                                   /\ b \in stale' <=> b \in stale
    BY <1>0, <1>3 DEF Abandon, Over, MoveHistory, TypeOK, raceVars
  <2> QED BY <1>0, <2>1 DEF OwnCopy, MoveGuarded, Guarded
<1>4. ASSUME NEW a \in Admins, NEW m \in Moves, Claim(a, m) PROVE OwnCopy' /\ MoveGuarded'
  <2>1. /\ row.enabled /\ row.migration # "running"
        /\ row' = [row EXCEPT !.migration = "running"]
        /\ mover' = [mover EXCEPT ![m] = Unread]
        /\ raced' = raced
        /\ \A b \in Admins : apc'[b] = "save" => b \in stale'
    BY <1>0, <1>4 DEF Claim, Claimed, TypeOK
  <2>2. row'.conf = row.conf /\ row'.enabled = row.enabled /\ row'.migration = "running"
    BY <1>0, <2>1, UpdateTypes
  <2>3. OwnCopy'
    BY <2>1 DEF OwnCopy
  <2>4. ASSUME ~raced', NEW n \in Moves, mover'[n] # None PROVE Guarded(n)'
    <3>1. \A i \in Moves : mover[i] = None
      BY <1>0, <2>1, <2>4 DEF MoveGuarded, Guarded
    <3>2. n = m /\ mover'[n] = Unread /\ \A i \in Moves : mover'[i] # None => i = n
      BY <1>0, <2>1, <2>4, <3>1 DEF TypeOK
    <3>3. \A k \in Kinds : mover'[n][k] = None
      BY <3>2 DEF Unread
    <3> QED BY <2>1, <2>2, <3>2, <3>3 DEF Guarded
  <2> QED BY <2>3, <2>4 DEF MoveGuarded
<1>5. ASSUME NEW m \in Moves, StartMove(m) PROVE OwnCopy' /\ MoveGuarded'
  <2>1. /\ UNCHANGED <<row, apc, op, mem, stale, raced>> /\ mover[m] = Unread
        /\ mover' = [mover EXCEPT ![m] = [k \in Kinds |-> IF Active(row, k) THEN row.conf[k] ELSE None]]
    BY <1>5 DEF StartMove, adminVars, raceVars
  <2>2. OwnCopy'
    BY <1>0, <2>1 DEF OwnCopy
  <2>3. Unread # None
    <3>1. Unread \in [Kinds -> Configs \cup {None}]
      BY DEF Unread
    <3> QED BY <3>1, SettingsAssumption
  <2>4. MoveGuarded'
    BY <1>0, <2>1, <2>3 DEF MoveGuarded, Guarded, TypeOK
  <2> QED BY <2>2, <2>4
<1>6. ASSUME NEW m \in Moves, FinishMove(m) PROVE OwnCopy' /\ MoveGuarded'
  <2>1. /\ mover[m] # None /\ UNCHANGED <<apc, op, mem, raced>>
        /\ mover' = [mover EXCEPT ![m] = None]
        /\ \A b \in Admins : apc[b] = "save" => b \in stale'
    BY <1>6 DEF FinishMove, adminVars
  <2>2. OwnCopy'
    BY <2>1 DEF OwnCopy
  <2>3. ~raced' => \A n \in Moves : mover'[n] = None
    BY <1>0, <2>1 DEF MoveGuarded, Guarded, TypeOK
  <2> QED BY <2>2, <2>3 DEF MoveGuarded
<1>7. ASSUME NEW m \in Moves, CrashMove(m) PROVE OwnCopy' /\ MoveGuarded'
  <2>1. UNCHANGED <<row, apc, op, mem, stale, raced>> /\ mover' = [mover EXCEPT ![m] = None]
    BY <1>7 DEF CrashMove, adminVars, raceVars
  <2>2. \A n \in Moves : mover'[n] # None => mover'[n] = mover[n]
    BY <1>0, <2>1 DEF TypeOK
  <2> QED BY <1>0, <2>1, <2>2 DEF OwnCopy, MoveGuarded, Guarded
<1>8. CASE Health
  <2>1. OwnCopy'
    BY <1>0, <1>8, HealthEffect DEF OwnCopy
  <2>2. MoveGuarded'
    BY <1>0, <1>8, HealthEffect DEF MoveGuarded, Guarded
  <2> QED BY <2>1, <2>2
<1>9. CASE UNCHANGED vars
  BY <1>0, <1>9 DEF OwnCopy, MoveGuarded, Guarded, vars, adminVars, raceVars
<1> QED BY <1>1, <1>2, <1>3, <1>4, <1>5, <1>6, <1>7, <1>8, <1>9 DEF Next, Admin, Move

\* With one mover at most, the moving goroutines are none or one.
LEMMA AtMostOne ==
    ASSUME MoveGuarded
    PROVE  OneMove
<1> SUFFICES ASSUME ~raced PROVE Cardinality(Moving) <= 1
  BY DEF OneMove
<1>1. CASE Moving = {}
  BY <1>1, FS_EmptySet
<1>2. CASE Moving # {}
  <2>1. PICK m \in Moves : mover[m] # None
    BY <1>2 DEF Moving
  <2>2. Moving = {m}
    BY <2>1 DEF Moving, MoveGuarded, Guarded
  <2>3. Cardinality({m}) = 1
    BY FS_Singleton
  <2> QED BY <2>2, <2>3
<1> QED BY <1>1, <1>2

-----------------------------------------------------------------------------
(* The theorems.                                                           *)

\* TypeOK holds in every state, whoever writes the row: every handler, the
\* move and the health check leave a row with a known status and migration.
THEOREM TypeCorrect == Spec => []TypeOK
<1>1. Init => TypeOK
  <2>1. [do |-> "none"] \in Ops /\ [k \in Kinds |-> 0] \in [Kinds -> 0..1]
    BY DEF Ops
  <2> QED BY <2>1, KindAssumption, BlankType, Zenon DEF Init, TypeOK
<1>2. TypeOK /\ [Next]_vars => TypeOK'
  BY TypeStep
<1> QED BY <1>1, <1>2, PTL DEF Spec

\* What a pending save may change and what a running move relies on.
THEOREM SettingsInvariant == Spec => [](TypeOK /\ OwnCopy /\ MoveGuarded)
<1>1. Init => OwnCopy /\ MoveGuarded
  BY DEF Init, OwnCopy, MoveGuarded
<1>2. TypeOK /\ OwnCopy /\ MoveGuarded /\ [Next]_vars => OwnCopy' /\ MoveGuarded'
  BY GuardedStep
<1> QED BY <1>1, <1>2, TypeCorrect, PTL DEF Spec

\* One history move at a time, with any number of administrators loading and
\* saving the row around the claim, until one of them saves a row that another
\* request or a move has written since it was loaded.
THEOREM OneMoveAtATime == Spec => []OneMove
<1>1. TypeOK /\ OwnCopy /\ MoveGuarded => OneMove
  BY AtMostOne
<1> QED BY <1>1, SettingsInvariant, PTL

\* No handler replaces, forgets or switches off a connection under a move,
\* with the same exception.
THEOREM MoveUndisturbed == Spec => []NoChangeDuringMove
<1>1. TypeOK /\ OwnCopy /\ MoveGuarded => NoChangeDuringMove
  BY DEF MoveGuarded, Guarded, NoChangeDuringMove, Moving
<1> QED BY <1>1, SettingsInvariant, PTL

\* A whole-row save changes no connection but the one its request named, with
\* the same exception.
THEOREM ChangesOnlyOwn == Spec => OnlyOwnChange
<1> DEFINE Step == ~raced' => \A k \in Kinds : row'.conf[k] # row.conf[k] =>
                      \E a \in Admins : /\ op[a].do \in {"connect", "disconnect"} /\ op[a].kind = k
                                        /\ apc[a] = "save" /\ apc'[a] = "idle"
<1>1. ASSUME TypeOK, OwnCopy, [Next]_vars PROVE [Step]_vars
  <2>0. TypeOK /\ OwnCopy
    BY <1>1
  <2>1. ASSUME NEW a \in Admins,
               SetEnabled(a) \/ SaveConnection(a) \/ Disconnect(a) \/ Abandon(a) \/ MoveHistory(a)
        PROVE  Step
    <3>1. row' = row
      BY <2>1 DEF SetEnabled, SaveConnection, Disconnect, Load, Abandon, MoveHistory
    <3> QED BY <3>1
  <2>2. ASSUME NEW a \in Admins, Save(a) PROVE Step
    <3>1. /\ apc[a] = "save" /\ row' = mem[a] /\ apc'[a] = "idle"
          /\ ~raced' => a \notin stale
      BY <2>0, <2>2 DEF Save, Over, TypeOK
    <3> QED BY <2>0, <3>1 DEF OwnCopy
  <2>3. ASSUME NEW m \in Moves, Move(m) \/ \E a \in Admins : Claim(a, m) PROVE Step
    <3>1. row'.conf = row.conf
      BY <2>0, <2>3, MoveEffect
    <3> QED BY <3>1
  <2>4. CASE Health
    <3>1. row'.conf = row.conf
      BY <2>0, <2>4, HealthEffect
    <3> QED BY <3>1
  <2> QED BY <1>1, <2>1, <2>2, <2>3, <2>4 DEF Next, Admin
<1>2. TypeOK /\ OwnCopy /\ [Next]_vars => [Step]_vars
  BY <1>1
<1>3. Spec => [][Step]_vars
  BY <1>2, SettingsInvariant, PTL DEF Spec
<1> QED BY <1>3 DEF OnlyOwnChange
=============================================================================
