--------------------------- MODULE ResidencySettings ---------------------------
(***************************************************************************)
(* The one org_data_residency row of an organization and everybody who     *)
(* writes it: the settings handlers (handlers/data_residency.go), which    *)
(* read the row, work for seconds, and save all of it; the history move    *)
(* (migrate.go), which claims and ends with conditional updates; and the   *)
(* health check (health.go), which updates the status it last read.        *)
(*                                                                         *)
(* The row exists already, as after the first visit that saved anything.   *)
(* Confirmations typed by the administrator and validation of the form     *)
(* are over before the row is loaded.                                      *)
(***************************************************************************)
EXTENDS Integers, FiniteSets

CONSTANTS
    Admins,         \* administrators, each with one request at a time
    Configs,        \* sealed configurations
    Kinds,          \* the connections: "db", "files"
    Moves,          \* goroutines a history move may run in
    None            \* not configured

ASSUME SettingsAssumption ==
    None \notin Configs /\ None \notin [Kinds -> Configs \cup {None}]
ASSUME KindAssumption == "db" \in Kinds /\ Kinds \subseteq {"db", "files"}

VARIABLES
    row,            \* the row
    apc, op, mem,   \* per administrator: where, what, and the row as loaded
    mover,          \* per goroutine: the configurations it moves to, or None
    hpc, hrow, hkind, herr,     \* the health check: the row as it read it
    streak,         \* failStreak: checks failed in a row, one or more as 1
    stale,          \* history: administrators whose loaded row is out of date,
                    \* another request or a move having written the row since
    raced           \* history: such a row has been saved

adminVars == <<apc, op, mem>>
healthVars == <<hpc, hrow, hkind, herr, streak>>
raceVars == <<stale, raced>>
vars == <<row, adminVars, mover, healthVars, raceVars>>

Status == {"not_configured", "connected", "unreachable"}
Conf == [Kinds -> Configs \cup {None}]
Rows == [enabled : BOOLEAN, conf : Conf, status : [Kinds -> Status],
         migration : {"idle", "running", "done", "failed"}]
Ops == [do : {"none", "enable", "disable"}]
       \cup [do : {"disconnect"}, kind : Kinds]
       \cup [do : {"connect"}, kind : Kinds, to : Configs]

\* DBActive, FilesActive
Active(r, k) == r.enabled /\ r.conf[k] # None /\ r.status[k] # "not_configured"

Blank == [enabled |-> FALSE, conf |-> [k \in Kinds |-> None],
          status |-> [k \in Kinds |-> "not_configured"], migration |-> "idle"]

TypeOK ==
    /\ row \in Rows
    /\ apc \in [Admins -> {"idle", "save", "claim"}]
    /\ op \in [Admins -> Ops]
    /\ mem \in [Admins -> Rows]
    /\ mover \in [Moves -> Conf \cup {None}]
    /\ hpc \in {"idle", "check", "record"} /\ hrow \in Rows
    /\ hkind \in Kinds /\ herr \in BOOLEAN
    /\ streak \in [Kinds -> 0..1]
    /\ stale \subseteq Admins /\ raced \in BOOLEAN

Init ==
    /\ row = Blank
    /\ apc = [a \in Admins |-> "idle"] /\ op = [a \in Admins |-> [do |-> "none"]]
    /\ mem = [a \in Admins |-> Blank]
    /\ mover = [m \in Moves |-> None]
    /\ hpc = "idle" /\ hrow = Blank /\ hkind = "db" /\ herr = FALSE
    /\ streak = [k \in Kinds |-> 0]
    /\ stale = {} /\ raced = FALSE

(***************************************************************************)
(* The settings handlers                                                   *)
(***************************************************************************)

\* A request that passes its checks has loaded the row; what it will save is
\* the loaded row with its own change made.
Load(a, o, r) ==
    /\ apc[a] = "idle"
    /\ apc' = [apc EXCEPT ![a] = "save"]
    /\ op' = [op EXCEPT ![a] = o]
    /\ mem' = [mem EXCEPT ![a] = r]
    /\ UNCHANGED <<row, mover, healthVars, raceVars>>

\* SetEnabled: only switching off waits for a move.
SetEnabled(a) ==
    \/ Load(a, [do |-> "enable"], [row EXCEPT !.enabled = TRUE])
    \/ /\ row.migration # "running"
       /\ Load(a, [do |-> "disable"], [row EXCEPT !.enabled = FALSE])

\* SaveDatabase, SaveFiles: the connection is tested between load and save.
SaveConnection(a) ==
    /\ row.enabled /\ row.migration # "running"
    /\ \E k \in Kinds, c \in Configs :
          Load(a, [do |-> "connect", kind |-> k, to |-> c],
               [row EXCEPT !.conf[k] = c, !.status[k] = "connected"])

\* Mutants: disconnect does not look at the move; it clears the status column.
DisconnectAnytime(a) ==
    \E k \in Kinds :
        Load(a, [do |-> "disconnect", kind |-> k],
             [row EXCEPT !.conf[k] = None, !.status[k] = "not_configured"])

DisconnectBlank(a) ==
    /\ row.migration # "running"
    /\ \E k \in Kinds :
          Load(a, [do |-> "disconnect", kind |-> k],
               [row EXCEPT !.conf[k] = None, !.status[k] = ""])

\* disconnect
Disconnect(a) ==
    /\ row.migration # "running"
    /\ \E k \in Kinds :
          Load(a, [do |-> "disconnect", kind |-> k],
               [row EXCEPT !.conf[k] = None, !.status[k] = "not_configured"])

\* The request is over.
Over(a) ==
    /\ apc' = [apc EXCEPT ![a] = "idle"]
    /\ op' = [op EXCEPT ![a] = [do |-> "none"]]
    /\ mem' = [mem EXCEPT ![a] = Blank]

\* save: every column is written.
Save(a) ==
    /\ apc[a] = "save"
    /\ row' = mem[a]
    /\ Over(a)
    /\ stale' = (stale \cup {b \in Admins : apc[b] = "save"}) \ {a}
    /\ raced' = (raced \/ a \in stale)
    /\ UNCHANGED <<mover, healthVars>>

\* The test fails, or the save does, or the process dies: nothing is written.
Abandon(a) ==
    /\ apc[a] # "idle"
    /\ Over(a)
    /\ stale' = stale \ {a}
    /\ UNCHANGED <<row, mover, healthVars, raced>>

(***************************************************************************)
(* The history move                                                        *)
(***************************************************************************)

\* The handler has loaded the row and looked whether anything is connected.
MoveHistory(a) ==
    /\ apc[a] = "idle"
    /\ \E k \in Kinds : Active(row, k)
    /\ apc' = [apc EXCEPT ![a] = "claim"]
    /\ UNCHANGED <<row, op, mem, mover, healthVars, raceVars>>

\* A goroutine that has not read the row yet.
Unread == [k \in Kinds |-> None]

\* The row is claimed for goroutine m, and the administrator is answered.
Claimed(a, m) ==
    /\ apc[a] = "claim" /\ mover[m] = None
    /\ row' = [row EXCEPT !.migration = "running"]
    /\ mover' = [mover EXCEPT ![m] = Unread]
    /\ apc' = [apc EXCEPT ![a] = "idle"]
    /\ stale' = stale \cup {b \in Admins : apc[b] = "save"}
    /\ UNCHANGED <<op, mem, healthVars, raced>>

\* Mutant: the claim does not exclude a running move.
ClaimAgain(a, m) == row.enabled /\ Claimed(a, m)

\* One conditional update claims the move.  (Refused, the request just ends.)
Claim(a, m) == row.enabled /\ row.migration # "running" /\ Claimed(a, m)

\* mover.run reads the row, and resolves what is connected.
StartMove(m) ==
    /\ mover[m] = Unread
    /\ \E k \in Kinds : Active(row, k)
    /\ mover' = [mover EXCEPT ![m] =
          [k \in Kinds |-> IF Active(row, k) THEN row.conf[k] ELSE None]]
    /\ UNCHANGED <<row, adminVars, healthVars, raceVars>>

\* finishMove.  An error of its update is not looked at, and then the row
\* stays on running.
FinishMove(m) ==
    /\ mover[m] # None
    /\ \E s \in {"done", "failed", row.migration} : row' = [row EXCEPT !.migration = s]
    /\ mover' = [mover EXCEPT ![m] = None]
    /\ stale' = stale \cup {a \in Admins : apc[a] = "save"}
    /\ UNCHANGED <<adminVars, healthVars, raced>>

\* The process dies; migration_status stays as it is.
CrashMove(m) ==
    /\ mover[m] # None
    /\ mover' = [mover EXCEPT ![m] = None]
    /\ UNCHANGED <<row, adminVars, healthVars, raceVars>>

(***************************************************************************)
(* The health check                                                        *)
(***************************************************************************)

\* checkAll reads the rows of switched-on organizations and goes through
\* their active connections.
CheckAll ==
    /\ hpc = "idle"
    /\ \E k \in Kinds : Active(row, k)
    /\ hkind' = IF Active(row, "db") THEN "db" ELSE "files"
    /\ hrow' = row
    /\ hpc' = "check"
    /\ UNCHANGED <<row, adminVars, mover, herr, streak, raceVars>>

\* The database first, then, by the row as it was read, the file storage.
NextCheck ==
    LET more == hkind = "db" /\ "files" \in Kinds /\ Active(hrow, "files") IN
    /\ hpc' = IF more THEN "check" ELSE "idle"
    /\ hkind' = IF more THEN "files" ELSE "db"
    /\ hrow' = IF more THEN hrow ELSE Blank
    /\ herr' = FALSE

\* The process of the health check dies and starts again; the moves that ran
\* in it are gone, and so are its requests (Abandon).
ProcessDies ==
    /\ hpc' = "idle" /\ hrow' = Blank /\ herr' = FALSE /\ hkind' = "db"
    /\ streak' = [k \in Kinds |-> 0]
    /\ \E gone \in SUBSET Moves :
          mover' = [m \in Moves |-> IF m \in gone THEN None ELSE mover[m]]
    /\ UNCHANGED <<row, adminVars, raceVars>>

\* checkDB and checkFiles test whatever is configured by now; with no database
\* configured, checkDB gets Aavishield's own, which answers.
Check ==
    /\ hpc = "check"
    /\ Active(row, hkind) \/ hkind = "db"
    /\ herr' \in IF Active(row, hkind) THEN BOOLEAN ELSE {FALSE}
    /\ hpc' = "record"
    /\ UNCHANGED <<row, adminVars, mover, hrow, hkind, streak, raceVars>>

\* With no bucket configured checkFiles gets none and uses it all the same:
\* nothing recovers the panic.
CheckPanics ==
    /\ hpc = "check" /\ hkind = "files" /\ ~Active(row, "files")
    /\ ProcessDies

\* Mutant: the row as it was read is saved.
RecordUpWhole ==
    /\ hpc = "record" /\ ~herr
    /\ streak' = [streak EXCEPT ![hkind] = 0]
    /\ row' = [hrow EXCEPT !.status[hkind] = "connected"]
    /\ NextCheck
    /\ UNCHANGED <<adminVars, mover, raceVars>>

\* record, on success.
RecordUp ==
    /\ hpc = "record" /\ ~herr
    /\ streak' = [streak EXCEPT ![hkind] = 0]
    /\ row' = [row EXCEPT !.status[hkind] = "connected"]
    /\ NextCheck
    /\ UNCHANGED <<adminVars, mover, raceVars>>

\* record, on failure: a first failure is only counted, and the row says so
\* from the second on; the count stops at one.
RecordDown ==
    /\ hpc = "record" /\ herr
    /\ streak' = [streak EXCEPT ![hkind] = 1]
    /\ row' = IF streak[hkind] = 0 /\ hrow.status[hkind] # "unreachable"
              THEN row
              ELSE [row EXCEPT !.status[hkind] = "unreachable"]
    /\ NextCheck
    /\ UNCHANGED <<adminVars, mover, raceVars>>

Admin(a) ==
    \/ SetEnabled(a) \/ SaveConnection(a) \/ Disconnect(a) \/ Save(a) \/ Abandon(a)
    \/ MoveHistory(a)
    \/ \E m \in Moves : Claim(a, m)

Move(m) == StartMove(m) \/ FinishMove(m) \/ CrashMove(m)

Health == CheckAll \/ Check \/ CheckPanics \/ RecordUp \/ RecordDown \/ ProcessDies

Next ==
    \/ \E a \in Admins : Admin(a)
    \/ \E m \in Moves : Move(m)
    \/ Health

Spec == Init /\ [][Next]_vars

(***************************************************************************)
(* Properties                                                              *)
(***************************************************************************)
Moving == {m \in Moves : mover[m] # None}

\* One history move at a time, whatever the handlers, restarts and the health
\* check write beside it; until a request saves a row that somebody else has
\* written since it was loaded, which can undo the claim.
OneMove == ~raced => Cardinality(Moving) <= 1

\* The connections a move copies to are not changed or switched off under it,
\* by however many administrators, with the same exception.
NoChangeDuringMove ==
    ~raced => \A m \in Moving : \A k \in Kinds :
        mover[m][k] # None => row.conf[k] = mover[m][k] /\ row.enabled

\* A connection is set, replaced and forgotten only by a request to do so, and
\* what the last such request saved stays, with the same exception.
OnlyOwnChange ==
    [][~raced' => \A k \in Kinds : row'.conf[k] # row.conf[k] =>
          \E a \in Admins : /\ op[a].do \in {"connect", "disconnect"} /\ op[a].kind = k
                            /\ apc[a] = "save" /\ apc'[a] = "idle"]_vars
=============================================================================
