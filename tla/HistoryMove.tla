----------------------------- MODULE HistoryMove ------------------------------
(***************************************************************************)
(* Moving an organization's history out of Aavishield's storage into the   *)
(* company's own: dataplane.MoveHistory, mover.run, copyObject and         *)
(* finishMove (migrate.go).                                                *)
(*                                                                         *)
(* Rows are activity events, work sessions and screenshots.  Events and    *)
(* sessions are naturals: an event's place in the (timestamp, id) order in  *)
(* which EachEvent pages.  A screenshot's row names the bucket its image   *)
(* is in: "ours" is Aavishield's, "theirs" (an "ext:" key) the company's.  *)
(***************************************************************************)
EXTENDS Integers, FiniteSets

CONSTANTS
    Events,         \* activity events already recorded, as naturals
    Late,           \* events of requests that resolved Aavishield's database
                    \* before the switch and have not inserted yet
    Sessions,       \* work sessions
    Shots,          \* screenshots
    CapturedAt,     \* when each was captured
    EventPage,      \* rows in a page of EachEvent (500)
    ShotPage,       \* rows in a page of FindScreenshots (200)
    Connections,    \* what may be connected when the run starts
    Modes           \* which faults a behaviour may have: late inserts, a store
                    \* connected later, failing image reads, row updates
                    \* and image deletes, which are only logged

Rows == Events \cup Late \cup Sessions \cup Shots
Kinds == {"database", "files"}

ASSUME RowAssumption == /\ Events \cup Late \subseteq Nat \ {0}
                        /\ Events \cap Late = {}
                        /\ (Events \cup Late) \cap (Sessions \cup Shots) = {}
                        /\ Sessions \cap Shots = {}
ASSUME ShotAssumption == CapturedAt \in [Shots -> Nat \ {0}]
ASSUME PageAssumption == EventPage \in Nat \ {0} /\ ShotPage \in Nat \ {0}
ASSUME SetupAssumption == /\ Connections \subseteq SUBSET Kinds
                          /\ \A m \in Modes :
                                m.late \in SUBSET Late /\ {m.connect, m.faults} \subseteq BOOLEAN

VARIABLES
    mode,           \* a member of Modes, for the whole behaviour
    connected,      \* the stores the company has connected: a subset of Kinds
    status,         \* migration_status
    ours, theirs,   \* rows in Aavishield's and in the company's database
    key, tkey,      \* the bucket a screenshot's row points at, in each database
    images,         \* the screenshots whose image is in each bucket
    late,           \* late events not inserted yet
    mpc,            \* where the mover is
    dst, moveImages,            \* mover.run: what this run moves
    cursor,                     \* the last event copied
    shotAt, seen, page, full, progressed,   \* the screenshot loop
    moved,                      \* movedKeys
    stranded                    \* history: images whose run ended before it
                                \* deleted them, with no row left to say so

storeVars == <<ours, theirs, key, tkey, images>>
shotVars == <<shotAt, seen, page, full, progressed, moved, stranded>>
runVars == <<dst, moveImages, cursor, shotVars>>
vars == <<mode, connected, status, storeVars, late, mpc, runVars>>

Buckets == {"ours", "theirs"}
Places == {"idle", "start", "events", "sessions", "page", "shots",
           "delEvents", "delShots", "delSessions", "delImages", "finish"}

TypeOK ==
    /\ mode \in Modes
    /\ connected \subseteq Kinds
    /\ status \in {"idle", "running", "done", "failed"}
    /\ ours \subseteq Rows /\ theirs \subseteq Rows
    /\ key \in [Shots -> Buckets] /\ tkey \in [Shots -> Buckets]
    /\ images \in [Buckets -> SUBSET Shots]
    /\ late \subseteq Late
    /\ mpc \in Places
    /\ dst \in BOOLEAN /\ moveImages \in BOOLEAN
    /\ cursor \in Nat
    /\ shotAt \in Nat /\ seen \subseteq Shots /\ page \subseteq Shots
    /\ full \in BOOLEAN /\ progressed \in BOOLEAN
    /\ moved \subseteq Shots /\ stranded \subseteq Shots

\* The run is over and its locals with it: an image it had moved and not yet
\* deleted is one no later run will see, once the row that pointed at it is
\* gone or re-pointed.
RunReset ==
    /\ dst' = FALSE /\ moveImages' = FALSE /\ cursor' = 0
    /\ shotAt' = 0 /\ seen' = {} /\ page' = {} /\ full' = FALSE /\ progressed' = FALSE
    /\ moved' = {}
    /\ stranded' = stranded \cup
          {s \in moved \cap images["ours"] : s \notin ours \/ key[s] = "theirs"}

Init ==
    /\ connected \in Connections
    /\ status = "idle"
    /\ ours = Events \cup Sessions \cup Shots /\ theirs = {}
    /\ key = [s \in Shots |-> "ours"] /\ tkey = [s \in Shots |-> "ours"]
    /\ images = [b \in Buckets |-> IF b = "ours" THEN Shots ELSE {}]
    /\ mode \in Modes
    /\ late = mode.late
    /\ mpc = "idle"
    /\ dst = FALSE /\ moveImages = FALSE /\ cursor = 0
    /\ shotAt = 0 /\ seen = {} /\ page = {} /\ full = FALSE /\ progressed = FALSE
    /\ moved = {} /\ stranded = {}

(***************************************************************************)
(* Starting and ending a run                                               *)
(***************************************************************************)

\* SaveDatabase or SaveFiles: refused while a move is running.
Connect(k) ==
    /\ mode.connect /\ status # "running"
    /\ k \notin connected
    /\ connected' = connected \cup {k}
    /\ UNCHANGED <<mode, status, storeVars, late, mpc, runVars>>

\* MoveHistory: one conditional update claims the move, then a goroutine runs it.
MoveHistory ==
    /\ connected # {} /\ status # "running"
    /\ status' = "running"
    /\ mpc' = "start"
    /\ UNCHANGED <<mode, connected, storeVars, late, runVars>>

\* run reads the row and resolves the destination.
Start ==
    /\ mpc = "start"
    /\ dst' = ("database" \in connected)
    /\ moveImages' = ("files" \in connected)
    /\ mpc' = IF "database" \in connected THEN "events" ELSE "page"
    /\ UNCHANGED <<mode, connected, status, storeVars, late, cursor, shotVars>>

\* Mutants: the error is not looked at; a status nobody knows is written.
FailUnseen ==
    /\ status' = "done" /\ mpc' = "idle"
    /\ RunReset

FailOddly ==
    /\ status' = "error" /\ mpc' = "idle"
    /\ RunReset

\* run returned an error: finishMove records it.
Fail ==
    /\ status' = "failed" /\ mpc' = "idle"
    /\ RunReset

\* resolve, a count, a page or the first write of a step failed.
RunError ==
    /\ mpc \in Places \ {"idle", "delImages", "finish"}
    /\ Fail
    /\ UNCHANGED <<mode, connected, storeVars, late>>

\* finishMove after a clean run.
Finish ==
    /\ mpc = "finish"
    /\ status' = "done" /\ mpc' = "idle"
    /\ RunReset
    /\ UNCHANGED <<mode, connected, storeVars, late>>

\* The process dies.  Nothing resets migration_status.
Crash ==
    /\ mpc # "idle"
    /\ mpc' = "idle"
    /\ RunReset
    /\ UNCHANGED <<mode, connected, status, storeVars, late>>

\* A request that had resolved Aavishield's database inserts its event there.
LateInsert(e) ==
    /\ e \in late
    /\ ours' = ours \cup {e} /\ late' = late \ {e}
    /\ UNCHANGED <<mode, connected, status, theirs, key, tkey, images, mpc, runVars>>

(***************************************************************************)
(* 1. Activity events, 2. work sessions                                    *)
(***************************************************************************)
OurEvents == ours \cap (Events \cup Late)

\* The next page of EachEvent in (timestamp, id) order: the smallest events
\* past the cursor, at most EventPage of them.
IsNextPage(p) ==
    LET rest == {e \in OurEvents : e > cursor} IN
    /\ p \subseteq rest
    /\ \A e \in p, f \in rest \ p : e < f
    /\ IF Cardinality(rest) < EventPage THEN p = rest ELSE Cardinality(p) = EventPage

\* Mutant: the last, short batch is not flushed.
CopyFullPages ==
    /\ mpc = "events"
    /\ \E p \in SUBSET OurEvents :
          /\ IsNextPage(p)
          /\ theirs' = IF Cardinality(p) < EventPage THEN theirs ELSE theirs \cup p
          /\ cursor' \in IF p = {} THEN {cursor} ELSE {e \in p : \A f \in p : f <= e}
          /\ mpc' = IF Cardinality(p) < EventPage THEN "sessions" ELSE "events"
    /\ UNCHANGED <<mode, connected, status, ours, key, tkey, images, late, dst, moveImages, shotVars>>

\* The page is written, skipping what is already there; a short page is the last.
CopyEvents ==
    /\ mpc = "events"
    /\ \E p \in SUBSET OurEvents :
          /\ IsNextPage(p)
          /\ theirs' = theirs \cup p
          /\ cursor' \in IF p = {} THEN {cursor} ELSE {e \in p : \A f \in p : f <= e}
          /\ mpc' = IF Cardinality(p) < EventPage THEN "sessions" ELSE "events"
    /\ UNCHANGED <<mode, connected, status, ours, key, tkey, images, late, dst, moveImages, shotVars>>

\* Only part of the page is written.
CopyEventsError ==
    /\ mpc = "events"
    /\ \E p \in SUBSET OurEvents : IsNextPage(p) /\ \E q \in SUBSET p : theirs' = theirs \cup q
    /\ Fail
    /\ UNCHANGED <<mode, connected, ours, key, tkey, images, late>>

CopySessions ==
    /\ mpc = "sessions"
    /\ theirs' = theirs \cup (ours \cap Sessions)
    /\ mpc' = "page"
    /\ UNCHANGED <<mode, connected, status, ours, key, tkey, images, late, runVars>>

\* Mutant: a session that cannot be written is passed over.
CopySessionsAnyway ==
    /\ mpc = "sessions"
    /\ \E q \in SUBSET (ours \cap Sessions) : theirs' = theirs \cup q
    /\ mpc' = "page"
    /\ UNCHANGED <<mode, connected, status, ours, key, tkey, images, late, runVars>>

\* Some sessions are written before one fails.
CopySessionsError ==
    /\ mpc = "sessions"
    /\ \E q \in SUBSET (ours \cap Sessions) : theirs' = theirs \cup q
    /\ Fail
    /\ UNCHANGED <<mode, connected, ours, key, tkey, images, late>>

(***************************************************************************)
(* 3. Screenshots: image first, then the row that points at it             *)
(***************************************************************************)

\* A page of FindScreenshots: the first ShotPage rows captured at or after the
\* cursor, ordered by captured_at alone, so that ties come in any order.
ReadPage ==
    /\ mpc = "page"
    /\ LET rest == {s \in ours \cap Shots : CapturedAt[s] >= shotAt} IN
          \E p \in SUBSET rest :
             /\ \A s \in p, t \in rest \ p : CapturedAt[s] <= CapturedAt[t]
             /\ IF Cardinality(rest) < ShotPage THEN p = rest ELSE Cardinality(p) = ShotPage
             /\ page' = p
             /\ full' = (Cardinality(p) = ShotPage)
    /\ progressed' = FALSE
    /\ mpc' = "shots"
    /\ UNCHANGED <<mode, connected, status, storeVars, late, dst, moveImages, cursor, shotAt, seen,
                   moved, stranded>>

\* The next row of the page.
IsNextShot(s) == s \in page /\ \A t \in page : CapturedAt[s] <= CapturedAt[t]

\* Where the row will point once copyObject has run: at the company's bucket
\* if the image was read and stored there, else where it pointed before.
NewKey(s, read) == IF moveImages /\ key[s] = "ours" /\ read THEN "theirs" ELSE key[s]
CanRead(s) == s \in images["ours"]

Advance(s) ==
    /\ page' = page \ {s}
    /\ progressed' = TRUE
    /\ shotAt' = CapturedAt[s]
    /\ seen' = IF CapturedAt[s] = shotAt THEN seen \cup {s} ELSE {s}
    /\ UNCHANGED <<mode, full, mpc, stranded>>

CopyImage(s, k) ==
    /\ images' = IF k # key[s] THEN [images EXCEPT !["theirs"] = @ \cup {s}] ELSE images
    /\ moved' = IF k # key[s] THEN moved \cup {s} ELSE moved

\* A row copied before is skipped.
SkipShot ==
    /\ mpc = "shots"
    /\ \E s \in page : IsNextShot(s) /\ s \in seen /\ page' = page \ {s}
    /\ UNCHANGED <<mode, connected, status, storeVars, late, mpc, dst, moveImages, cursor,
                   shotAt, seen, full, progressed, moved, stranded>>

\* One row with its image.  A row the company's database already has is left
\* as it is there; with only a bucket connected the row here is re-pointed,
\* and an error of that update is not looked at.
CopyShot ==
    /\ mpc = "shots"
    /\ \E s \in page :
          /\ IsNextShot(s) /\ s \notin seen
          /\ \E read \in {CanRead(s)} \cup (IF mode.faults THEN {FALSE} ELSE {}) :
                LET k == NewKey(s, read) IN
                /\ CopyImage(s, k)
                /\ IF dst
                   THEN /\ theirs' = theirs \cup {s}
                        /\ tkey' = IF s \in theirs THEN tkey ELSE [tkey EXCEPT ![s] = k]
                        /\ key' = key
                   ELSE /\ \/ key' = [key EXCEPT ![s] = k]
                           \/ mode.faults /\ key' = key
                        /\ UNCHANGED <<theirs, tkey>>
          /\ Advance(s)
    /\ UNCHANGED <<mode, connected, status, ours, late, dst, moveImages, cursor>>

\* The image is stored but the row is not.
CopyShotError ==
    /\ mpc = "shots" /\ dst
    /\ \E s \in page :
          /\ IsNextShot(s) /\ s \notin seen
          /\ moveImages /\ key[s] = "ours" /\ CanRead(s)
          /\ images' = [images EXCEPT !["theirs"] = @ \cup {s}]
    /\ Fail
    /\ UNCHANGED <<mode, connected, ours, theirs, key, tkey, late>>

\* Mutant: the loop ends after its first page.
EndFirstPage ==
    /\ mpc = "shots" /\ page = {}
    /\ mpc' = IF dst THEN "delEvents" ELSE "delImages"
    /\ UNCHANGED <<mode, connected, status, storeVars, late, runVars>>

\* The page is done: another one, or on to removing Aavishield's copy.
EndPage ==
    /\ mpc = "shots" /\ page = {}
    /\ mpc' = IF progressed /\ full THEN "page" ELSE IF dst THEN "delEvents" ELSE "delImages"
    /\ UNCHANGED <<mode, connected, status, storeVars, late, runVars>>

(***************************************************************************)
(* 4. Removing Aavishield's copy                                           *)
(***************************************************************************)
DeleteRows(from, which, to) ==
    /\ mpc = from
    /\ ours' = ours \ which
    /\ mpc' = to
    /\ UNCHANGED <<mode, connected, status, theirs, key, tkey, images, late, runVars>>

DeleteEvents == DeleteRows("delEvents", Events \cup Late, "delShots")
DeleteScreenshots == DeleteRows("delShots", Shots, "delSessions")
DeleteSessions == DeleteRows("delSessions", Sessions, "delImages")

\* Mutant: every image of the organization is deleted, moved or not.
DeleteAllImages ==
    /\ mpc = "delImages"
    /\ images' = [images EXCEPT !["ours"] = {}]
    /\ mpc' = "finish"
    /\ UNCHANGED <<mode, connected, status, ours, theirs, key, tkey, late, runVars>>

\* Each moved image is deleted; one that cannot be is logged and left.
DeleteImages ==
    /\ mpc = "delImages"
    /\ \E gone \in {moved} \cup (IF mode.faults THEN SUBSET moved ELSE {}) :
          images' = [images EXCEPT !["ours"] = @ \ gone]
    /\ mpc' = "finish"
    /\ UNCHANGED <<mode, connected, status, ours, theirs, key, tkey, late, runVars>>

Next ==
    \/ \E k \in Kinds : Connect(k)
    \/ MoveHistory \/ Start \/ RunError \/ Finish \/ Crash
    \/ \E e \in Late : LateInsert(e)
    \/ CopyEvents \/ CopyEventsError \/ CopySessions \/ CopySessionsError
    \/ ReadPage \/ SkipShot \/ CopyShot \/ CopyShotError \/ EndPage
    \/ DeleteEvents \/ DeleteScreenshots \/ DeleteSessions \/ DeleteImages

Spec == Init /\ [][Next]_vars

(***************************************************************************)
(* Properties                                                              *)
(***************************************************************************)

\* The history there was when residency was switched on is never lost: each
\* row is in one of the two databases, whatever fails, crashes, is connected
\* later or is run again.
NoRowLost == Rows \ Late \subseteq ours \cup theirs

\* Nothing is deleted from Aavishield until every row has been copied: a step
\* that removes rows of a kind finds all of them in the company's database
\* (an insert that comes late is deleted with the rest, copied or not).
CopiedBeforeDeleted ==
    [][mode.late = {} => \A which \in {Events \cup Late, Sessions, Shots} :
          (ours \ ours') \cap which # {} => ours \cap which \subseteq theirs]_vars

\* Every screenshot can still be shown: the row the dashboard reads (the
\* company's when it has one) points at a bucket that holds the image, unless
\* a store was connected between runs or a read or an update failed unnoticed.
Undisturbed == ~mode.connect /\ ~mode.faults
ImagesReachable ==
    Undisturbed => \A s \in Shots :
        s \in images[IF s \in theirs THEN tkey[s] ELSE key[s]]

\* What a move that reports done has done.  With a database connected every
\* row is the company's and none is Aavishield's; with a bucket connected every
\* row that is read points at the company's bucket, which has the image, and
\* Aavishield's bucket keeps none, except those of a run that ended after the
\* rows were gone or re-pointed and before the images were deleted.
DoneMeansMoved ==
    [][Undisturbed /\ status = "running" /\ status' = "done" =>
          /\ dst => ours \cap (Rows \ Late) = {} /\ Rows \ Late \subseteq theirs
          /\ moveImages =>
                /\ \A s \in Shots : (IF dst THEN tkey[s] ELSE key[s]) = "theirs"
                /\ Shots \subseteq images["theirs"]
                /\ images["ours"] \subseteq stranded]_vars
=============================================================================
