--------------------------- MODULE HistoryMoveProofs ---------------------------
(***************************************************************************)
(* Proofs about HistoryMove, for any history, page sizes, connections and  *)
(* faults.                                                                 *)
(***************************************************************************)
EXTENDS HistoryMove, FiniteSetTheorems, TLAPS

\* Fewer screenshots are captured at any one moment than fit a page of
\* FindScreenshots.  (A page that holds nothing new ends the loop: see the run
\* move_full_page.)
Sparse ==
    \A t \in Nat : LET same == {s \in Shots : CapturedAt[s] = t}
                   IN  IsFiniteSet(same) /\ Cardinality(same) < ShotPage

\* A run that is going on has claimed the row; one that has not begun has
\* nothing in its locals; events and sessions are moved only to a database.
RunSound ==
    /\ mpc # "idle" => status = "running"
    /\ mpc \in {"idle", "start"} => ~dst /\ ~moveImages /\ cursor = 0
    /\ mpc \in {"idle", "start", "events", "sessions"} =>
          shotAt = 0 /\ seen = {} /\ page = {} /\ moved = {}
    /\ mpc \in {"events", "sessions", "delEvents", "delShots", "delSessions"} => dst
    /\ mode.late = {} => late = {} /\ ours \cap Late = {}

\* While nothing is connected between runs and no read or update fails
\* unnoticed, a run moves to what is connected, a row points at a bucket that
\* has its image, and an image is only put down as moved once the row that is
\* read points at the company's copy.
ImagesSound ==
    Undisturbed =>
        /\ "database" \notin connected => theirs = {} /\ Shots \subseteq ours
        /\ "database" \in connected => \A s \in Shots : key[s] = "ours"
        /\ mpc \notin {"idle", "start"} => /\ dst <=> "database" \in connected
                                           /\ moveImages <=> "files" \in connected
        /\ \A s \in Shots : s \in images[IF s \in theirs THEN tkey[s] ELSE key[s]]
        /\ "files" \in connected => \A s \in Shots \cap theirs : tkey[s] = "theirs"
        /\ \A s \in moved : /\ moveImages /\ s \in images["theirs"]
                            /\ IF dst THEN s \in theirs ELSE key[s] = "theirs"

\* This run is done with screenshot s.
Copied(s) ==
    IF dst THEN s \in theirs /\ (Undisturbed /\ moveImages => s \in moved)
           ELSE Undisturbed /\ moveImages => key[s] = "theirs"

\* The screenshot loop leaves nothing behind: what it has not copied lies at or
\* after its cursor, in the page or past it; and a full page of rows it has
\* seen before would all have been captured at one moment.
LoopSound ==
    /\ mpc \in {"page", "shots"} => \A s \in seen : CapturedAt[s] = shotAt /\ Copied(s)
    /\ mpc = "page" => \A s \in ours \cap Shots : Copied(s) \/ CapturedAt[s] >= shotAt
    /\ mpc = "shots" =>
          /\ \A s \in page : s \in ours /\ CapturedAt[s] >= shotAt
          /\ \A s \in ours \cap Shots :
                \/ Copied(s) \/ s \in page
                \/ full /\ CapturedAt[s] >= shotAt /\ \A t \in page : CapturedAt[t] <= CapturedAt[s]
          /\ full /\ ~progressed => \E p \in SUBSET (page \cup seen) : Cardinality(p) = ShotPage
    /\ mpc \in {"delEvents", "delShots", "delImages", "finish"} =>
          \A s \in ours \cap Shots : Copied(s)

\* Each kind of row is copied before the run goes on, stays copied until it is
\* deleted, and is then gone.
CopySound ==
    /\ mpc = "events" => \A e \in ours \cap Events : e <= cursor => e \in theirs
    /\ mpc \in {"sessions", "page", "shots", "delEvents"} /\ dst => ours \cap Events \subseteq theirs
    /\ mpc \in {"page", "shots", "delEvents", "delShots", "delSessions"} /\ dst =>
          ours \cap Sessions \subseteq theirs
    /\ mpc \in {"delShots", "delSessions", "delImages", "finish"} /\ dst => ours \cap Events = {}
    /\ mpc \in {"delSessions", "delImages", "finish"} /\ dst => ours \cap Shots = {}
    /\ mpc \in {"delImages", "finish"} /\ dst => ours \cap Sessions = {}

\* With a bucket connected, an image in Aavishield's bucket is one a row there
\* still points at, or this run has moved, or an ended run has stranded; rows
\* that are to go to the company's database still have their image here.
StrandedSound ==
    Undisturbed /\ "files" \in connected =>
        /\ "database" \in connected => ours \cap Shots \subseteq images["ours"]
        /\ \A s \in images["ours"] :
              s \in stranded \/ s \in moved \/ (s \in ours /\ key[s] = "ours")
        /\ mpc = "finish" => images["ours"] \cap moved = {}

-----------------------------------------------------------------------------
(* What the steps do.                                                      *)

\* A run that ends, however, leaves nothing in its locals.
LEMMA EndEffect ==
    ASSUME TypeOK,
           \/ RunError \/ Finish \/ Crash
           \/ CopyEventsError \/ CopySessionsError \/ CopyShotError
    PROVE  /\ dst' = FALSE /\ moveImages' = FALSE /\ cursor' = 0 /\ shotAt' = 0 /\ seen' = {}
           /\ page' = {} /\ full' = FALSE /\ progressed' = FALSE /\ moved' = {}
           /\ mpc' = "idle" /\ status' \in {status, "done", "failed"}
           /\ theirs \subseteq theirs' /\ theirs' \ theirs \subseteq ours \ Shots
           /\ theirs' = theirs \/ mpc \in {"events", "sessions"}
           /\ images' \in [Buckets -> SUBSET Shots]
           /\ \A b \in Buckets : images[b] \subseteq images'[b]
           /\ images'["ours"] = images["ours"] /\ stranded' \subseteq Shots
           /\ stranded' = stranded \cup
                 {s \in moved \cap images["ours"] : s \notin ours \/ key[s] = "theirs"}
           /\ UNCHANGED <<mode, connected, ours, key, tkey, late>>
<1>1. /\ RunReset /\ mpc' = "idle" /\ status' \in {status, "done", "failed"}
      /\ UNCHANGED <<mode, connected, ours, key, tkey, late>>
  BY DEF RunError, Finish, Crash, CopyEventsError, CopySessionsError, CopyShotError, Fail, storeVars
<1>2. /\ theirs \subseteq theirs' /\ theirs' \ theirs \subseteq ours \ Shots
      /\ theirs' = theirs \/ mpc \in {"events", "sessions"}
  BY RowAssumption
  DEF RunError, Finish, Crash, CopyEventsError, CopySessionsError, CopyShotError, storeVars, OurEvents
<1>3. /\ images' \in [Buckets -> SUBSET Shots]
      /\ \A b \in Buckets : images[b] \subseteq images'[b]
      /\ images'["ours"] = images["ours"]
  <2>1. CASE CopyShotError
    BY <2>1 DEF CopyShotError, TypeOK, Buckets
  <2>2. CASE ~CopyShotError
    <3>1. images' = images
      BY <2>2 DEF RunError, Finish, Crash, CopyEventsError, CopySessionsError, storeVars
    <3> QED BY <3>1 DEF TypeOK
  <2> QED BY <2>1, <2>2
<1>4. /\ stranded' = stranded \cup
            {s \in moved \cap images["ours"] : s \notin ours \/ key[s] = "theirs"}
      /\ stranded' \subseteq Shots
  BY <1>1 DEF RunReset, TypeOK
<1> QED BY <1>1, <1>2, <1>3, <1>4 DEF RunReset

\* The next page of events: nothing at or before the new cursor is left out,
\* and a short page leaves nothing at all.
LEMMA EventsEffect ==
    ASSUME TypeOK, CopyEvents
    PROVE  \E p \in SUBSET OurEvents :
              /\ theirs' = theirs \cup p
              /\ cursor' \in Nat
              /\ \A e \in OurEvents : e > cursor /\ e <= cursor' => e \in p
              /\ \/ mpc' = "events"
                 \/ mpc' = "sessions" /\ \A e \in OurEvents : e > cursor => e \in p
<1>1. PICK p \in SUBSET OurEvents :
         /\ IsNextPage(p)
         /\ theirs' = theirs \cup p
         /\ cursor' \in IF p = {} THEN {cursor} ELSE {e \in p : \A f \in p : f <= e}
         /\ mpc' = IF Cardinality(p) < EventPage THEN "sessions" ELSE "events"
  BY DEF CopyEvents
<1> DEFINE rest == {e \in OurEvents : e > cursor}
<1>2. OurEvents \subseteq Nat /\ cursor \in Nat
  BY RowAssumption DEF OurEvents, TypeOK
<1>3. /\ p \subseteq rest
      /\ \A e \in p, f \in rest \ p : e < f
      /\ IF Cardinality(rest) < EventPage THEN p = rest ELSE Cardinality(p) = EventPage
  BY <1>1 DEF IsNextPage
<1>4. cursor' \in Nat /\ \A e \in rest : e <= cursor' => e \in p
  <2>1. CASE p = {}
    BY <1>1, <1>2, <2>1
  <2>2. CASE p # {}
    <3>1. cursor' \in p
      BY <1>1, <2>2
    <3>2. \A e \in rest \ p : cursor' < e
      BY <1>3, <3>1
    <3> QED BY <1>2, <3>1, <3>2
  <2> QED BY <2>1, <2>2
<1>5. Cardinality(p) < EventPage => p = rest
  BY <1>3, PageAssumption
<1> QED BY <1>1, <1>4, <1>5

\* A page of screenshots: it holds all that is left, or it is full and what it
\* leaves out was captured no earlier.
LEMMA PageEffect ==
    ASSUME ReadPage
    PROVE  /\ page' \subseteq ours \cap Shots
           /\ \A s \in page' : CapturedAt[s] >= shotAt
           /\ full' \in BOOLEAN
           /\ full' => Cardinality(page') = ShotPage
           /\ \A s \in ours \cap Shots : CapturedAt[s] >= shotAt =>
                 s \in page' \/ (full' /\ \A t \in page' : CapturedAt[t] <= CapturedAt[s])
           /\ progressed' = FALSE /\ mpc = "page" /\ mpc' = "shots"
           /\ UNCHANGED <<mode, connected, status, storeVars, late, dst, moveImages, cursor, shotAt,
                          seen, moved, stranded>>
<1> DEFINE rest == {s \in ours \cap Shots : CapturedAt[s] >= shotAt}
<1>1. PICK p \in SUBSET rest :
             /\ \A s \in p, t \in rest \ p : CapturedAt[s] <= CapturedAt[t]
             /\ IF Cardinality(rest) < ShotPage THEN p = rest ELSE Cardinality(p) = ShotPage
             /\ page' = p
             /\ full' = (Cardinality(p) = ShotPage)
  BY DEF ReadPage
<1>2. full' \in BOOLEAN /\ (full' => Cardinality(page') = ShotPage) /\ (~full' => page' = rest)
  BY <1>1, Zenon
<1>3. \A s \in rest : s \in page' \/ (full' /\ \A t \in page' : CapturedAt[t] <= CapturedAt[s])
  BY <1>1, <1>2
<1> QED BY <1>1, <1>2, <1>3 DEF ReadPage

\* The next screenshot with its image.
LEMMA ShotEffect ==
    ASSUME TypeOK, CopyShot
    PROVE  \E s \in page, k \in Buckets :
              /\ mpc = "shots" /\ s \in Shots /\ s \notin seen
              /\ \A t \in page : CapturedAt[s] <= CapturedAt[t]
              /\ k # key[s] => moveImages /\ key[s] = "ours" /\ k = "theirs"
              /\ ~mode.faults /\ moveImages /\ s \in images["ours"] => k = "theirs"
              /\ images' \in [Buckets -> SUBSET Shots]
              /\ images'["ours"] = images["ours"]
              /\ images'["theirs"] = IF k # key[s] THEN images["theirs"] \cup {s} ELSE images["theirs"]
              /\ moved' = IF k # key[s] THEN moved \cup {s} ELSE moved
              /\ dst => /\ theirs' = theirs \cup {s} /\ key' = key
                        /\ tkey' = IF s \in theirs THEN tkey ELSE [tkey EXCEPT ![s] = k]
              /\ ~dst => /\ key' = [key EXCEPT ![s] = k] \/ (mode.faults /\ key' = key)
                         /\ UNCHANGED <<theirs, tkey>>
              /\ page' = page \ {s} /\ progressed' = TRUE /\ shotAt' = CapturedAt[s]
              /\ seen' = IF CapturedAt[s] = shotAt THEN seen \cup {s} ELSE {s}
              /\ UNCHANGED <<mode, connected, status, ours, late, mpc, dst, moveImages, cursor, full,
                             stranded>>
<1>1. PICK s \in page :
         /\ IsNextShot(s) /\ s \notin seen
         /\ \E read \in {CanRead(s)} \cup (IF mode.faults THEN {FALSE} ELSE {}) :
                LET k == NewKey(s, read) IN
                /\ CopyImage(s, k)
                /\ IF dst
                   THEN /\ theirs' = theirs \cup {s}
                        /\ tkey' = IF s \in theirs THEN tkey ELSE [tkey EXCEPT ![s] = k]
                        /\ key' = key
                   ELSE /\ \/ key' = [key EXCEPT ![s] = k]
                           \/ mode.faults /\ key' = key
                        /\ UNCHANGED <<theirs, tkey>>
         /\ Advance(s)
  BY DEF CopyShot
<1>2. PICK read \in {CanRead(s)} \cup (IF mode.faults THEN {FALSE} ELSE {}) :
                /\ CopyImage(s, NewKey(s, read))
                /\ IF dst
                   THEN /\ theirs' = theirs \cup {s}
                        /\ tkey' = IF s \in theirs THEN tkey ELSE [tkey EXCEPT ![s] = NewKey(s, read)]
                        /\ key' = key
                   ELSE /\ \/ key' = [key EXCEPT ![s] = NewKey(s, read)]
                           \/ mode.faults /\ key' = key
                        /\ UNCHANGED <<theirs, tkey>>
  BY <1>1, Zenon
<1> DEFINE k == NewKey(s, read)
<1>3. s \in Shots /\ key[s] \in Buckets /\ images \in [Buckets -> SUBSET Shots]
  BY DEF TypeOK
<1>4. /\ k \in Buckets
      /\ k # key[s] => moveImages /\ key[s] = "ours" /\ k = "theirs"
  BY <1>3 DEF NewKey, Buckets
<1>5. ~mode.faults /\ moveImages /\ s \in images["ours"] => k = "theirs"
  <2> SUFFICES ASSUME ~mode.faults, moveImages, s \in images["ours"] PROVE k = "theirs"
    OBVIOUS
  <2>1. read = CanRead(s)
    BY <1>2
  <2>2. read
    BY <2>1 DEF CanRead
  <2> QED BY <1>3, <2>2 DEF NewKey, Buckets
<1>6. /\ images' \in [Buckets -> SUBSET Shots]
      /\ images'["ours"] = images["ours"]
      /\ images'["theirs"] = IF k # key[s] THEN images["theirs"] \cup {s} ELSE images["theirs"]
      /\ moved' = IF k # key[s] THEN moved \cup {s} ELSE moved
  BY <1>2, <1>3 DEF CopyImage, Buckets
<1> HIDE DEF k
<1>7. \A t \in page : CapturedAt[s] <= CapturedAt[t]
  BY <1>1 DEF IsNextShot
<1>8. /\ page' = page \ {s} /\ progressed' = TRUE /\ shotAt' = CapturedAt[s]
      /\ seen' = IF CapturedAt[s] = shotAt THEN seen \cup {s} ELSE {s}
      /\ UNCHANGED <<mode, connected, status, ours, late, mpc, dst, moveImages, cursor, full,
                             stranded>>
      /\ mpc = "shots"
  BY <1>1 DEF Advance, CopyShot
<1>9. /\ dst => /\ theirs' = theirs \cup {s} /\ key' = key
                /\ tkey' = IF s \in theirs THEN tkey ELSE [tkey EXCEPT ![s] = k]
      /\ ~dst => /\ key' = [key EXCEPT ![s] = k] \/ (mode.faults /\ key' = key)
                 /\ UNCHANGED <<theirs, tkey>>
  BY <1>2 DEF k
<1> QED BY <1>1, <1>3, <1>4, <1>5, <1>6, <1>7, <1>8, <1>9

\* A kind of row is deleted only by a run that moves rows.
LEMMA DeleteEffect ==
    ASSUME DeleteEvents \/ DeleteScreenshots \/ DeleteSessions
    PROVE  /\ \/ mpc = "delEvents" /\ mpc' = "delShots" /\ ours' = ours \ (Events \cup Late)
              \/ mpc = "delShots" /\ mpc' = "delSessions" /\ ours' = ours \ Shots
              \/ mpc = "delSessions" /\ mpc' = "delImages" /\ ours' = ours \ Sessions
           /\ UNCHANGED <<mode, connected, status, theirs, key, tkey, images, late, dst, moveImages,
                          cursor, shotAt, seen, page, full, progressed, moved, stranded>>
  BY DEF DeleteEvents, DeleteScreenshots, DeleteSessions, DeleteRows, runVars, shotVars

-----------------------------------------------------------------------------
(* Every step keeps the types.                                             *)

LEMMA TypeStep ==
    ASSUME TypeOK, [Next]_vars
    PROVE  TypeOK'
<1>0. TypeOK
  OBVIOUS
<1> USE DEF runVars, shotVars, storeVars
<1>1. ASSUME NEW k \in Kinds, Connect(k) PROVE TypeOK'
  BY <1>0, <1>1 DEF Connect, TypeOK
<1>2. CASE MoveHistory
  BY <1>0, <1>2 DEF MoveHistory, TypeOK, Places
<1>3. CASE Start
  <2>1. dst' \in BOOLEAN /\ moveImages' \in BOOLEAN
    <3>1. dst' = ("database" \in connected) /\ moveImages' = ("files" \in connected)
      BY <1>3 DEF Start
    <3> QED BY <3>1
  <2>2. mpc' \in Places
    BY <1>3 DEF Start, Places
  <2> QED BY <1>0, <1>3, <2>1, <2>2 DEF Start, TypeOK
<1>4. CASE \/ RunError \/ Finish \/ Crash
           \/ CopyEventsError \/ CopySessionsError \/ CopyShotError
  <2>1. /\ status' \in {"idle", "running", "done", "failed"} /\ theirs' \subseteq Rows
        /\ mpc' \in Places
    BY <1>0, <1>4, EndEffect DEF TypeOK, Places
  <2>2. dst' \in BOOLEAN /\ moveImages' \in BOOLEAN /\ full' \in BOOLEAN /\ progressed' \in BOOLEAN
    BY <1>0, <1>4, EndEffect, Zenon
  <2>3. /\ cursor' = 0 /\ shotAt' = 0 /\ seen' = {} /\ page' = {} /\ moved' = {}
        /\ images' \in [Buckets -> SUBSET Shots] /\ stranded' \subseteq Shots
        /\ UNCHANGED <<mode, connected, ours, key, tkey, late>>
    BY <1>0, <1>4, EndEffect
  <2> QED BY <1>0, <2>1, <2>2, <2>3 DEF TypeOK
<1>5. ASSUME NEW e \in Late, LateInsert(e) PROVE TypeOK'
  BY <1>0, <1>5 DEF LateInsert, TypeOK, Rows
<1>6. CASE CopyEvents
  <2>1. theirs' \subseteq Rows /\ cursor' \in Nat /\ mpc' \in Places
    BY <1>0, <1>6, EventsEffect DEF TypeOK, OurEvents, Places
  <2> QED BY <1>0, <1>6, <2>1 DEF CopyEvents, TypeOK
<1>7. CASE CopySessions
  BY <1>0, <1>7 DEF CopySessions, TypeOK, Places
<1>8. CASE ReadPage
  BY <1>0, <1>8, PageEffect DEF TypeOK, Places
<1>9. CASE SkipShot
  BY <1>0, <1>9 DEF SkipShot, TypeOK
<1>10. CASE CopyShot
  <2>1. PICK s \in page, k \in Buckets :
              /\ s \in Shots
              /\ images' \in [Buckets -> SUBSET Shots]
              /\ moved' = IF k # key[s] THEN moved \cup {s} ELSE moved
              /\ dst => /\ theirs' = theirs \cup {s} /\ key' = key
                        /\ tkey' = IF s \in theirs THEN tkey ELSE [tkey EXCEPT ![s] = k]
              /\ ~dst => /\ key' = [key EXCEPT ![s] = k] \/ (mode.faults /\ key' = key)
                         /\ UNCHANGED <<theirs, tkey>>
              /\ page' = page \ {s} /\ progressed' = TRUE /\ shotAt' = CapturedAt[s]
              /\ seen' = IF CapturedAt[s] = shotAt THEN seen \cup {s} ELSE {s}
              /\ UNCHANGED <<mode, connected, status, ours, late, mpc, dst, moveImages, cursor, full,
                             stranded>>
    BY <1>0, <1>10, ShotEffect
  <2>2. /\ theirs' \subseteq Rows
        /\ key' \in [Shots -> Buckets] /\ tkey' \in [Shots -> Buckets]
    BY <1>0, <2>1 DEF TypeOK, Rows
  <2>3. shotAt' \in Nat /\ moved' \subseteq Shots /\ seen' \subseteq Shots /\ page' \subseteq Shots
    BY <1>0, <2>1, ShotAssumption DEF TypeOK
  <2> QED BY <1>0, <2>1, <2>2, <2>3 DEF TypeOK
<1>11. CASE EndPage
  BY <1>0, <1>11 DEF EndPage, TypeOK, Places
<1>12. CASE DeleteEvents \/ DeleteScreenshots \/ DeleteSessions
  BY <1>0, <1>12, DeleteEffect DEF TypeOK, Places
<1>13. CASE DeleteImages
  BY <1>0, <1>13 DEF DeleteImages, TypeOK, Places, Buckets
<1>14. CASE UNCHANGED vars
  BY <1>0, <1>14 DEF vars, TypeOK
<1> QED BY <1>1, <1>2, <1>3, <1>4, <1>5, <1>6, <1>7, <1>8, <1>9, <1>10, <1>11, <1>12, <1>13, <1>14
        DEF Next

-----------------------------------------------------------------------------
(* Every step keeps what is known of the run.                              *)

LEMMA RunStep ==
    ASSUME TypeOK, RunSound, [Next]_vars
    PROVE  RunSound'
<1>0. TypeOK /\ RunSound
  OBVIOUS
<1> USE DEF runVars, shotVars, storeVars
<1>1. ASSUME NEW k \in Kinds, Connect(k) PROVE RunSound'
  BY <1>0, <1>1 DEF Connect, RunSound
<1>2. CASE MoveHistory
  BY <1>0, <1>2 DEF MoveHistory, RunSound, TypeOK
<1>3. CASE Start
  BY <1>0, <1>3 DEF Start, RunSound
<1>4. CASE \/ RunError \/ Finish \/ Crash
           \/ CopyEventsError \/ CopySessionsError \/ CopyShotError
  BY <1>0, <1>4, EndEffect DEF RunSound
<1>5. ASSUME NEW e \in Late, LateInsert(e) PROVE RunSound'
  BY <1>0, <1>5 DEF LateInsert, RunSound
<1>6. CASE CopyEvents
  <2>1. mpc = "events" /\ mpc' \in {"events", "sessions"}
    BY <1>0, <1>6 DEF CopyEvents
  <2> QED BY <1>0, <1>6, <2>1 DEF CopyEvents, RunSound
<1>7. CASE CopySessions
  BY <1>0, <1>7 DEF CopySessions, RunSound
<1>8. CASE ReadPage
  BY <1>0, <1>8, PageEffect DEF RunSound
<1>9. CASE SkipShot
  BY <1>0, <1>9 DEF SkipShot, RunSound
<1>10. CASE CopyShot
  <2>1. mpc = "shots" /\ UNCHANGED <<mode, status, ours, late, mpc, dst, moveImages, cursor>>
    BY <1>10 DEF CopyShot, Advance
  <2> QED BY <1>0, <2>1 DEF RunSound
<1>11. CASE EndPage
  BY <1>0, <1>11 DEF EndPage, RunSound
<1>12. CASE DeleteEvents \/ DeleteScreenshots \/ DeleteSessions
  BY <1>0, <1>12, DeleteEffect DEF RunSound
<1>13. CASE DeleteImages
  BY <1>0, <1>13 DEF DeleteImages, RunSound
<1>14. CASE UNCHANGED vars
  BY <1>0, <1>14 DEF vars, RunSound
<1> QED BY <1>1, <1>2, <1>3, <1>4, <1>5, <1>6, <1>7, <1>8, <1>9, <1>10, <1>11, <1>12, <1>13, <1>14
        DEF Next

-----------------------------------------------------------------------------
(* Every row points at a bucket that has its image.                        *)

\* Steps that move neither an image nor a screenshot's row.
LEMMA ImagesKept ==
    ASSUME TypeOK, ImagesSound,
           UNCHANGED <<mode, connected, key, tkey>>,
           \A b \in Buckets : images[b] \subseteq images'[b],
           theirs \subseteq theirs', (theirs' \ theirs) \cap Shots = {},
           theirs' = theirs \/ (mpc \in {"events", "sessions"} /\ dst),
           ours \cap Shots \subseteq ours' \/ (mpc \notin {"idle", "start"} /\ dst),
           moved' = {} \/ (moved' = moved /\ dst' = dst /\ moveImages' = moveImages),
           mpc' \notin {"idle", "start"} => \/ mpc \notin {"idle", "start"} /\ dst' = dst /\ moveImages' = moveImages
                                           \/ /\ dst' <=> "database" \in connected
                                              /\ moveImages' <=> "files" \in connected
    PROVE  ImagesSound'
<1> SUFFICES ASSUME Undisturbed PROVE ImagesSound'
  BY DEF ImagesSound, Undisturbed
<1>0. /\ "database" \notin connected => theirs = {} /\ Shots \subseteq ours
      /\ "database" \in connected => \A s \in Shots : key[s] = "ours"
      /\ mpc \notin {"idle", "start"} => /\ dst <=> "database" \in connected
                                         /\ moveImages <=> "files" \in connected
      /\ \A s \in Shots : s \in images[IF s \in theirs THEN tkey[s] ELSE key[s]]
      /\ "files" \in connected => \A s \in Shots \cap theirs : tkey[s] = "theirs"
      /\ \A s \in moved : /\ moveImages /\ s \in images["theirs"]
                          /\ IF dst THEN s \in theirs ELSE key[s] = "theirs"
  BY DEF ImagesSound
<1>1. "database" \notin connected' => theirs' = {} /\ Shots \subseteq ours'
  BY <1>0
<1>2. "database" \in connected' => \A s \in Shots : key'[s] = "ours"
  BY <1>0
<1>3. mpc' \notin {"idle", "start"} => /\ dst' <=> "database" \in connected'
                                      /\ moveImages' <=> "files" \in connected'
  BY <1>0
<1>4. \A s \in Shots : s \in images'[IF s \in theirs' THEN tkey'[s] ELSE key'[s]]
  <2> SUFFICES ASSUME NEW s \in Shots
               PROVE  s \in images'[IF s \in theirs' THEN tkey[s] ELSE key[s]]
    OBVIOUS
  <2>1. s \in theirs' <=> s \in theirs
    OBVIOUS
  <2>2. tkey[s] \in Buckets /\ key[s] \in Buckets
    BY DEF TypeOK
  <2> QED BY <1>0, <2>1, <2>2
<1>5. "files" \in connected' => \A s \in Shots \cap theirs' : tkey'[s] = "theirs"
  BY <1>0
<1>6. \A s \in moved' : /\ moveImages' /\ s \in images'["theirs"]
                        /\ IF dst' THEN s \in theirs' ELSE key'[s] = "theirs"
  BY <1>0 DEF Buckets
<1> QED BY <1>1, <1>2, <1>3, <1>4, <1>5, <1>6 DEF ImagesSound

\* Copying a screenshot: the image is stored before the row points at it.
LEMMA ShotKeepsImages ==
    ASSUME TypeOK, ImagesSound, CopyShot
    PROVE  ImagesSound'
<1>1. PICK x \in page, k \in Buckets :
              /\ mpc = "shots" /\ x \in Shots /\ x \notin seen
              /\ k # key[x] => moveImages /\ key[x] = "ours" /\ k = "theirs"
              /\ ~mode.faults /\ moveImages /\ x \in images["ours"] => k = "theirs"
              /\ images'["ours"] = images["ours"]
              /\ images'["theirs"] = IF k # key[x] THEN images["theirs"] \cup {x} ELSE images["theirs"]
              /\ moved' = IF k # key[x] THEN moved \cup {x} ELSE moved
              /\ dst => /\ theirs' = theirs \cup {x} /\ key' = key
                        /\ tkey' = IF x \in theirs THEN tkey ELSE [tkey EXCEPT ![x] = k]
              /\ ~dst => /\ key' = [key EXCEPT ![x] = k] \/ (mode.faults /\ key' = key)
                         /\ UNCHANGED <<theirs, tkey>>
              /\ UNCHANGED <<mode, connected, status, ours, late, mpc, dst, moveImages, cursor, full,
                             stranded>>
  BY ShotEffect
<1> SUFFICES ASSUME Undisturbed PROVE ImagesSound'
  BY <1>1 DEF ImagesSound, Undisturbed
<1>0. /\ "database" \notin connected => theirs = {} /\ Shots \subseteq ours
      /\ "database" \in connected => \A t \in Shots : key[t] = "ours"
      /\ dst <=> "database" \in connected
      /\ moveImages <=> "files" \in connected
      /\ \A t \in Shots : t \in images[IF t \in theirs THEN tkey[t] ELSE key[t]]
      /\ "files" \in connected => \A t \in Shots \cap theirs : tkey[t] = "theirs"
      /\ \A t \in moved : /\ moveImages /\ t \in images["theirs"]
                          /\ IF dst THEN t \in theirs ELSE key[t] = "theirs"
  BY <1>1 DEF ImagesSound
<1>2. /\ ~mode.faults /\ key \in [Shots -> Buckets] /\ tkey \in [Shots -> Buckets]
      /\ moved \subseteq Shots
  BY DEF TypeOK, Undisturbed
<1>3. moveImages /\ x \notin theirs => k = "theirs"
  <2> SUFFICES ASSUME moveImages, x \notin theirs, key[x] = "ours" PROVE k = "theirs"
    BY <1>1, <1>2 DEF Buckets
  <2> QED BY <1>0, <1>1, <1>2
<1>4. k \in {key[x], "theirs"} /\ x \in images[key[x]] => x \in images'[k]
  BY <1>1, <1>2 DEF Buckets
<1>5. \A t \in Shots : \A b \in Buckets : t \in images[b] => t \in images'[b]
  BY <1>1 DEF Buckets
<1>6. \A t \in Shots : t \in images'[IF t \in theirs' THEN tkey'[t] ELSE key'[t]]
  <2> SUFFICES ASSUME NEW t \in Shots
               PROVE  t \in images'[IF t \in theirs' THEN tkey'[t] ELSE key'[t]]
    OBVIOUS
  <2>0. t \in images[IF t \in theirs THEN tkey[t] ELSE key[t]] /\ tkey[t] \in Buckets /\ key[t] \in Buckets
    BY <1>0, <1>2
  <2>1. CASE t # x \/ t \in theirs
    <3>1. (t \in theirs' <=> t \in theirs) /\ (t \in theirs => tkey'[t] = tkey[t]) /\ (t \notin theirs => key'[t] = key[t])
      BY <1>0, <1>1, <1>2, <2>1
    <3> QED BY <1>5, <2>0, <3>1
  <2>2. CASE t = x /\ x \notin theirs
    <3>1. x \in images'[k]
      BY <1>1, <1>4, <2>0, <2>2
    <3>2. CASE dst
      BY <1>1, <1>2, <2>2, <3>1, <3>2
    <3>3. CASE ~dst
      BY <1>1, <1>2, <2>2, <3>1, <3>3
    <3> QED BY <3>2, <3>3
  <2> QED BY <2>1, <2>2
<1>7. "files" \in connected' => \A t \in Shots \cap theirs' : tkey'[t] = "theirs"
  BY <1>0, <1>1, <1>2, <1>3
<1>8. \A t \in moved' : /\ moveImages' /\ t \in images'["theirs"]
                        /\ IF dst' THEN t \in theirs' ELSE key'[t] = "theirs"
  BY <1>0, <1>1, <1>2
<1>9. /\ "database" \notin connected' => theirs' = {} /\ Shots \subseteq ours'
      /\ "database" \in connected' => \A t \in Shots : key'[t] = "ours"
  BY <1>0, <1>1
<1>10. mpc' \notin {"idle", "start"} => /\ dst' <=> "database" \in connected'
                                        /\ moveImages' <=> "files" \in connected'
  BY <1>0, <1>1
<1> QED BY <1>6, <1>7, <1>8, <1>9, <1>10 DEF ImagesSound

\* Deleting the moved images: no row that is read points at one of them.
LEMMA DeleteKeepsImages ==
    ASSUME TypeOK, ImagesSound, DeleteImages
    PROVE  ImagesSound'
<1>1. PICK gone \in SUBSET moved : images' = [images EXCEPT !["ours"] = @ \ gone]
  BY DEF DeleteImages
<1>2. /\ mpc = "delImages" /\ mpc' = "finish"
      /\ UNCHANGED <<mode, connected, status, ours, theirs, key, tkey, late, dst, moveImages, moved>>
  BY DEF DeleteImages, runVars, shotVars
<1> SUFFICES ASSUME Undisturbed PROVE ImagesSound'
  BY <1>2 DEF ImagesSound, Undisturbed
<1>0. /\ "database" \notin connected => theirs = {}
      /\ dst <=> "database" \in connected
      /\ moveImages <=> "files" \in connected
      /\ \A t \in Shots : t \in images[IF t \in theirs THEN tkey[t] ELSE key[t]]
      /\ "files" \in connected => \A t \in Shots \cap theirs : tkey[t] = "theirs"
      /\ \A t \in moved : /\ moveImages /\ t \in images["theirs"]
                          /\ IF dst THEN t \in theirs ELSE key[t] = "theirs"
  BY <1>2 DEF ImagesSound
<1>3. images'["theirs"] = images["theirs"] /\ images'["ours"] = images["ours"] \ gone
  BY <1>1 DEF TypeOK, Buckets
<1>4. \A t \in Shots : t \in images'[IF t \in theirs THEN tkey[t] ELSE key[t]]
  <2> SUFFICES ASSUME NEW t \in Shots PROVE t \in images'[IF t \in theirs THEN tkey[t] ELSE key[t]]
    OBVIOUS
  <2>1. tkey[t] \in Buckets /\ key[t] \in Buckets
    BY DEF TypeOK
  <2>2. CASE t \in moved
    BY <1>0, <1>3, <2>2
  <2>3. CASE t \notin moved
    BY <1>0, <1>3, <2>1, <2>3 DEF Buckets
  <2> QED BY <2>2, <2>3
<1>5. \A t \in moved : t \in images'["theirs"]
  BY <1>0, <1>3
<1>6. /\ "database" \notin connected' => theirs' = {} /\ Shots \subseteq ours'
      /\ "database" \in connected' => \A t \in Shots : key'[t] = "ours"
      /\ dst' <=> "database" \in connected'
      /\ moveImages' <=> "files" \in connected'
      /\ "files" \in connected' => \A t \in Shots \cap theirs' : tkey'[t] = "theirs"
  BY <1>0, <1>2 DEF ImagesSound
<1>7. \A t \in moved' : /\ moveImages' /\ t \in images'["theirs"]
                        /\ IF dst' THEN t \in theirs' ELSE key'[t] = "theirs"
  BY <1>0, <1>2, <1>5
<1> QED BY <1>2, <1>4, <1>6, <1>7 DEF ImagesSound

LEMMA ImagesStep ==
    ASSUME TypeOK, RunSound, ImagesSound, [Next]_vars
    PROVE  ImagesSound'
<1>0. TypeOK /\ RunSound /\ ImagesSound
  OBVIOUS
<1> USE DEF runVars, shotVars, storeVars
<1>1. ASSUME NEW k \in Kinds, Connect(k) PROVE ImagesSound'
  BY <1>1 DEF Connect, ImagesSound, Undisturbed
<1>2. CASE MoveHistory
  <2>1. moved' = {}
    BY <1>0, <1>2 DEF MoveHistory, RunSound, TypeOK
  <2> QED BY <1>0, <1>2, <2>1, ImagesKept DEF MoveHistory
<1>3. CASE Start
  <2>1. moved' = {}
    BY <1>0, <1>3 DEF Start, RunSound
  <2> QED BY <1>0, <1>3, <2>1, ImagesKept DEF Start
<1>4. CASE \/ RunError \/ Finish \/ Crash
           \/ CopyEventsError \/ CopySessionsError \/ CopyShotError
  <2>1. theirs' = theirs \/ (mpc \in {"events", "sessions"} /\ dst)
    BY <1>0, <1>4, EndEffect DEF RunSound
  <2> QED BY <1>0, <1>4, <2>1, EndEffect, ImagesKept
<1>5. ASSUME NEW e \in Late, LateInsert(e) PROVE ImagesSound'
  BY <1>0, <1>5, ImagesKept DEF LateInsert
<1>6. CASE CopyEvents
  <2>1. /\ mpc = "events" /\ dst /\ theirs \subseteq theirs' /\ (theirs' \ theirs) \cap Shots = {}
        /\ mpc' \notin {"idle", "start"}
    BY <1>0, <1>6, RowAssumption DEF CopyEvents, RunSound, OurEvents
  <2> QED BY <1>0, <1>6, <2>1, ImagesKept DEF CopyEvents
<1>7. CASE CopySessions
  <2>1. /\ mpc = "sessions" /\ dst /\ theirs \subseteq theirs' /\ (theirs' \ theirs) \cap Shots = {}
        /\ mpc' \notin {"idle", "start"}
    BY <1>0, <1>7, RowAssumption DEF CopySessions, RunSound
  <2> QED BY <1>0, <1>7, <2>1, ImagesKept DEF CopySessions
<1>8. CASE ReadPage
  BY <1>0, <1>8, ImagesKept DEF ReadPage
<1>9. CASE SkipShot
  BY <1>0, <1>9, ImagesKept DEF SkipShot
<1>10. CASE CopyShot
  BY <1>0, <1>10, ShotKeepsImages
<1>11. CASE EndPage
  BY <1>0, <1>11, ImagesKept DEF EndPage
<1>12. CASE DeleteEvents \/ DeleteScreenshots \/ DeleteSessions
  <2>1. mpc \notin {"idle", "start"} /\ dst /\ mpc' \notin {"idle", "start"}
    BY <1>0, <1>12, DeleteEffect DEF RunSound
  <2> QED BY <1>0, <1>12, <2>1, DeleteEffect, ImagesKept
<1>13. CASE DeleteImages
  BY <1>0, <1>13, DeleteKeepsImages
<1>14. CASE UNCHANGED vars
  BY <1>14 DEF vars, ImagesSound, Undisturbed
<1> QED BY <1>1, <1>2, <1>3, <1>4, <1>5, <1>6, <1>7, <1>8, <1>9, <1>10, <1>11, <1>12, <1>13, <1>14
        DEF Next

-----------------------------------------------------------------------------
(* Events, sessions and screenshots are copied before they are deleted.    *)

LEMMA CopyStep ==
    ASSUME TypeOK, RunSound, CopySound, [Next]_vars
    PROVE  CopySound'
<1>0. TypeOK /\ RunSound /\ CopySound
  OBVIOUS
<1> USE DEF runVars, shotVars, storeVars
<1>1. ASSUME NEW k \in Kinds, Connect(k) PROVE CopySound'
  BY <1>0, <1>1 DEF Connect, CopySound
<1>2. CASE MoveHistory
  BY <1>2 DEF MoveHistory, CopySound
<1>3. CASE Start
  <2>1. mpc' = "events" \/ (mpc' = "page" /\ ~dst')
    BY <1>3 DEF Start
  <2>2. cursor' = 0 /\ \A e \in Events : ~(e <= 0)
    BY <1>0, <1>3, RowAssumption DEF Start, RunSound
  <2> QED BY <2>1, <2>2 DEF CopySound
<1>4. CASE \/ RunError \/ Finish \/ Crash
           \/ CopyEventsError \/ CopySessionsError \/ CopyShotError
  <2>1. mpc' = "idle"
    BY <1>0, <1>4, EndEffect
  <2> QED BY <2>1 DEF CopySound
<1>5. ASSUME NEW e \in Late, LateInsert(e) PROVE CopySound'
  <2>1. /\ ours' \cap Events = ours \cap Events /\ ours' \cap Shots = ours \cap Shots
        /\ ours' \cap Sessions = ours \cap Sessions
    BY <1>5, RowAssumption DEF LateInsert
  <2>2. UNCHANGED <<theirs, mpc, dst, cursor>>
    BY <1>5 DEF LateInsert
  <2> QED BY <1>0, <2>1, <2>2 DEF CopySound
<1>6. CASE CopyEvents
  <2>1. PICK p \in SUBSET OurEvents :
              /\ theirs' = theirs \cup p
              /\ cursor' \in Nat
              /\ \A e \in OurEvents : e > cursor /\ e <= cursor' => e \in p
              /\ \/ mpc' = "events"
                 \/ mpc' = "sessions" /\ \A e \in OurEvents : e > cursor => e \in p
    BY <1>0, <1>6, EventsEffect
  <2>2. mpc = "events" /\ ours' = ours
    BY <1>6 DEF CopyEvents
  <2>3. \A e \in ours \cap Events : e \in OurEvents /\ e \in Nat /\ (e <= cursor => e \in theirs)
    BY <1>0, <2>2, RowAssumption DEF OurEvents, CopySound
  <2>4. \A e \in ours \cap Events : e <= cursor' => e \in theirs'
    BY <1>0, <2>1, <2>3 DEF TypeOK
  <2>5. mpc' = "sessions" => ours \cap Events \subseteq theirs'
    BY <1>0, <2>1, <2>3 DEF TypeOK
  <2> QED BY <2>1, <2>2, <2>4, <2>5 DEF CopySound
<1>7. CASE CopySessions
  BY <1>0, <1>7 DEF CopySessions, CopySound
<1>8. CASE ReadPage
  BY <1>0, <1>8 DEF ReadPage, CopySound
<1>9. CASE SkipShot
  BY <1>0, <1>9 DEF SkipShot, CopySound
<1>10. CASE CopyShot
  <2>1. /\ mpc = "shots" /\ theirs \subseteq theirs' /\ UNCHANGED <<ours, mpc, dst, cursor>>
    BY <1>0, <1>10, ShotEffect
  <2> QED BY <1>0, <2>1 DEF CopySound
<1>11. CASE EndPage
  BY <1>0, <1>11 DEF EndPage, CopySound
<1>12. CASE DeleteEvents \/ DeleteScreenshots \/ DeleteSessions
  <2>1. UNCHANGED <<theirs, dst, cursor>>
    BY <1>12, DeleteEffect
  <2>2. CASE mpc = "delEvents" /\ mpc' = "delShots" /\ ours' = ours \ (Events \cup Late)
    BY <1>0, <2>1, <2>2 DEF CopySound
  <2>3. CASE mpc = "delShots" /\ mpc' = "delSessions" /\ ours' = ours \ Shots
    BY <1>0, <2>1, <2>3 DEF CopySound
  <2>4. CASE mpc = "delSessions" /\ mpc' = "delImages" /\ ours' = ours \ Sessions
    BY <1>0, <2>1, <2>4 DEF CopySound
  <2> QED BY <1>12, <2>2, <2>3, <2>4, DeleteEffect
<1>13. CASE DeleteImages
  BY <1>0, <1>13 DEF DeleteImages, CopySound
<1>14. CASE UNCHANGED vars
  BY <1>0, <1>14 DEF vars, CopySound
<1> QED BY <1>1, <1>2, <1>3, <1>4, <1>5, <1>6, <1>7, <1>8, <1>9, <1>10, <1>11, <1>12, <1>13, <1>14
        DEF Next

\* Fewer screenshots share a moment than fill a page, so that a page full of
\* screenshots already copied cannot be.
LEMMA PageMovesOn ==
    ASSUME Sparse, TypeOK, \A s \in seen : CapturedAt[s] = shotAt
    PROVE  ~\E p \in SUBSET seen : Cardinality(p) = ShotPage
<1> SUFFICES ASSUME NEW p \in SUBSET seen, Cardinality(p) = ShotPage PROVE FALSE
  OBVIOUS
<1> DEFINE same == {s \in Shots : CapturedAt[s] = shotAt}
<1>1. IsFiniteSet(same) /\ Cardinality(same) < ShotPage
  BY DEF Sparse, TypeOK
<1>2. p \subseteq same
  BY DEF TypeOK
<1> HIDE DEF same
<1>3. IsFiniteSet(p) /\ Cardinality(p) <= Cardinality(same)
  BY <1>1, <1>2, FS_Subset
<1>4. Cardinality(p) \in Nat /\ Cardinality(same) \in Nat
  BY <1>1, <1>3, FS_CardinalityType
<1> QED BY <1>1, <1>3, <1>4, PageAssumption

\* Copying a screenshot takes the loop on.
LEMMA ShotKeepsLoop ==
    ASSUME TypeOK, ImagesSound, StrandedSound, LoopSound, CopyShot
    PROVE  LoopSound'
<1>1. PICK x \in page, k \in Buckets :
              /\ mpc = "shots" /\ x \in Shots /\ x \notin seen
              /\ \A t \in page : CapturedAt[x] <= CapturedAt[t]
              /\ k # key[x] => moveImages /\ key[x] = "ours" /\ k = "theirs"
              /\ ~mode.faults /\ moveImages /\ x \in images["ours"] => k = "theirs"
              /\ moved' = IF k # key[x] THEN moved \cup {x} ELSE moved
              /\ dst => theirs' = theirs \cup {x} /\ key' = key
              /\ ~dst => /\ key' = [key EXCEPT ![x] = k] \/ (mode.faults /\ key' = key)
                         /\ UNCHANGED <<theirs, tkey>>
              /\ page' = page \ {x} /\ progressed' = TRUE /\ shotAt' = CapturedAt[x]
              /\ seen' = IF CapturedAt[x] = shotAt THEN seen \cup {x} ELSE {x}
              /\ UNCHANGED <<mode, connected, status, ours, late, mpc, dst, moveImages, cursor, full,
                             stranded>>
  BY ShotEffect
<1>2. /\ key \in [Shots -> Buckets] /\ page \subseteq Shots /\ seen \subseteq Shots /\ shotAt \in Nat
      /\ \A t \in Shots : CapturedAt[t] \in Nat
  BY ShotAssumption DEF TypeOK
<1>3. Copied(x)'
  <2>1. CASE dst
    <3> SUFFICES ASSUME Undisturbed, moveImages PROVE x \in moved'
      BY <1>1, <2>1 DEF Copied, Undisturbed
    <3>1. "database" \in connected /\ "files" \in connected /\ key[x] = "ours"
      BY <1>1, <2>1 DEF ImagesSound
    <3>2. x \in images["ours"]
      BY <1>1, <3>1 DEF StrandedSound, LoopSound
    <3> QED BY <1>1, <3>1, <3>2 DEF Undisturbed
  <2>2. CASE ~dst
    <3> SUFFICES ASSUME Undisturbed, moveImages PROVE key'[x] = "theirs"
      BY <1>1, <2>2 DEF Copied, Undisturbed
    <3>1. key'[x] = k
      BY <1>1, <1>2, <2>2 DEF Undisturbed
    <3>2. key[x] = "ours" => x \in images["ours"]
      BY <1>1, <2>2 DEF ImagesSound
    <3> QED BY <1>1, <1>2, <3>1, <3>2 DEF Undisturbed, Buckets
  <2> QED BY <2>1, <2>2
<1>4. ASSUME NEW t \in Shots, Copied(t) PROVE Copied(t)'
  <2>1. CASE dst
    BY <1>1, <1>4, <2>1 DEF Copied, Undisturbed
  <2>2. CASE ~dst
    <3>1. CASE t = x
      BY <1>3, <3>1
    <3>2. CASE t # x
      <4>1. key'[t] = key[t]
        BY <1>1, <1>2, <2>2, <3>2
      <4> QED BY <1>1, <1>4, <2>2, <4>1 DEF Copied, Undisturbed
    <3> QED BY <3>1, <3>2
  <2> QED BY <2>1, <2>2
<1>5. /\ \A s \in seen : CapturedAt[s] = shotAt /\ Copied(s)
      /\ \A s \in page : s \in ours /\ CapturedAt[s] >= shotAt
      /\ \A s \in ours \cap Shots :
             \/ Copied(s) \/ s \in page
             \/ full /\ CapturedAt[s] >= shotAt /\ \A t \in page : CapturedAt[t] <= CapturedAt[s]
  BY <1>1 DEF LoopSound
<1>6. \A s \in seen' : CapturedAt[s] = shotAt' /\ Copied(s)'
  BY <1>1, <1>2, <1>3, <1>4, <1>5
<1>7. \A s \in page' : s \in ours' /\ CapturedAt[s] >= shotAt'
  BY <1>1, <1>2, <1>5
<1>8. \A s \in ours' \cap Shots :
         \/ Copied(s)' \/ s \in page'
         \/ full' /\ CapturedAt[s] >= shotAt' /\ \A t \in page' : CapturedAt[t] <= CapturedAt[s]
  <2> SUFFICES ASSUME NEW s \in ours \cap Shots, ~Copied(s)', s \notin page'
               PROVE  full' /\ CapturedAt[s] >= shotAt' /\ \A t \in page' : CapturedAt[t] <= CapturedAt[s]
    BY <1>1
  <2>1. ~Copied(s) /\ s # x
    BY <1>3, <1>4
  <2>2. full /\ \A t \in page : CapturedAt[t] <= CapturedAt[s]
    BY <1>1, <1>5, <2>1
  <2> QED BY <1>1, <1>2, <2>2
<1> QED BY <1>1, <1>6, <1>7, <1>8 DEF LoopSound

LEMMA LoopStep ==
    ASSUME Sparse, TypeOK, RunSound, ImagesSound, StrandedSound, CopySound, LoopSound, [Next]_vars
    PROVE  LoopSound'
<1>0. TypeOK /\ RunSound /\ CopySound /\ LoopSound
  OBVIOUS
<1> USE DEF runVars, shotVars, storeVars
<1>a. \A s \in Shots : CapturedAt[s] \in Nat
  BY ShotAssumption
<1>1. ASSUME NEW k \in Kinds, Connect(k) PROVE LoopSound'
  BY <1>0, <1>1 DEF Connect, LoopSound, Copied, Undisturbed
<1>2. CASE MoveHistory
  BY <1>2 DEF MoveHistory, LoopSound
<1>3. CASE Start
  <2>1. mpc' \in {"events", "page"} /\ shotAt' = 0 /\ seen' = {}
    BY <1>0, <1>3 DEF Start, RunSound
  <2> QED BY <1>a, <2>1 DEF LoopSound
<1>4. CASE \/ RunError \/ Finish \/ Crash
           \/ CopyEventsError \/ CopySessionsError \/ CopyShotError
  <2>1. mpc' = "idle"
    BY <1>0, <1>4, EndEffect
  <2> QED BY <2>1 DEF LoopSound
<1>5. ASSUME NEW e \in Late, LateInsert(e) PROVE LoopSound'
  <2>1. ours' \cap Shots = ours \cap Shots
    BY <1>5, RowAssumption DEF LateInsert
  <2> QED BY <1>0, <1>5, <2>1 DEF LateInsert, LoopSound, Copied, Undisturbed
<1>6. CASE CopyEvents
  <2>1. mpc' \in {"events", "sessions"}
    BY <1>6 DEF CopyEvents
  <2> QED BY <2>1 DEF LoopSound
<1>7. CASE CopySessions
  <2>1. mpc' = "page" /\ shotAt' = 0 /\ seen' = {}
    BY <1>0, <1>7 DEF CopySessions, RunSound
  <2> QED BY <1>a, <2>1 DEF LoopSound
<1>8. CASE ReadPage
  <2>1. /\ \A s \in page' : s \in ours /\ CapturedAt[s] >= shotAt
        /\ full' => Cardinality(page') = ShotPage
        /\ \A s \in ours \cap Shots : CapturedAt[s] >= shotAt =>
              s \in page' \/ (full' /\ \A t \in page' : CapturedAt[t] <= CapturedAt[s])
        /\ mpc = "page" /\ mpc' = "shots"
        /\ UNCHANGED <<mode, theirs, key, ours, dst, moveImages, shotAt, seen, moved>>
    BY <1>8, PageEffect
  <2>2. \A s \in Shots : Copied(s)' <=> Copied(s)
    BY <2>1 DEF Copied, Undisturbed
  <2>3. full' => \E p \in SUBSET (page' \cup seen') : Cardinality(p) = ShotPage
    BY <2>1
  <2>4. /\ \A s \in seen : CapturedAt[s] = shotAt /\ Copied(s) /\ s \in Shots
        /\ \A s \in ours \cap Shots : Copied(s) \/ CapturedAt[s] >= shotAt
    BY <1>0, <2>1 DEF LoopSound, TypeOK
  <2> QED BY <2>1, <2>2, <2>3, <2>4 DEF LoopSound
<1>9. CASE SkipShot
  <2>1. PICK x \in page : IsNextShot(x) /\ x \in seen /\ page' = page \ {x}
    BY <1>9 DEF SkipShot
  <2>2. mpc = "shots" /\ UNCHANGED <<mode, ours, theirs, key, mpc, dst, moveImages, shotAt, seen, full, progressed,
                                     moved>>
    BY <1>9 DEF SkipShot
  <2>3. \A s \in Shots : Copied(s)' <=> Copied(s)
    BY <2>2 DEF Copied, Undisturbed
  <2>4. page' \cup seen' = page \cup seen
    BY <2>1, <2>2
  <2>5. /\ \A s \in seen : CapturedAt[s] = shotAt /\ Copied(s) /\ s \in Shots
        /\ \A s \in page : s \in ours /\ CapturedAt[s] >= shotAt
        /\ \A s \in ours \cap Shots :
               \/ Copied(s) \/ s \in page
               \/ full /\ CapturedAt[s] >= shotAt /\ \A t \in page : CapturedAt[t] <= CapturedAt[s]
        /\ full /\ ~progressed => \E p \in SUBSET (page \cup seen) : Cardinality(p) = ShotPage
    BY <1>0, <2>2 DEF LoopSound, TypeOK
  <2>6. \A s \in ours' \cap Shots :
               \/ Copied(s)' \/ s \in page'
               \/ full' /\ CapturedAt[s] >= shotAt' /\ \A t \in page' : CapturedAt[t] <= CapturedAt[s]
    BY <2>1, <2>2, <2>3, <2>5
  <2> QED BY <2>1, <2>2, <2>3, <2>4, <2>5, <2>6 DEF LoopSound
<1>10. CASE CopyShot
  BY <1>0, <1>10, ShotKeepsLoop
<1>11. CASE EndPage
  <2>1. /\ mpc = "shots" /\ page = {}
        /\ mpc' = IF progressed /\ full THEN "page" ELSE IF dst THEN "delEvents" ELSE "delImages"
        /\ UNCHANGED <<mode, ours, theirs, key, dst, moveImages, shotAt, seen, moved>>
    BY <1>11 DEF EndPage
  <2>2. \A s \in Shots : Copied(s)' <=> Copied(s)
    BY <2>1 DEF Copied, Undisturbed
  <2>3. /\ \A s \in seen : CapturedAt[s] = shotAt /\ Copied(s) /\ s \in Shots
        /\ \A s \in ours \cap Shots : Copied(s) \/ (full /\ CapturedAt[s] >= shotAt)
        /\ full /\ ~progressed => \E p \in SUBSET seen : Cardinality(p) = ShotPage
    BY <1>0, <2>1 DEF LoopSound, TypeOK
  <2>4. ~(full /\ ~progressed)
    BY <1>0, <2>3, PageMovesOn
  <2>5. CASE progressed /\ full
    BY <2>1, <2>2, <2>3, <2>5 DEF LoopSound
  <2>6. CASE ~full
    BY <2>1, <2>2, <2>3, <2>6 DEF LoopSound
  <2> QED BY <2>4, <2>5, <2>6
<1>12. CASE DeleteEvents \/ DeleteScreenshots \/ DeleteSessions
  <2>1. /\ mpc \in {"delEvents", "delShots", "delSessions"} /\ mpc' \in {"delShots", "delSessions", "delImages"}
        /\ ours' \subseteq ours /\ dst /\ UNCHANGED <<mode, theirs, dst, moveImages, moved>>
        /\ mpc = "delSessions" \/ mpc' = "delSessions" \/ mpc = "delEvents"
    BY <1>0, <1>12, DeleteEffect DEF RunSound
  <2>2. mpc' # "delSessions" => \A s \in ours \cap Shots : Copied(s)
    BY <1>0, <2>1 DEF LoopSound, CopySound
  <2> QED BY <2>1, <2>2 DEF LoopSound, Copied, Undisturbed
<1>13. CASE DeleteImages
  BY <1>0, <1>13 DEF DeleteImages, LoopSound, Copied, Undisturbed
<1>14. CASE UNCHANGED vars
  BY <1>0, <1>14 DEF vars, LoopSound, Copied, Undisturbed
<1> QED BY <1>1, <1>2, <1>3, <1>4, <1>5, <1>6, <1>7, <1>8, <1>9, <1>10, <1>11, <1>12, <1>13, <1>14
        DEF Next

-----------------------------------------------------------------------------
(* What is left in Aavishield's bucket.                                    *)

\* Steps that touch neither Aavishield's screenshots nor its bucket.
LEMMA StrandedKept ==
    ASSUME StrandedSound, UNCHANGED <<mode, connected, key, moved, stranded>>,
           images'["ours"] = images["ours"], ours' \cap Shots = ours \cap Shots,
           images["ours"] \subseteq Shots, mpc' # "finish"
    PROVE  StrandedSound'
  BY DEF StrandedSound, Undisturbed

LEMMA StrandedStep ==
    ASSUME TypeOK, RunSound, ImagesSound, CopySound, LoopSound, StrandedSound, [Next]_vars
    PROVE  StrandedSound'
<1>0. TypeOK /\ RunSound /\ ImagesSound /\ CopySound /\ LoopSound /\ StrandedSound
  OBVIOUS
<1>a. images["ours"] \subseteq Shots
  BY DEF TypeOK, Buckets
<1> USE DEF runVars, shotVars, storeVars
<1>1. ASSUME NEW k \in Kinds, Connect(k) PROVE StrandedSound'
  BY <1>1 DEF Connect, StrandedSound, Undisturbed
<1>2. CASE MoveHistory \/ Start
  BY <1>0, <1>2, <1>a, StrandedKept DEF MoveHistory, Start
<1>3. CASE \/ RunError \/ Finish \/ Crash
           \/ CopyEventsError \/ CopySessionsError \/ CopyShotError
  <2>1. /\ mpc' = "idle" /\ images'["ours"] = images["ours"]
        /\ stranded' = stranded \cup
              {s \in moved \cap images["ours"] : s \notin ours \/ key[s] = "theirs"}
        /\ UNCHANGED <<mode, connected, ours, key>>
    BY <1>0, <1>3, EndEffect
  <2>2. \A s \in images["ours"] : key[s] \in {"ours", "theirs"}
    BY <1>0, <1>a DEF TypeOK, Buckets
  <2> QED BY <1>0, <2>1, <2>2 DEF StrandedSound, Undisturbed
<1>4. ASSUME NEW e \in Late, LateInsert(e) PROVE StrandedSound'
  <2>1. ours' \cap Shots = ours \cap Shots
    BY <1>4, RowAssumption DEF LateInsert
  <2> QED BY <1>0, <1>4, <1>a, <2>1 DEF LateInsert, StrandedSound, Undisturbed
<1>5. CASE CopyEvents \/ CopySessions \/ ReadPage \/ SkipShot \/ EndPage
  <2>1. /\ UNCHANGED <<mode, connected, key, moved, stranded, images, ours>>
        /\ mpc' # "finish"
    BY <1>5 DEF CopyEvents, CopySessions, ReadPage, SkipShot, EndPage
  <2> QED BY <1>0, <1>a, <2>1, StrandedKept
<1>6. CASE CopyShot
  <2>1. PICK x \in page, k \in Buckets :
              /\ mpc = "shots" /\ x \in Shots
              /\ images'["ours"] = images["ours"]
              /\ moved' = IF k # key[x] THEN moved \cup {x} ELSE moved
              /\ dst => key' = key
              /\ ~dst => key' = [key EXCEPT ![x] = k] \/ key' = key
              /\ UNCHANGED <<mode, connected, ours, mpc, stranded>>
    BY <1>0, <1>6, ShotEffect
  <2>2. \A s \in Shots : key'[s] = key[s] \/ s \in moved'
    BY <1>0, <2>1 DEF TypeOK
  <2> QED BY <1>0, <1>a, <2>1, <2>2 DEF StrandedSound, Undisturbed
<1>7. CASE DeleteEvents \/ DeleteSessions
  <2>1. ours' \cap Shots = ours \cap Shots /\ mpc' # "finish"
    BY <1>7, RowAssumption DEF DeleteEvents, DeleteSessions, DeleteRows
  <2> QED BY <1>0, <1>7, <1>a, <2>1, StrandedKept, DeleteEffect
<1>8. CASE DeleteScreenshots
  <2>1. /\ mpc = "delShots" /\ mpc' = "delSessions" /\ ours' = ours \ Shots
        /\ UNCHANGED <<mode, connected, key, images, moved, stranded>>
    BY <1>8 DEF DeleteScreenshots, DeleteRows
  <2> SUFFICES ASSUME Undisturbed, "files" \in connected
               PROVE  \A s \in images["ours"] : s \in stranded \/ s \in moved
    BY <2>1 DEF StrandedSound, Undisturbed
  <2>2. dst /\ moveImages
    BY <1>0, <2>1 DEF RunSound, ImagesSound
  <2>3. \A s \in ours \cap Shots : s \in moved
    BY <1>0, <2>1, <2>2 DEF LoopSound, Copied
  <2> QED BY <1>0, <1>a, <2>3 DEF StrandedSound
<1>9. CASE DeleteImages
  <2>1. PICK gone \in {moved} \cup (IF mode.faults THEN SUBSET moved ELSE {}) :
           images' = [images EXCEPT !["ours"] = @ \ gone]
    BY <1>9 DEF DeleteImages
  <2>2. /\ mpc = "delImages"
        /\ UNCHANGED <<mode, connected, ours, key, dst, moved, stranded>>
    BY <1>9 DEF DeleteImages
  <2> SUFFICES ASSUME Undisturbed, "files" \in connected PROVE StrandedSound'
    BY <2>2 DEF StrandedSound, Undisturbed
  <2>3. images'["ours"] = images["ours"] \ moved
    BY <1>0, <2>1 DEF TypeOK, Buckets, Undisturbed
  <2>4. "database" \in connected => ours \cap Shots = {}
    BY <1>0, <2>2 DEF ImagesSound, CopySound
  <2> QED BY <1>0, <2>2, <2>3, <2>4 DEF StrandedSound
<1>10. CASE UNCHANGED vars
  BY <1>0, <1>10 DEF vars, StrandedSound, Undisturbed
<1> QED BY <1>1, <1>2, <1>3, <1>4, <1>5, <1>6, <1>7, <1>8, <1>9, <1>10 DEF Next

-----------------------------------------------------------------------------
(* What leaves Aavishield's database is in the company's.                  *)

\* Only the three deletions remove rows, and each finds its kind copied.
LEMMA RowsStep ==
    ASSUME TypeOK, RunSound, CopySound, LoopSound, [Next]_vars
    PROVE  /\ theirs \subseteq theirs'
           /\ \/ ours \subseteq ours'
              \/ ours' = ours \ (Events \cup Late) /\ ours \cap Events \subseteq theirs
              \/ ours' = ours \ Shots /\ ours \cap Shots \subseteq theirs
              \/ ours' = ours \ Sessions /\ ours \cap Sessions \subseteq theirs
<1> USE DEF runVars, shotVars, storeVars
<1>1. CASE DeleteEvents \/ DeleteScreenshots \/ DeleteSessions
  <2>1. theirs' = theirs /\ dst
    BY <1>1, DeleteEffect DEF RunSound
  <2>2. CASE mpc = "delEvents" /\ ours' = ours \ (Events \cup Late)
    BY <2>1, <2>2 DEF CopySound
  <2>3. CASE mpc = "delShots" /\ ours' = ours \ Shots
    <3>1. \A s \in ours \cap Shots : s \in theirs
      BY <2>1, <2>3 DEF LoopSound, Copied
    <3> QED BY <2>1, <2>3, <3>1
  <2>4. CASE mpc = "delSessions" /\ ours' = ours \ Sessions
    BY <2>1, <2>4 DEF CopySound
  <2> QED BY <1>1, <2>2, <2>3, <2>4, DeleteEffect
<1>2. CASE \/ RunError \/ Finish \/ Crash
           \/ CopyEventsError \/ CopySessionsError \/ CopyShotError
  BY <1>2, EndEffect
<1>3. CASE CopyEvents
  BY <1>3 DEF CopyEvents
<1>4. CASE CopyShot
  BY <1>4, ShotEffect
<1>5. CASE CopySessions \/ ReadPage \/ SkipShot \/ EndPage \/ DeleteImages
  BY <1>5 DEF CopySessions, ReadPage, SkipShot, EndPage, DeleteImages
<1>6. CASE MoveHistory \/ Start \/ UNCHANGED vars
  BY <1>6 DEF MoveHistory, Start, vars
<1>7. ASSUME NEW k \in Kinds, Connect(k) PROVE ours' = ours /\ theirs' = theirs
  BY <1>7 DEF Connect
<1>8. ASSUME NEW e \in Late, LateInsert(e) PROVE ours \subseteq ours' /\ theirs' = theirs
  BY <1>8 DEF LateInsert
<1> QED BY <1>1, <1>2, <1>3, <1>4, <1>5, <1>6, <1>7, <1>8 DEF Next

-----------------------------------------------------------------------------
(* The theorems.                                                           *)

LEMMA InitSound ==
    Init => TypeOK /\ RunSound /\ ImagesSound /\ StrandedSound /\ CopySound /\ LoopSound
<1> SUFFICES ASSUME Init
             PROVE  TypeOK /\ RunSound /\ ImagesSound /\ StrandedSound /\ CopySound /\ LoopSound
  OBVIOUS
<1>1. TypeOK
  <2>1. /\ mode \in Modes /\ connected \subseteq Kinds /\ late \subseteq Late
    BY SetupAssumption DEF Init
  <2>2. dst \in BOOLEAN /\ moveImages \in BOOLEAN /\ full \in BOOLEAN /\ progressed \in BOOLEAN
    BY Zenon DEF Init
  <2>3. /\ images \in [Buckets -> SUBSET Shots]
        /\ key \in [Shots -> Buckets] /\ tkey \in [Shots -> Buckets]
    BY DEF Init, Buckets
  <2>4. ours \subseteq Rows /\ theirs \subseteq Rows
    BY DEF Init, Rows
  <2> QED BY <2>1, <2>2, <2>3, <2>4 DEF Init, TypeOK, Places
<1>2. RunSound
  BY RowAssumption DEF Init, RunSound
<1>3. ImagesSound
  BY DEF Init, ImagesSound, Buckets
<1>4. CopySound /\ LoopSound
  BY DEF Init, CopySound, LoopSound
<1>5. StrandedSound
  BY DEF Init, StrandedSound, Buckets
<1> QED BY <1>1, <1>2, <1>3, <1>4, <1>5

\* TypeOK holds in every state of a move, whatever is connected and fails.
THEOREM TypeCorrect == Spec => []TypeOK
<1>1. TypeOK /\ [Next]_vars => TypeOK'
  BY TypeStep
<1> QED BY <1>1, InitSound, PTL DEF Spec

\* The images and the locals of a run, for any history.
THEOREM ImagesInvariant == Spec => [](TypeOK /\ RunSound /\ ImagesSound)
<1>1. TypeOK /\ RunSound /\ ImagesSound /\ [Next]_vars => RunSound' /\ ImagesSound'
  BY RunStep, ImagesStep
<1> QED BY <1>1, InitSound, TypeCorrect, PTL DEF Spec

\* The row the dashboard reads always points at a bucket that holds its image,
\* through copying, re-pointing, deleting, errors, restarts and second runs.
THEOREM AlwaysReachable == Spec => []ImagesReachable
<1>1. ImagesSound => ImagesReachable
  BY DEF ImagesSound, ImagesReachable
<1> QED BY <1>1, ImagesInvariant, PTL

\* What the loops have copied, what is still to come and what was deleted.
THEOREM MoveInvariant ==
    ASSUME Sparse
    PROVE  Spec => [](TypeOK /\ RunSound /\ ImagesSound /\ StrandedSound /\ CopySound /\ LoopSound)
<1>1. TypeOK /\ RunSound /\ ImagesSound /\ StrandedSound /\ CopySound /\ LoopSound /\ [Next]_vars =>
         StrandedSound' /\ CopySound' /\ LoopSound'
  BY CopyStep, LoopStep, StrandedStep
<1> QED BY <1>1, InitSound, ImagesInvariant, PTL DEF Spec

\* No row of the history is ever in neither database.
THEOREM HistoryKept ==
    ASSUME Sparse
    PROVE  Spec => []NoRowLost
<1>1. Init => NoRowLost
  BY DEF Init, NoRowLost, Rows
<1>2. TypeOK /\ RunSound /\ CopySound /\ LoopSound /\ NoRowLost /\ [Next]_vars => NoRowLost'
  <2> SUFFICES ASSUME TypeOK, RunSound, CopySound, LoopSound, NoRowLost, [Next]_vars
               PROVE  NoRowLost'
    OBVIOUS
  <2> QED BY RowsStep DEF NoRowLost, Rows
<1> QED BY <1>1, <1>2, MoveInvariant, PTL DEF Spec

\* A deletion finds every row of its kind in the company's database.
THEOREM DeletesOnlyCopied ==
    ASSUME Sparse
    PROVE  Spec => CopiedBeforeDeleted
<1> DEFINE Step == mode.late = {} => \A which \in {Events \cup Late, Sessions, Shots} :
                      (ours \ ours') \cap which # {} => ours \cap which \subseteq theirs
<1>1. TypeOK /\ RunSound /\ CopySound /\ LoopSound /\ [Next]_vars => [Step]_vars
  <2> SUFFICES ASSUME TypeOK, RunSound, CopySound, LoopSound, [Next]_vars, mode.late = {},
                      NEW which \in {Events \cup Late, Sessions, Shots},
                      (ours \ ours') \cap which # {}
               PROVE  ours \cap which \subseteq theirs
    OBVIOUS
  <2>1. ours \cap Late = {}
    BY DEF RunSound
  <2> QED BY <2>1, RowsStep, RowAssumption
<1>2. Spec => [][Step]_vars
  BY <1>1, MoveInvariant, PTL DEF Spec
<1> QED BY <1>2 DEF CopiedBeforeDeleted

\* A move that reports done has moved every row and every image to the stores
\* it moves to, and left none of them at Aavishield but the stranded images.
THEOREM DoneIsMoved ==
    ASSUME Sparse
    PROVE  Spec => DoneMeansMoved
<1> DEFINE Rowed == dst => ours \cap (Rows \ Late) = {} /\ Rows \ Late \subseteq theirs
           Imaged == moveImages =>
                       /\ \A s \in Shots : (IF dst THEN tkey[s] ELSE key[s]) = "theirs"
                       /\ Shots \subseteq images["theirs"]
                       /\ images["ours"] \subseteq stranded
           Step == Undisturbed /\ status = "running" /\ status' = "done" =>
                      /\ dst => ours \cap (Rows \ Late) = {} /\ Rows \ Late \subseteq theirs
                      /\ moveImages =>
                            /\ \A s \in Shots : (IF dst THEN tkey[s] ELSE key[s]) = "theirs"
                            /\ Shots \subseteq images["theirs"]
                            /\ images["ours"] \subseteq stranded
           Sound == TypeOK /\ RunSound /\ ImagesSound /\ StrandedSound /\ CopySound /\ LoopSound
                    /\ NoRowLost
<1>1. ASSUME Sound, [Next]_vars PROVE [Step]_vars
  <2> SUFFICES ASSUME Undisturbed, status = "running", status' = "done" PROVE Rowed /\ Imaged
    OBVIOUS
  <2>1. Finish
    BY <1>1 DEF Next, vars, Connect, MoveHistory, Start, RunError, Fail, Crash, LateInsert, CopyEvents,
       CopyEventsError, CopySessions, CopySessionsError, ReadPage, SkipShot, CopyShot, CopyShotError,
       EndPage, DeleteEvents, DeleteScreenshots, DeleteSessions, DeleteRows, DeleteImages
  <2>2. mpc = "finish"
    BY <2>1 DEF Finish
  <2>3. Rowed
    BY <1>1, <2>2 DEF CopySound, NoRowLost, Rows
  <2>4. ASSUME moveImages
        PROVE  \A s \in Shots : (IF dst THEN s \in theirs /\ tkey[s] = "theirs"
                                        ELSE key[s] = "theirs" /\ s \notin theirs)
    <3>1. CASE dst
      <4>1. Shots \subseteq theirs
        BY <2>3, <3>1, RowAssumption DEF Rows
      <4> QED BY <1>1, <2>2, <2>4, <3>1, <4>1 DEF ImagesSound
    <3>2. CASE ~dst
      <4>1. theirs = {} /\ Shots \subseteq ours
        BY <1>1, <2>2, <3>2 DEF ImagesSound
      <4> QED BY <1>1, <2>2, <2>4, <3>2, <4>1 DEF LoopSound, Copied
    <3> QED BY <3>1, <3>2
  <2>5. ASSUME moveImages PROVE Shots \subseteq images["theirs"]
    BY <1>1, <2>4, <2>5 DEF ImagesSound
  <2>6. ASSUME moveImages PROVE images["ours"] \subseteq stranded
    <3>1. \A s \in images["ours"] : s \in Shots
      BY <1>1 DEF TypeOK, Buckets
    <3>2. "files" \in connected /\ (dst => ours \cap Shots = {})
      BY <1>1, <2>2, <2>6 DEF ImagesSound, CopySound
    <3> QED BY <1>1, <2>2, <2>4, <2>6, <3>1, <3>2 DEF StrandedSound
  <2> QED BY <2>3, <2>4, <2>5, <2>6
<1>2. Sound /\ [Next]_vars => [Step]_vars
  BY <1>1
<1>3. Spec => [][Step]_vars
  BY <1>2, MoveInvariant, HistoryKept, PTL DEF Spec
<1> QED BY <1>3 DEF DoneMeansMoved
=============================================================================
