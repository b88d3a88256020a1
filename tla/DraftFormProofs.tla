---------------------------- MODULE DraftFormProofs ----------------------------
(***************************************************************************)
(* Proofs about DraftForm, for any forms that keep FormAssumption and any  *)
(* bounds.                                                                 *)
(***************************************************************************)
EXTENDS DraftForm, TLAPS

Drafts == [val : 0..MaxValues, ver : 0..Typed]

\* The last edit was made before the first answer, in a form that shows its
\* inputs by then.
TypedEarly == f.early /\ edited <= first

\* A save in flight sends what is in the inputs, unless more was typed since:
\* the last edit if it is not stored, and whatever is typed and not stored.
SendsInputs ==
  save # None /\ ~late =>
    /\ draft # None /\ draft.ver = Typed => draft.val = save.val
    /\ f.seed # "each" /\ edited > kept /\ ~TypedEarly => save.val = edited

\* The form's own flag is up over what was typed, and only over that.
FlagRight ==
  /\ draft # None /\ draft.ver = Typed /\ ~late => dirty
  /\ f.seed = "clean" /\ ~late /\ edited > kept => dirty
  /\ f.seed \in {"each", "clean"} /\ dirty /\ draft # None => draft.ver = Typed

\* Untouched inputs hold what the query holds; where the effect wakes up for
\* every answer, once the answer is there.
Follows ==
  f.seed \in {"each", "clean"} /\ ~dirty /\ draft # None /\ (req = None \/ f.wakes = "change") =>
    draft.val = fetched.val \/ (late /\ f.after = "write")

\* A switch has no inputs.
NoInputs == f.seed = "switch" => draft = None /\ edited = 0

-----------------------------------------------------------------------------
(* The values told apart.                                                  *)

LEMMA Distinct ==
  /\ Sent # None
  /\ \A a, b : [val |-> a, ver |-> b] # None
  /\ \A x \in Stored \cup Drafts : x # None /\ x # Sent
  /\ Blank \in Stored /\ Blank \in Drafts
  /\ \A x \in Stored : x \in Drafts /\ x.ver # Typed
<1>1. DOMAIN Sent = {"sent"} /\ DOMAIN None = {"none"}
  BY DEF Sent, None
<1>2. \A a, b : DOMAIN [val |-> a, ver |-> b] = {"val", "ver"}
  OBVIOUS
<1>3. \A x \in Stored \cup Drafts : DOMAIN x = {"val", "ver"}
  BY DEF Stored, Drafts
<1>4. Blank \in Stored /\ Blank \in Drafts
  BY BoundsAssumption DEF Blank, Stored, Drafts, Typed
<1>5. \A x \in Stored : x \in Drafts /\ x.ver # Typed
  BY BoundsAssumption DEF Stored, Drafts, Typed
<1>6. Sent # None
  BY <1>1
<1>7. \A a, b : [val |-> a, ver |-> b] # None
  BY <1>1, <1>2
<1>8. \A x \in Stored \cup Drafts : x # None /\ x # Sent
  BY <1>1, <1>3
<1> QED BY <1>4, <1>5, <1>6, <1>7, <1>8

\* What TypeOK says of the values that may be missing.
LEMMA Present ==
  ASSUME TypeOK
  PROVE  /\ save # None => save \in Drafts
         /\ drop # None => drop \in Drafts
         /\ draft # None => draft \in Drafts
         /\ fetched # None => fetched \in Stored
         /\ req \notin {None, Sent} => req \in Stored
         /\ srv \in Stored /\ f \in Forms
         /\ {clock, edited, kept, first} \subseteq 0..MaxValues /\ acked \in 0..MaxChanges
  BY DEF TypeOK, Drafts

\* onSuccess of a save, with what each form does after it.
LEMMA SavedEffect ==
  ASSUME TypeOK, Saved
  PROVE  /\ save # None /\ save \in Drafts /\ save \in Stored
         /\ save' = None /\ acked' = Newest(save.ver, acked) /\ dirty' = FALSE
         /\ kept' = Newest(save.val, kept)
         /\ UNCHANGED <<f, srv, drop, clock, edited, first, late, removed>>
         /\ Settled \in Drafts \cup {None}
         /\ \/ f.after = "refetch" /\ draft' = Settled /\ req' = Sent /\ UNCHANGED <<fetched, overtaken>>
            \/ /\ f.after \in {"write", "write and close"} /\ fetched' = save
               /\ req' = req /\ overtaken' \in BOOLEAN
               /\ draft' = IF f.seed = "each" /\ Fires(save)
                             THEN save
                             ELSE IF f.after = "write" THEN Settled ELSE None
            \/ f.after = "close" /\ draft' = None /\ UNCHANGED <<fetched, req, overtaken>>
            \/ f.after = "clear" /\ draft' = Blank /\ UNCHANGED <<fetched, req, overtaken>>
<1>1. save # None /\ save.ver # Typed
  BY DEF Saved
<1>2. save \in Drafts
  BY <1>1, Present
<1>3. save \in Stored
  BY <1>1, <1>2, BoundsAssumption DEF Drafts, Typed, Stored
<1>4. Settled \in Drafts \cup {None}
  <2>1. CASE draft # None /\ draft.val = save.val
    <3>1. Settled = [draft EXCEPT !.ver = save.ver]
      BY <2>1 DEF Settled
    <3>2. draft \in Drafts
      BY <2>1, Present
    <3>3. save.ver \in 0..Typed
      BY <1>2 DEF Drafts
    <3> QED BY <3>1, <3>2, <3>3 DEF Drafts
  <2>2. CASE ~(draft # None /\ draft.val = save.val)
    <3>1. Settled = draft
      BY <2>2 DEF Settled
    <3> QED BY <3>1, Present
  <2> QED BY <2>1, <2>2
<1>5. CASE f.after = "refetch" /\ Invalidate /\ draft' = Settled
  BY <1>1, <1>2, <1>3, <1>4, <1>5 DEF Saved, Invalidate
<1>7. CASE f.after = "write" /\ Write(save, Settled)
  <2>1. /\ fetched' = save
        /\ req' = req /\ overtaken' \in BOOLEAN
        /\ draft' = IF f.seed = "each" /\ Fires(save)
                      THEN save
                      ELSE IF f.after = "write" THEN Settled ELSE None
    BY <1>7 DEF Write
  <2> QED BY <1>1, <1>2, <1>3, <1>4, <1>7, <2>1 DEF Saved
<1>8. CASE f.after = "write and close" /\ Write(save, None)
  <2>1. /\ fetched' = save
        /\ req' = req /\ overtaken' \in BOOLEAN
        /\ draft' = IF f.seed = "each" /\ Fires(save)
                      THEN save
                      ELSE IF f.after = "write" THEN Settled ELSE None
    BY <1>8 DEF Write
  <2> QED BY <1>1, <1>2, <1>3, <1>4, <1>8, <2>1 DEF Saved
<1>9. CASE f.after = "close" /\ draft' = None /\ UNCHANGED <<fetched, req, overtaken>>
  BY <1>1, <1>2, <1>3, <1>4, <1>9 DEF Saved
<1>10. CASE f.after = "clear" /\ draft' = Blank /\ UNCHANGED <<fetched, req, overtaken>>
  BY <1>1, <1>2, <1>3, <1>4, <1>10 DEF Saved
<1> QED BY <1>5, <1>7, <1>8, <1>9, <1>10 DEF Saved

\* onSuccess of a removal; a save may be in flight, and stays.
LEMMA RemovedEffect ==
  ASSUME TypeOK, Removed
  PROVE  /\ drop' = None /\ drop \in Drafts /\ drop \in Stored
         /\ acked' = Newest(drop.ver, acked)
         /\ kept' = edited /\ removed' = TRUE
         /\ UNCHANGED <<f, srv, save, clock, edited, first, late>>
         /\ \/ /\ f.drops = "reseed" /\ draft' = fetched /\ req' = Sent
               /\ UNCHANGED <<dirty, fetched, overtaken>>
            \/ /\ f.drops = "close" /\ draft' = None /\ dirty' = FALSE
               /\ UNCHANGED <<fetched, req, overtaken>>
            \/ /\ f.drops = "write" /\ fetched' = drop
               /\ draft' \in {drop, None}
               /\ f.seed # "each" => draft' = None
               /\ overtaken' \in BOOLEAN /\ UNCHANGED <<req, dirty>>
<1>1. drop # None /\ drop.ver # Typed
  BY DEF Removed
<1>2. drop \in Drafts
  BY <1>1, Present
<1>3. drop \in Stored
  BY <1>1, <1>2, BoundsAssumption DEF Drafts, Typed, Stored
<1>4. Write(drop, None) => /\ fetched' = drop
                           /\ draft' \in {drop, None}
                           /\ f.seed # "each" => draft' = None
                           /\ overtaken' \in BOOLEAN /\ req' = req
  BY DEF Write
<1> QED BY <1>2, <1>3, <1>4 DEF Removed, Invalidate

\* An answer lands: the inputs take it or stay, with the flag.
LEMMA LandEffect ==
  ASSUME TypeOK, Land
  PROVE  /\ req \in Stored /\ req # None /\ req' = None /\ fetched' = req
         /\ first' = (IF fetched = None THEN edited ELSE first)
         /\ UNCHANGED <<f, srv, save, drop, clock, edited, kept, acked, late, overtaken, removed>>
         /\ \/ Seeds(req) /\ draft' = req /\ dirty' = FALSE
            \/ ~Seeds(req) /\ draft' = draft /\ dirty' = dirty
<1>1. req \in Stored /\ req # None
  BY Present DEF Land
<1>2. Receive(req)
  BY DEF Land
<1>3. /\ fetched' = req
      /\ \/ Seeds(req) /\ draft' = req /\ dirty' = FALSE
         \/ ~Seeds(req) /\ draft' = draft /\ dirty' = dirty
  BY <1>2 DEF Receive
<1> QED BY <1>1, <1>3 DEF Land

-----------------------------------------------------------------------------
(* Every step keeps the types.                                             *)

LEMMA TypeStep ==
  ASSUME TypeOK, [Next]_vars
  PROVE  TypeOK'
<1>0. TypeOK
  OBVIOUS
<1>1. CASE Refetch
  BY <1>0, <1>1 DEF Refetch, TypeOK
<1>2. CASE Serve
  BY <1>0, <1>2 DEF Serve, TypeOK
<1>3. CASE Land
  <2>1. dirty' \in BOOLEAN
    BY <1>0, <1>3, LandEffect, Zenon DEF TypeOK
  <2>2. draft' \in Drafts \cup {None}
    BY <1>0, <1>3, LandEffect, Present, Distinct
  <2>3. first' \in 0..MaxValues
    BY <1>0, <1>3, LandEffect DEF TypeOK
  <2> QED BY <1>0, <1>3, <2>1, <2>2, <2>3, LandEffect DEF TypeOK, Drafts
<1>4. CASE Choose
  <2>1. draft' \in Drafts \cup {None}
    BY <1>0, <1>4, Present, Distinct DEF Choose
  <2> QED BY <1>0, <1>4, <2>1 DEF Choose, TypeOK, Drafts
<1>5. CASE Edit
  <2>1. clock + 1 \in 0..MaxValues /\ Typed \in 0..Typed
    BY <1>0, <1>5, BoundsAssumption DEF Edit, TypeOK, Typed
  <2>2. draft' \in Drafts
    BY <1>5, <2>1 DEF Edit, Drafts
  <2>3. late' \in BOOLEAN /\ dirty' \in BOOLEAN
    BY <1>5, Zenon DEF Edit
  <2> QED BY <1>0, <1>5, <2>1, <2>2, <2>3 DEF Edit, TypeOK, Drafts
<1>6. CASE Submit
  <2>1. draft \in Drafts /\ Typed \in 0..Typed
    BY <1>0, <1>6, Present, BoundsAssumption DEF Submit, CanSave, Typed
  <2>2. save' \in Drafts
    BY <1>6, <2>1 DEF Submit, Drafts
  <2> QED BY <1>0, <1>6, <2>2 DEF Submit, TypeOK, Drafts
<1>7. CASE Toggle
  <2>1. clock + 1 \in 0..MaxValues /\ Typed \in 0..Typed
    BY <1>0, <1>7, BoundsAssumption DEF Toggle, TypeOK, Typed
  <2>2. save' \in Drafts
    BY <1>7, <2>1 DEF Toggle, Drafts
  <2> QED BY <1>0, <1>7, <2>1, <2>2 DEF Toggle, TypeOK, Drafts
<1>14. CASE Remove
  <2>1. clock + 1 \in 0..MaxValues /\ Typed \in 0..Typed
    BY <1>0, <1>14, BoundsAssumption DEF Remove, TypeOK, Typed
  <2>2. drop' \in Drafts
    BY <1>14, <2>1 DEF Remove, Drafts
  <2> QED BY <1>0, <1>14, <2>1, <2>2 DEF Remove, TypeOK, Drafts
<1>8. CASE Apply
  <2>1. ASSUME NEW m \in Drafts, Store(m)
        PROVE  srv' \in Stored /\ [m EXCEPT !.ver = srv.ver + 1] \in Drafts
    <3>1. srv \in Stored /\ srv.ver + 1 \in 0..MaxChanges /\ srv.ver + 1 \in 0..Typed
      BY <1>0, <2>1, Present, BoundsAssumption DEF Store, Stored, Typed
    <3> QED BY <2>1, <3>1 DEF Store, Stored, Drafts
  <2>2. CASE Store(save) /\ save' = [save EXCEPT !.ver = srv.ver + 1] /\ UNCHANGED drop
    <3>1. save \in Drafts
      BY <1>0, <2>2, Present DEF Store
    <3>2. srv' \in Stored /\ save' \in Drafts
      BY <2>1, <2>2, <3>1
    <3> QED BY <1>0, <1>8, <2>2, <3>2 DEF Apply, TypeOK, Drafts
  <2>3. CASE Store(drop) /\ drop' = [drop EXCEPT !.ver = srv.ver + 1] /\ UNCHANGED save
    <3>1. drop \in Drafts
      BY <1>0, <2>3, Present DEF Store
    <3>2. srv' \in Stored /\ drop' \in Drafts
      BY <2>1, <2>3, <3>1
    <3> QED BY <1>0, <1>8, <2>3, <3>2 DEF Apply, TypeOK, Drafts
  <2> QED BY <1>8, <2>2, <2>3 DEF Apply
<1>9. CASE Saved
  <2>1. draft' \in Drafts \cup {None} /\ fetched' \in Stored \cup {None} /\ req' \in Stored \cup {None, Sent}
    BY <1>0, <1>9, SavedEffect, Distinct DEF TypeOK
  <2>2. kept' \in 0..MaxValues /\ acked' \in 0..MaxChanges
    BY <1>0, <1>9, SavedEffect DEF TypeOK, Stored, Newest
  <2>3. overtaken' \in BOOLEAN /\ dirty' \in BOOLEAN
    BY <1>0, <1>9, SavedEffect, Zenon DEF TypeOK
  <2>4. overtaken' \in BOOLEAN
    BY <1>0, <1>9, SavedEffect DEF TypeOK
  <2> QED BY <1>0, <1>9, <2>1, <2>2, <2>3, <2>4, SavedEffect DEF TypeOK, Drafts
<1>10. CASE Removed
  <2>1. draft' \in Drafts \cup {None} /\ fetched' \in Stored \cup {None} /\ req' \in Stored \cup {None, Sent}
    BY <1>0, <1>10, RemovedEffect, Distinct, Present DEF TypeOK
  <2>2. overtaken' \in BOOLEAN
    BY <1>0, <1>10, RemovedEffect DEF TypeOK
  <2>3. removed' \in BOOLEAN /\ dirty' \in BOOLEAN
    BY <1>0, <1>10, RemovedEffect DEF TypeOK
  <2>4. acked' \in 0..MaxChanges
    BY <1>0, <1>10, RemovedEffect DEF TypeOK, Stored, Newest
  <2> QED BY <1>0, <1>10, <2>1, <2>2, <2>3, <2>4, RemovedEffect DEF TypeOK, Drafts
<1>11. CASE Fail
  BY <1>0, <1>11 DEF Fail, TypeOK
<1>12. CASE Elsewhere
  <2>1. clock + 1 \in 0..MaxValues /\ srv.ver + 1 \in 0..MaxChanges
    BY <1>0, <1>12, Present, BoundsAssumption DEF Elsewhere, Stored
  <2>2. srv' \in Stored
    BY <1>12, <2>1 DEF Elsewhere, Stored
  <2> QED BY <1>0, <1>12, <2>1, <2>2 DEF Elsewhere, TypeOK
<1>13. CASE UNCHANGED vars
  BY <1>0, <1>13 DEF vars, TypeOK
<1> QED BY <1>1, <1>2, <1>3, <1>4, <1>5, <1>6, <1>7, <1>8, <1>9, <1>10, <1>11, <1>12, <1>13, <1>14 DEF Next

-----------------------------------------------------------------------------
(* Every step keeps the inputs right.                                      *)

DraftSound == NoInputs /\ SendsInputs /\ FlagRight /\ Follows /\ EditsKept

LEMMA LandKeeps ==
  ASSUME TypeOK, DraftSound, Land
  PROVE  DraftSound'
<1>0. /\ req \in Stored /\ req # None /\ req' = None /\ fetched' = req /\ req.ver # Typed
      /\ first' = (IF fetched = None THEN edited ELSE first) /\ edited \in 0..MaxValues
      /\ UNCHANGED <<f, srv, save, clock, edited, kept, acked, late, overtaken, removed>>
  BY LandEffect, Distinct, Present
<1>3. TypedEarly => TypedEarly'
  BY <1>0 DEF TypedEarly
<1>1. CASE Seeds(req) /\ draft' = req /\ dirty' = FALSE
  <2>1. /\ f.seed \in {"each", "clean", "once"}
        /\ f.seed = "clean" => ~dirty
        /\ f.seed = "once" => draft = None \/ (f.early /\ fetched = None)
    BY <1>1 DEF Seeds, Unseeded
  <2>2. NoInputs'
    BY <1>0, <2>1 DEF NoInputs
  <2>3. SendsInputs'
    BY <1>0, <1>1, <1>3 DEF DraftSound, SendsInputs
  <2>4. FlagRight'
    BY <1>0, <1>1, <2>1 DEF DraftSound, FlagRight
  <2>5. Follows'
    BY <1>0, <1>1 DEF Follows
  <2>6. EditsKept'
    <3>1. CASE f.early /\ fetched = None
      BY <1>0, <3>1 DEF EditsKept
    <3>2. CASE ~(f.early /\ fetched = None)
      BY <1>0, <1>3, <2>1, <3>2, Present DEF DraftSound, EditsKept, FlagRight, TypedEarly
    <3> QED BY <3>1, <3>2
  <2> QED BY <2>2, <2>3, <2>4, <2>5, <2>6 DEF DraftSound
<1>2. CASE ~Seeds(req) /\ draft' = draft /\ dirty' = dirty
  <2>1. NoInputs' /\ SendsInputs' /\ FlagRight' /\ EditsKept'
    BY <1>0, <1>2, <1>3 DEF DraftSound, NoInputs, SendsInputs, FlagRight, EditsKept, TypedEarly
  <2>2. Follows'
    <3> SUFFICES ASSUME f.seed \in {"each", "clean"}, ~dirty, draft # None
                 PROVE  draft.val = req.val \/ (late /\ f.after = "write")
      BY <1>0, <1>2 DEF Follows
    <3>1. f.wakes # "fetch" /\ req = fetched
      BY <1>2 DEF Seeds, Fires
    <3>2. f.wakes = "change"
      BY <3>1, Present, FormAssumption
    <3> QED BY <3>1, <3>2 DEF DraftSound, Follows
  <2> QED BY <2>1, <2>2 DEF DraftSound
<1> QED BY <1>1, <1>2, LandEffect

LEMMA SavedKeeps ==
  ASSUME TypeOK, DraftSound, Saved
  PROVE  DraftSound'
<1>0. TypeOK /\ DraftSound
  OBVIOUS
<1>1. /\ save # None /\ save \in Drafts /\ save \in Stored
      /\ save' = None /\ dirty' = FALSE
      /\ kept' = (IF save.val > kept THEN save.val ELSE kept)
      /\ UNCHANGED <<f, srv, clock, edited, first, late, removed>>
  BY <1>0, SavedEffect DEF Newest
<1>2. /\ f \in Forms /\ {edited, kept} \subseteq 0..MaxValues /\ save.val \in 0..MaxValues
      /\ save.ver # Typed
  BY <1>0, <1>1, Present, Distinct DEF Drafts
\* The inputs afterwards: stored, as they were, or none.
<1>3. /\ Settled # None <=> draft # None
      /\ draft # None => Settled.val = draft.val
      /\ draft # None /\ draft.val = save.val => Settled.ver # Typed
      /\ draft # None /\ draft.ver # Typed => Settled.ver # Typed
  <2>1. CASE draft # None /\ draft.val = save.val
    <3>1. draft \in Drafts /\ Settled = [draft EXCEPT !.ver = save.ver] /\ save.ver \in 0..Typed
      BY <1>0, <1>1, <2>1, Present DEF Settled, Drafts
    <3>2. Settled \in Drafts /\ Settled.val = draft.val /\ Settled.ver = save.ver
      BY <3>1 DEF Drafts
    <3> QED BY <1>2, <2>1, <3>2, Distinct
  <2>2. CASE ~(draft # None /\ draft.val = save.val)
    BY <2>2 DEF Settled
  <2> QED BY <2>1, <2>2
<1>4. /\ draft' \in {Settled, save, None, Blank}
      /\ f.after = "refetch" => draft' = Settled /\ req' = Sent
      /\ f.after = "write" => /\ fetched' = save
                             /\ draft' = IF f.seed = "each" /\ Fires(save) THEN save ELSE Settled
      /\ f.seed = "switch" => draft' = Settled
  BY <1>0, <1>1, <1>2, SavedEffect, FormAssumption
<1>5. ~late => \/ f.seed = "each" \/ edited <= kept' \/ TypedEarly
  <2> SUFFICES ASSUME ~late, f.seed # "each", edited > kept, ~TypedEarly PROVE edited <= kept'
    BY <1>1, <1>2
  <2>1. save.val = edited
    BY <1>0, <1>1 DEF DraftSound, SendsInputs
  <2> QED BY <1>1, <1>2, <2>1
<1>6. edited <= kept => edited <= kept'
  BY <1>1, <1>2
<1>7. NoInputs'
  BY <1>0, <1>1, <1>3, <1>4 DEF DraftSound, NoInputs
<1>8. SendsInputs'
  BY <1>1 DEF SendsInputs
<1>9. FlagRight'
  <2>1. ~late /\ draft' # None => draft'.ver # Typed
    <3> SUFFICES ASSUME ~late, draft' # None PROVE draft'.ver # Typed
      OBVIOUS
    <3>1. CASE draft' = Settled
      BY <1>0, <1>1, <1>3, <3>1 DEF DraftSound, SendsInputs
    <3>2. CASE draft' \in {save, Blank}
      BY <1>2, <3>2, BoundsAssumption DEF Blank, Typed
    <3> QED BY <1>4, <3>1, <3>2
  <2>2. ~(f.seed = "clean" /\ ~late /\ edited > kept')
    BY <1>1, <1>2, <1>5, FormAssumption DEF TypedEarly
  <2> QED BY <1>1, <2>1, <2>2 DEF FlagRight
<1>10. Follows'
  <2> SUFFICES ASSUME f.seed \in {"each", "clean"}, draft' # None, req' = None \/ f.wakes = "change",
                      ~(late /\ f.after = "write")
               PROVE  draft'.val = fetched'.val
    BY <1>1 DEF Follows
  <2>1. f.seed = "each" /\ f.after = "write" /\ f.wakes = "change"
    BY <1>2, <1>4, FormAssumption, Distinct
  <2>2. CASE Fires(save)
    BY <1>4, <2>1, <2>2
  <2>3. CASE ~Fires(save)
    <3>1. fetched = save /\ draft' = Settled /\ fetched' = save
      BY <1>4, <2>1, <2>3 DEF Fires
    <3>2. draft # None /\ draft'.val = draft.val
      BY <1>3, <3>1
    <3>3. CASE dirty
      <4>1. draft.ver = Typed
        BY <1>0, <2>1, <3>2, <3>3 DEF DraftSound, FlagRight
      <4>2. draft.val = save.val
        BY <1>0, <1>1, <2>1, <3>2, <4>1 DEF DraftSound, SendsInputs
      <4> QED BY <1>2, <3>1, <3>2, <4>2
    <3>4. CASE ~dirty
      <4>1. draft.val = fetched.val
        BY <1>0, <2>1, <3>2, <3>4 DEF DraftSound, Follows
      <4> QED BY <3>1, <3>2, <4>1
    <3> QED BY <3>3, <3>4
  <2> QED BY <2>2, <2>3
<1>11. EditsKept'
  <2>1. CASE ~late
    BY <1>1, <1>5, <2>1 DEF EditsKept, TypedEarly
  <2>2. CASE late /\ ~(f.seed = "once" /\ f.after = "refetch")
    BY <1>1, <2>2 DEF EditsKept
  <2>3. CASE f.seed = "once" /\ f.after = "refetch"
    BY <1>0, <1>1, <1>3, <1>4, <1>6, <2>3 DEF DraftSound, EditsKept
  <2> QED BY <2>1, <2>2, <2>3
<1> QED BY <1>7, <1>8, <1>9, <1>10, <1>11 DEF DraftSound

LEMMA RemovedKeeps ==
  ASSUME TypeOK, DraftSound, Removed
  PROVE  DraftSound'
<1>0. TypeOK /\ DraftSound
  OBVIOUS
<1>1. /\ save' = save /\ kept' = edited /\ drop \in Stored /\ edited \in 0..MaxValues /\ f \in Forms
      /\ UNCHANGED <<f, srv, clock, edited, late>>
      /\ \/ /\ f.drops = "reseed" /\ draft' = fetched
            /\ UNCHANGED <<dirty, fetched, overtaken>>
         \/ /\ f.drops = "close" /\ draft' = None
         \/ /\ f.drops = "write" /\ draft' \in {drop, None} /\ (f.seed # "each" => draft' = None)
  BY <1>0, RemovedEffect, Present
<1>2. drop.ver # Typed /\ (fetched # None => fetched.ver # Typed)
  BY <1>0, <1>1, Present, Distinct
<1>3. draft' # None => draft'.ver # Typed
  BY <1>1, <1>2
<1>4. f.seed \in {"each", "clean", "switch"} => draft' = None
  BY <1>1, FormAssumption
<1>5. NoInputs' /\ SendsInputs' /\ Follows'
  BY <1>0, <1>1, <1>3, <1>4 DEF DraftSound, NoInputs, SendsInputs, Follows
<1>6. FlagRight'
  BY <1>1, <1>3, <1>4 DEF FlagRight
<1>7. EditsKept'
  BY <1>1 DEF EditsKept
<1> QED BY <1>5, <1>6, <1>7 DEF DraftSound

LEMMA DraftStep ==
  ASSUME TypeOK, DraftSound, [Next]_vars
  PROVE  DraftSound'
<1>0. TypeOK /\ DraftSound
  OBVIOUS
<1> USE DEF DraftSound, NoInputs, SendsInputs, FlagRight, Follows, EditsKept, TypedEarly
<1>1. CASE Refetch \/ Serve
  <2>1. /\ req' # None
        /\ UNCHANGED <<f, fetched, draft, dirty, save, clock, edited, kept, first, late>>
    BY <1>0, <1>1, Present, Distinct DEF Refetch, Serve
  <2> QED BY <1>0, <2>1
<1>2. CASE Land
  BY <1>0, <1>2, LandKeeps
<1>3. CASE Choose
  <2>1. /\ f.seed = "chosen" /\ draft' = fetched /\ fetched # None /\ kept' = edited
        /\ UNCHANGED <<f, fetched, req, dirty, save, edited, first, late>>
    BY <1>0, <1>3 DEF Choose
  <2>2. fetched.ver # Typed /\ edited \in 0..MaxValues
    BY <1>0, <2>1, Present, Distinct
  <2> QED BY <1>0, <2>1, <2>2
<1>4. CASE Edit
  <2>1. /\ draft # None /\ clock \in 0..MaxValues
        /\ edited' = clock + 1 /\ draft' = [val |-> clock + 1, ver |-> Typed] /\ dirty' = TRUE
        /\ (save # None => late')
        /\ UNCHANGED <<f, fetched, req, save, kept, first>>
    BY <1>0, <1>4, Present DEF Edit
  <2>2. draft' # None
    BY <2>1, Distinct
  <2> QED BY <1>0, <2>1, <2>2
<1>5. CASE Submit
  <2>1. /\ draft # None /\ save' = [val |-> draft.val, ver |-> Typed]
        /\ UNCHANGED <<f, fetched, req, draft, dirty, edited, kept, first, late>>
    BY <1>5 DEF Submit, CanSave
  <2>2. {edited, kept} \subseteq 0..MaxValues
    BY <1>0, Present
  <2> QED BY <1>0, <2>1, <2>2
<1>6. CASE Toggle
  <2>1. f.seed = "switch" /\ UNCHANGED <<f, fetched, req, draft, dirty, edited, kept, first, late>>
    BY <1>6 DEF Toggle
  <2>2. {edited, kept} \subseteq 0..MaxValues
    BY <1>0, Present
  <2> QED BY <1>0, <2>1, <2>2
<1>7. CASE Remove
  <2>1. UNCHANGED <<f, fetched, req, draft, dirty, save, edited, kept, first, late>>
    BY <1>7 DEF Remove
  <2> QED BY <1>0, <2>1
<1>8. CASE Apply
  <2>1. UNCHANGED <<f, fetched, req, draft, dirty, edited, kept, first, late>>
    BY <1>8 DEF Apply
  <2>2. save' # None => save # None /\ save'.val = save.val
    <3>1. CASE Store(save) /\ save' = [save EXCEPT !.ver = srv.ver + 1]
      <4>1. save # None /\ save \in Drafts
        BY <1>0, <3>1, Present DEF Store
      <4> QED BY <3>1, <4>1 DEF Drafts
    <3> QED BY <1>8, <3>1 DEF Apply
  <2> QED BY <1>0, <2>1, <2>2
<1>9. CASE Saved
  BY <1>0, <1>9, SavedKeeps
<1>10. CASE Removed
  BY <1>0, <1>10, RemovedKeeps
<1>11. CASE Fail
  <2>1. save' \in {None, save} /\ UNCHANGED <<f, fetched, req, draft, dirty, edited, kept, first, late>>
    BY <1>11 DEF Fail
  <2> QED BY <1>0, <2>1
<1>12. CASE Elsewhere \/ UNCHANGED vars
  <2>1. UNCHANGED <<f, fetched, req, draft, dirty, save, edited, kept, first, late>>
    BY <1>12 DEF Elsewhere, vars
  <2> QED BY <1>0, <2>1
<1> QED BY <1>1, <1>2, <1>3, <1>4, <1>5, <1>6, <1>7, <1>8, <1>9, <1>10, <1>11, <1>12 DEF Next

-----------------------------------------------------------------------------
(* The theorems.                                                           *)

\* Types, and what a form knows of its inputs.
THEOREM DraftInvariant == Spec => [](TypeOK /\ DraftSound)
<1>1. Init => TypeOK /\ DraftSound
  <2> SUFFICES ASSUME Init PROVE TypeOK /\ DraftSound
    OBVIOUS
  <2>1. TypeOK
    <3>1. srv \in Stored /\ draft \in Drafts \cup {None} /\ req \in {None, Sent}
      BY Distinct DEF Init
    <3>2. dirty \in BOOLEAN /\ late \in BOOLEAN /\ overtaken \in BOOLEAN /\ removed \in BOOLEAN
      BY Zenon DEF Init
    <3>3. 0 \in 0..MaxValues /\ 0 \in 0..MaxChanges
      BY BoundsAssumption
    <3> QED BY <3>1, <3>2, <3>3 DEF Init, TypeOK, Drafts
  <2>2. draft # None => f.seed \in {"blank", "once"} /\ draft = Blank /\ draft.ver # Typed
    BY BoundsAssumption, FormAssumption DEF Init, Blank, Typed
  <2> QED BY <2>1, <2>2, SMTT(30) DEF Init, DraftSound, NoInputs, SendsInputs, FlagRight, Follows, EditsKept
<1>2. TypeOK /\ DraftSound /\ [Next]_vars => TypeOK' /\ DraftSound'
  BY TypeStep, DraftStep
<1> QED BY <1>1, <1>2, PTL DEF Spec

\* What someone typed stays in the inputs until they save or remove it, and
\* inputs nobody touched show what the query holds, whatever is fetched, saved,
\* removed or changed elsewhere, in whatever order; with the exceptions
\* EditsKept and FormFollowsFetch name, the block page's typing before its
\* first answer among them.
THEOREM InputsStayRight == Spec => []InputsRight
<1>1. DraftSound => InputsRight
  BY DEF DraftSound, Follows, InputsRight, FormFollowsFetch
<1> QED BY <1>1, DraftInvariant, PTL

\* No order of saves, failures and refetches disables the save button over
\* edits that are not stored.
THEOREM EditsCanBeSaved == Spec => []UnsavedCanBeSaved
<1>1. DraftSound => UnsavedCanBeSaved
  BY DEF DraftSound, FlagRight, UnsavedCanBeSaved, CanSave
<1> QED BY <1>1, DraftInvariant, PTL
=============================================================================
