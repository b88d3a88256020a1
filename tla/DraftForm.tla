----------------------------- MODULE DraftForm -----------------------------
(***************************************************************************)
(* A settings form over a query: the effect that copies what was fetched   *)
(* into the inputs, the edits, the save and what follows it, and the       *)
(* refetches that react-query makes meanwhile (on mount, on focus, by      *)
(* interval, after an invalidation).  Which form it is, is chosen at the   *)
(* start from FormPages.                                                   *)
(*                                                                         *)
(* What a form holds is abstracted to a number, new for every edit and     *)
(* every change on the server; with it goes the version of the server it   *)
(* was read from or stored at, Typed while it is neither.                  *)
(***************************************************************************)
EXTENDS Naturals

CONSTANTS
  Forms,       \* the facts of the forms
  MaxChanges,  \* bound: changes of the stored value
  MaxValues    \* bound: edits, and changes made elsewhere

ASSUME BoundsAssumption == MaxChanges \in Nat /\ MaxValues \in Nat

\* How the ways to seed a form, to save it and to remove go together.
ASSUME FormAssumption == \A x \in Forms :
  /\ x.seed = "switch" => x.after = "write" /\ x.drops = "none"
  /\ x.drops = "reseed" => x.seed = "once"
  /\ x.early => x.seed = "once" /\ x.after = "refetch" /\ x.drops = "none"
  /\ x.seed = "clean" => x.wakes = "fetch" /\ x.after = "refetch" /\ x.drops = "none"
  /\ x.seed = "each" => \/ x.wakes = "fetch" /\ x.after = "refetch" /\ x.drops = "none"
                        \/ x.wakes = "change" /\ x.after = "write" /\ x.drops \in {"none", "close"}

None == [none |-> TRUE]
Sent == [sent |-> TRUE]
Typed == MaxChanges + 1
Blank == [val |-> 0, ver |-> 0]

VARIABLES
  f,         \* the form's facts
  srv,       \* value and version on the server
  fetched,   \* what the query holds
  req,       \* the query's request: None, Sent, or the answer on its way
  draft,     \* what the inputs hold; None: not shown yet, or the form is closed
  dirty,     \* the form's own flag
  save,      \* the save in flight: what it sends, and where it was stored
  drop,      \* the removal in flight
  clock,     \* numbers given out
  edited,    \* the last edit
  kept,      \* the last edit stored, or given up by the person
  first,     \* the last edit when the first answer landed
  acked,     \* newest version a success told the form of
  late,      \* an edit was made while a save was in flight
  overtaken, \* setQueryData found a request in flight
  removed    \* a removal succeeded

vars == <<f, srv, fetched, req, draft, dirty, save, drop, clock, edited, kept, first,
          acked, late, overtaken, removed>>

Init ==
  /\ f \in Forms
  /\ srv = Blank /\ fetched = None
  /\ req = IF f.seed = "blank" THEN None ELSE Sent
  /\ draft = IF f.seed = "blank" \/ f.early THEN Blank ELSE None
  /\ dirty = FALSE /\ save = None /\ drop = None
  /\ clock = 0 /\ edited = 0 /\ kept = 0 /\ first = 0 /\ acked = 0
  /\ late = FALSE /\ overtaken = FALSE /\ removed = FALSE

-----------------------------------------------------------------------------
(* The query and the effect that seeds the inputs.                         *)

\* Mount, window focus after staleTime, refetchInterval.
Refetch ==
  /\ f.seed # "blank" /\ req = None
  /\ req' = Sent
  /\ UNCHANGED <<f, srv, fetched, draft, dirty, save, drop, clock, edited, kept, first, acked,
                 late, overtaken, removed>>

Serve ==
  /\ req = Sent
  /\ req' = srv
  /\ UNCHANGED <<f, srv, fetched, draft, dirty, save, drop, clock, edited, kept, first, acked,
                 late, overtaken, removed>>

\* The effect's dependency has changed: the response object is new with every
\* fetch, the data inside it is shared with the last one while it is equal
\* (updated_at included).
Fires(new) == f.wakes = "fetch" \/ new # fetched

\* The form that seeds once has not been seeded: it has no inputs yet, or only
\* the empty ones it shows before the first answer.
Unseeded == draft = None \/ (f.early /\ fetched = None)

\* A plausible mistake: the dirty flag is not looked at.
SeedsEdited(new) ==
  \/ f.seed \in {"each", "clean"} /\ Fires(new)
  \/ f.seed = "once" /\ Unseeded

\* Does the effect copy what arrived into the inputs?
Seeds(new) ==
  \/ f.seed = "each" /\ Fires(new)
  \/ f.seed = "clean" /\ Fires(new) /\ ~dirty
  \/ f.seed = "once" /\ Unseeded

Receive(new) ==
  /\ fetched' = new
  /\ draft' = IF Seeds(new) THEN new ELSE draft
  /\ dirty' = IF Seeds(new) THEN FALSE ELSE dirty

Land ==
  /\ req \notin {None, Sent}
  /\ req' = None
  /\ Receive(req)
  /\ first' = IF fetched = None THEN edited ELSE first
  /\ UNCHANGED <<f, srv, save, drop, clock, edited, kept, acked, late, overtaken, removed>>

-----------------------------------------------------------------------------
(* The person at the form.                                                 *)

\* Choosing a provider fills the fields from the saved summary; what was
\* typed for another one is given up.  The buttons stay enabled during a save.
Choose ==
  /\ f.seed = "chosen" /\ fetched # None
  /\ draft' = fetched /\ kept' = edited
  /\ UNCHANGED <<f, srv, fetched, req, dirty, save, drop, clock, edited, first, acked,
                 late, overtaken, removed>>

\* Also into the empty inputs of a form that shows them before the first answer.

Edit ==
  /\ draft # None /\ clock < MaxValues
  /\ f.locked => save = None
  /\ clock' = clock + 1 /\ edited' = clock + 1
  /\ draft' = [val |-> clock + 1, ver |-> Typed]
  /\ dirty' = TRUE
  /\ late' = (late \/ save # None)
  /\ UNCHANGED <<f, srv, fetched, req, save, drop, kept, first, acked, overtaken, removed>>

\* Is the save button enabled?
CanSave ==
  /\ save = None /\ (f.exclusive => drop = None)
  /\ draft # None
  /\ f.early => fetched # None
  /\ f.gated => dirty

\* A plausible mistake: the flag is cleared when the save is sent.
SubmitClean ==
  /\ CanSave
  /\ save' = [val |-> draft.val, ver |-> Typed]
  /\ dirty' = FALSE
  /\ UNCHANGED <<f, srv, fetched, req, draft, drop, clock, edited, kept, first, acked,
                 late, overtaken, removed>>

\* The whole form is sent.
Submit ==
  /\ CanSave
  /\ save' = [val |-> draft.val, ver |-> Typed]
  /\ UNCHANGED <<f, srv, fetched, req, draft, dirty, drop, clock, edited, kept, first, acked,
                 late, overtaken, removed>>

\* A switch has no inputs: it sends the opposite of what is shown.
Toggle ==
  /\ f.seed = "switch" /\ fetched # None /\ save = None /\ clock < MaxValues
  /\ clock' = clock + 1
  /\ save' = [val |-> clock + 1, ver |-> Typed]
  /\ UNCHANGED <<f, srv, fetched, req, draft, dirty, drop, edited, kept, first, acked,
                 late, overtaken, removed>>

\* Remove, disconnect: a button with a mutation of its own, which also looks
\* at the save where the buttons are exclusive; Disconnect shows only while
\* the connection is not being edited.
Remove ==
  /\ f.drops # "none" /\ fetched # None /\ clock < MaxValues
  /\ drop = None /\ (f.exclusive => save = None)
  /\ f.seed = "chosen" => draft = None
  /\ clock' = clock + 1
  /\ drop' = [val |-> clock + 1, ver |-> Typed]
  /\ UNCHANGED <<f, srv, fetched, req, draft, dirty, save, edited, kept, first, acked,
                 late, overtaken, removed>>

-----------------------------------------------------------------------------
(* The mutations.                                                          *)

Store(m) ==
  /\ m # None /\ m.ver = Typed /\ srv.ver < MaxChanges
  /\ srv' = [val |-> m.val, ver |-> srv.ver + 1]

Apply ==
  /\ \/ Store(save) /\ save' = [save EXCEPT !.ver = srv.ver + 1] /\ UNCHANGED drop
     \/ Store(drop) /\ drop' = [drop EXCEPT !.ver = srv.ver + 1] /\ UNCHANGED save
  /\ UNCHANGED <<f, fetched, req, draft, dirty, clock, edited, kept, first, acked,
                 late, overtaken, removed>>

\* What the inputs hold once the save is stored; what was typed since is not.
Settled ==
  IF draft # None /\ draft.val = save.val THEN [draft EXCEPT !.ver = save.ver] ELSE draft

\* A plausible mistake: the request in flight is let finish.
InvalidateLeavingOld ==
  /\ req' = IF req = None THEN Sent ELSE req
  /\ UNCHANGED <<fetched, overtaken>>

\* invalidateQueries: a request in flight is cancelled, a new one is sent.
Invalidate ==
  /\ req' = Sent
  /\ UNCHANGED <<fetched, overtaken>>

\* setQueryData: the answer of the mutation becomes the query's data, and the
\* effect sees it; a request in flight is not cancelled.
Write(new, d) ==
  /\ fetched' = new
  /\ draft' = IF f.seed = "each" /\ Fires(new) THEN new ELSE d
  /\ overtaken' = (overtaken \/ req # None)
  /\ UNCHANGED req

Newest(a, b) == IF a > b THEN a ELSE b

\* onSuccess of the save.
Saved ==
  /\ save # None /\ save.ver # Typed
  /\ save' = None
  /\ acked' = Newest(save.ver, acked) /\ kept' = Newest(save.val, kept)
  /\ dirty' = FALSE
  /\ \/ f.after = "refetch" /\ Invalidate /\ draft' = Settled
     \/ f.after = "write" /\ Write(save, Settled)
     \/ f.after = "write and close" /\ Write(save, None)
     \/ f.after = "close" /\ draft' = None /\ UNCHANGED <<fetched, req, overtaken>>
     \/ f.after = "clear" /\ draft' = Blank /\ UNCHANGED <<fetched, req, overtaken>>
  /\ UNCHANGED <<f, srv, drop, clock, edited, first, late, removed>>

\* onSuccess of the removal.  A form that is seeded once sets its draft to
\* null and is seeded again, in the next render, from the data it still has.
Removed ==
  /\ drop # None /\ drop.ver # Typed
  /\ drop' = None
  /\ acked' = Newest(drop.ver, acked) /\ kept' = edited
  /\ removed' = TRUE
  /\ \/ f.drops = "reseed" /\ Invalidate /\ draft' = fetched /\ UNCHANGED dirty
     \/ f.drops = "close" /\ draft' = None /\ dirty' = FALSE /\ UNCHANGED <<fetched, req, overtaken>>
     \/ f.drops = "write" /\ Write(drop, None) /\ UNCHANGED dirty
  /\ UNCHANGED <<f, srv, save, clock, edited, first, late>>

\* onError: a message; the inputs stay.  The change may have been made.
Fail ==
  /\ \/ save # None /\ save' = None /\ UNCHANGED drop
     \/ drop # None /\ drop' = None /\ UNCHANGED save
  /\ UNCHANGED <<f, srv, fetched, req, draft, dirty, clock, edited, kept, first, acked,
                 late, overtaken, removed>>

\* Another administrator, or the server.
Elsewhere ==
  /\ f.seed # "blank" /\ clock < MaxValues /\ srv.ver < MaxChanges
  /\ clock' = clock + 1
  /\ srv' = [val |-> clock + 1, ver |-> srv.ver + 1]
  /\ UNCHANGED <<f, fetched, req, draft, dirty, save, drop, edited, kept, first, acked,
                 late, overtaken, removed>>

Next ==
  \/ Refetch \/ Serve \/ Land
  \/ Choose \/ Edit \/ Submit \/ Toggle \/ Remove
  \/ Apply \/ Saved \/ Removed \/ Fail \/ Elsewhere

\* Requests are answered, and an interval is kept where there is one.
Fairness == WF_vars(Serve) /\ WF_vars(Land) /\ WF_vars(f.poll /\ Refetch)

Spec == Init /\ [][Next]_vars /\ Fairness

-----------------------------------------------------------------------------

Stored == [val : 0..MaxValues, ver : 0..MaxChanges]

\* Every variable holds a value of its kind.
TypeOK ==
  /\ f \in Forms
  /\ srv \in Stored /\ fetched \in Stored \cup {None}
  /\ req \in Stored \cup {None, Sent}
  /\ draft \in [val : 0..MaxValues, ver : 0..Typed] \cup {None}
  /\ {save, drop} \subseteq [val : 0..MaxValues, ver : 0..Typed] \cup {None}
  /\ {clock, edited, kept, first} \subseteq 0..MaxValues /\ acked \in 0..MaxChanges
  /\ {dirty, late, overtaken, removed} \subseteq BOOLEAN

\* What someone typed is in the inputs until a save or a removal of theirs has
\* succeeded, whatever is fetched meanwhile ("leave the user's edits alone",
\* profile/page.tsx; "would fight the person typing", settings/page.tsx).
\* Excused: the forms that copy every answer into their inputs; what is typed
\* while a save is in flight where the save fills, empties or closes the form;
\* and what is typed before the first answer where the inputs are shown by
\* then, which that answer overwrites.
EditsKept ==
  \/ f.seed = "each"
  \/ late /\ ~(f.seed = "once" /\ f.after = "refetch")
  \/ f.early /\ edited <= first
  \/ edited <= kept
  \/ draft # None /\ draft.val = edited

\* Inputs nobody has touched show what the query holds, in the forms that
\* follow it, when no request is on its way: a background refetch, a save by
\* someone else and a failed save leave no form half old.  Excused: the
\* content editor after typing during a save, whose onSuccess clears the flag
\* over what was typed and whose setQueryData may find nothing changed.
FormFollowsFetch ==
  f.seed \in {"each", "clean"} /\ ~dirty /\ draft # None /\ req = None =>
    draft.val = fetched.val \/ (late /\ f.after = "write")

\* The inputs hold what the person typed or, untouched, what the query holds.
InputsRight == EditsKept /\ FormFollowsFetch

\* Edits that are in the inputs and not stored can be saved: no order of
\* saves, removals, failures and refetches leaves the save button disabled
\* over them; except for what was typed while a save was in flight, before the
\* form has loaded, and during a removal that shares the buttons' lock.
UnsavedCanBeSaved ==
  /\ draft # None /\ draft.ver = Typed /\ save = None /\ ~late
  /\ f.early => fetched # None
  /\ f.exclusive => drop = None
  => CanSave

\* What is on the screen when the person stops is not older than their last
\* successful save.  Excused: a request that setQueryData overtook, where no
\* interval repairs it, the form that re-seeds what was removed, and forms
\* that are gone after it.
SavedIsShown ==
  LET shown == IF draft = None \/ f.seed = "chosen" THEN fetched ELSE draft
  IN  <>[](\/ f.seed = "blank"
           \/ f.after = "close"
           \/ removed /\ f.drops \in {"reseed", "close"}
           \/ overtaken /\ ~f.poll
           \/ shown # None /\ shown.ver >= acked)

=============================================================================
