----------------------------- MODULE EventLedger ------------------------------
(***************************************************************************)
(* What recording events promises, with no database, spool or flusher in   *)
(* it: the standing of each batch and the changes of standing allowed.  A   *)
(* batch still being recorded is accepted or refused.  An accepted one is  *)
(* kept in a database at once, or held; a held one ends up kept, or is     *)
(* given up for a stated reason (and may still turn out to be kept, when a *)
(* delivery was already on its way).  Kept is for good, and an accepted    *)
(* batch is never without a standing.                                      *)
(***************************************************************************)
CONSTANT Batches
VARIABLE status

Standing == {"pending", "refused", "held", "kept", "dropped"}

Allowed ==
    {<<"pending", s>> : s \in {"refused", "held", "kept"}}
        \cup {<<"held", "kept">>, <<"held", "dropped">>, <<"dropped", "kept">>}

Init == status = [b \in Batches |-> "pending"]

Next ==
    /\ status' \in [Batches -> Standing]
    /\ \A b \in Batches : status'[b] = status[b] \/ <<status[b], status'[b]>> \in Allowed

Spec == Init /\ [][Next]_status
=============================================================================
