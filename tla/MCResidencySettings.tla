-------------------------- MODULE MCResidencySettings --------------------------
\* Instances of ResidencySettings for TLC.  Nothing is said of liveness, so
\* that symmetry is sound.
EXTENDS ResidencySettings, TLC

Symmetric == Permutations(Admins) \cup Permutations(Configs) \cup Permutations(Moves)

\* Nothing but the types is said of what follows the save of an outdated row,
\* and the search stops there; so what an outdated row holds is never seen.
\* Of the row the health check has read, it still looks at the file storage
\* and at what was unreachable.
View ==
    IF raced THEN <<"raced">>
    ELSE <<row, [a \in Admins |-> IF a \in stale THEN <<"stale">> ELSE <<apc[a], op[a], mem[a]>>],
           mover, hpc, hkind, herr, streak,
           {k \in Kinds : Active(hrow, k)}, {k \in Kinds : hrow.status[k] = "unreachable"}>>
=============================================================================
