----------------------------- MODULE MCTenantPool -----------------------------
\* Instances of TenantPool for TLC.  Requests, connections and configurations
\* are interchangeable, and no liveness is checked, so symmetry is sound.
EXTENDS TenantPool, TLC

Symmetric == Permutations(Threads) \cup Permutations(StoreIds) \cup Permutations(Configs)

\* An entry object is told apart by who refers to it, not by its name, and what
\* is left in one nobody refers to is never read again; nor is what is left in
\* a closed connection.
Role(e) == <<e = cur, {t \in Threads : mine[t] = e}, {t \in Threads : seen[t] = e}>>

Live ==
    <<row, saves, switched, settled, saving, pc, read, got, since,
      [s \in StoreIds |-> IF FreeConn(s) THEN <<>> ELSE <<conn[s], running[s]>>],
      {<<Role(e), ent[e]>> : e \in {x \in EntryIds : ~FreeEntry(x)}}>>
=============================================================================
