-------------------------- MODULE MCWorkerManager --------------------------
EXTENDS WorkerManager, TLC

Symmetry == Permutations(Entries) \cup Permutations(Runs) \cup Permutations(Callers) \cup Permutations(Configs)

Canonical ==
    <<reg, [e \in Entries |-> IF e \in UnusedEntries THEN Blank(None) ELSE ent[e]],
      [r \in Runs |-> IF r \in UnusedRuns THEN "none" ELSE proc[r]],
      [r \in Runs |-> IF r \in UnusedRuns THEN "run" ELSE ctl[r]],
      recv, call, stage, todo, restart, flow, closing>>
=============================================================================
