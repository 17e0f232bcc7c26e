----------------------------- MODULE MCExecutor -----------------------------
(* A diamond's upper half: two independent steps and one that needs both.    *)
EXTENDS ExecutorInvariant

MCDeps == [s \in Steps |-> IF s = "merge" THEN {"left", "right"} ELSE {}]
MCDepth == [s \in Steps |-> IF s = "merge" THEN 1 ELSE 0]
=============================================================================
