--------------------------- MODULE MCRunLifecycle ---------------------------
(* Two steps in a chain, two clients of the DELETE endpoint.                 *)
EXTENDS RunLifecycle

MCDeps == [s \in Steps |-> IF s = "load" THEN {"fetch"} ELSE {}]
MCDepth == [s \in Steps |-> IF s = "load" THEN 1 ELSE 0]
=============================================================================
