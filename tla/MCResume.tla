------------------------------- MODULE MCResume -------------------------------
(* A chain of two steps and a step beside them.                              *)
EXTENDS Resume

MCDeps == [s \in Steps |-> IF s = "load" THEN {"fetch"} ELSE {}]
MCDepth == [s \in Steps |-> IF s = "load" THEN 1 ELSE 0]
=============================================================================
