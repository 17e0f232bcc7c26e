---------------------------- MODULE AtomicBreaker ----------------------------
(***************************************************************************)
(* What a circuit breaker shared by many callers promises: every success   *)
(* and every failure is applied at one instant to the latest state.  A     *)
(* state nobody has touched for long may be forgotten, but not while its   *)
(* circuit is open.                                                        *)
(***************************************************************************)
EXTENDS Naturals

CONSTANTS
  Names,      \* what has a circuit
  Threshold,  \* consecutive failures that open it
  Recovery    \* ticks it stays open

VARIABLES
  failures,   \* consecutive failures of each name, up to Threshold
  openFor     \* ticks until its circuit closes, 0 when closed

vars == <<failures, openFor>>

Init ==
  /\ failures = [n \in Names |-> 0]
  /\ openFor = [n \in Names |-> 0]

Succeed(n) ==
  /\ failures' = [failures EXCEPT ![n] = 0]
  /\ UNCHANGED openFor

Fail(n) ==
  \/ /\ failures[n] + 1 < Threshold
     /\ failures' = [failures EXCEPT ![n] = @ + 1]
     /\ UNCHANGED openFor
  \/ /\ failures[n] + 1 >= Threshold
     /\ failures' = [failures EXCEPT ![n] = Threshold]
     /\ openFor' = [openFor EXCEPT ![n] = Recovery]

(* Time passes; any of the closed circuits may be forgotten.                 *)
Tick ==
  /\ openFor' = [n \in Names |-> IF openFor[n] = 0 THEN 0 ELSE openFor[n] - 1]
  /\ \E F \in SUBSET {n \in Names : openFor'[n] = 0} :
       failures' = [n \in Names |-> IF n \in F THEN 0 ELSE failures[n]]

Next == Tick \/ \E n \in Names : Succeed(n) \/ Fail(n)

Spec == Init /\ [][Next]_vars
=============================================================================
