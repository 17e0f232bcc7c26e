----------------------------- MODULE Subsequences -----------------------------
(***************************************************************************)
(* A list comprehension with a condition, [x for x in s if x in S].  It is *)
(* SequencesExt's SelectSeq for a set instead of a test, written without a *)
(* recursion so that SequenceFacts can say what it returns.                *)
(***************************************************************************)
EXTENDS Naturals, Sequences, FiniteSets, Functions

(* The positions of s that hold an element of S.                             *)
Kept(s, S) == {i \in DOMAIN s : s[i] \in S}

(* The kth smallest of a set of numbers.                                     *)
Nth(P, k) == CHOOSE i \in P : Cardinality({j \in P : j <= i}) = k

(* The elements of s that are in S, in their order.                          *)
Keep(s, S) == [k \in 1 .. Cardinality(Kept(s, S)) |-> s[Nth(Kept(s, S), k)]]
=============================================================================
