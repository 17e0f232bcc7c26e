-------------------------------- MODULE MCDag --------------------------------
(* Every three-step DAG whose steps list up to two dependencies, in any order
   and possibly the same one twice or themselves; every four-step DAG with
   sets of dependencies; small malformed ones.                               *)
EXTENDS Dag

MCStep(n, deps) == [name |-> n, depends_on |-> deps]

MCLists(S) == {<<>>} \cup {<<a>> : a \in S} \cup {<<a, b>> : a, b \in S}

MCThree ==
  {<<MCStep("a", x), MCStep("b", y), MCStep("c", z)>> :
     x, y, z \in MCLists({"a", "b", "c"})}

MCSorted(S) == SelectSeq(<<"d", "c", "b", "a">>, LAMBDA n : n \in S)

MCFour ==
  {<<MCStep("a", MCSorted(w)), MCStep("b", MCSorted(x)),
     MCStep("c", MCSorted(y)), MCStep("d", MCSorted(z))>> :
     w \in SUBSET {"b", "c", "d"}, x \in SUBSET {"a", "c", "d"},
     y \in SUBSET {"a", "b", "d"}, z \in SUBSET {"a", "b", "c"}}

MCMalformed ==
  {<<>>} \cup
  {<<MCStep(m, x), MCStep(n, y)>> :
     m, n \in {"a", "b"}, x, y \in MCLists({"a", "ghost"})}

MCDags == MCThree \cup MCFour \cup MCMalformed
=============================================================================
