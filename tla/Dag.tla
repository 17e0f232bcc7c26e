--------------------------------- MODULE Dag ---------------------------------
(***************************************************************************)
(* validate_dag and get_parallel_groups of backend/app/engine/dag.py, run  *)
(* on one DAGDefinition: a sequence of steps with a name and a list        *)
(* depends_on, anything the pydantic model lets through (empty lists,      *)
(* repeated names, repeated, unknown and self dependencies).               *)
(*                                                                         *)
(* The checks, Kahn's algorithm one popped node at a time, the depths one  *)
(* step of the order at a time, and the groups.  The executor relies on    *)
(* the result: DepsAssumption of Executor is GroupsRespectDependencies.    *)
(***************************************************************************)
EXTENDS Subsequences, FiniteSetsExt

CONSTANTS
  StepNames,  \* what a step or a dependency may be called
  Dags        \* the DAG definitions considered

ASSUME DagsAssumption ==
  Dags \subseteq Seq([name : StepNames, depends_on : Seq(StepNames)])

VARIABLES
  dag,       \* the argument
  dagPc,     \* "check", "sort", "depth", "done" or "refused"
  error,     \* the DAGValidationError raised
  in_degree, \* per step, the dependencies not yet in order
  queue,
  order,
  depth,     \* per step of order handled so far
  groups

dagVars == <<dag, dagPc, error, in_degree, queue, order, depth, groups>>

Names == {dag[i].name : i \in DOMAIN dag}

(* steps_by_name: the last step of a name wins, but names are unique when it
   is used for more than membership.                                         *)
depends_on(n) == dag[CHOOSE i \in DOMAIN dag : dag[i].name = n].depends_on

DependsOn(n) == Range(depends_on(n))

(* How often node is listed in depends_on, and so n in adjacency[node].      *)
Edges(n, node) == Cardinality({i \in DOMAIN depends_on(n) : depends_on(n)[i] = node})

names == [i \in DOMAIN dag |-> dag[i].name]

DagInit ==
  /\ dag \in Dags
  /\ dagPc = "check"
  /\ error = "none"
  /\ in_degree = <<>>
  /\ queue = <<>>
  /\ order = <<>>
  /\ depth = <<>>
  /\ groups = <<>>

Refuse(e) == dagPc' = "refused" /\ error' = e

DuplicateNames == Cardinality(Names) # Len(dag)

UnknownDependency ==
  \E i \in DOMAIN dag : ~(Range(dag[i].depends_on) \subseteq Names)

-----------------------------------------------------------------------------

RefuseInput ==
  /\ dagPc = "check"
  /\ \/ dag = <<>> /\ Refuse("empty")
     \/ dag # <<>> /\ DuplicateNames /\ Refuse("duplicate")
     \/ dag # <<>> /\ ~DuplicateNames /\ UnknownDependency /\ Refuse("unknown")
  /\ UNCHANGED <<dag, in_degree, queue, order, depth, groups>>

(* in_degree and adjacency are filled, and the queue with the roots, in the
   order of dag.steps.                                                       *)
CountEdges ==
  /\ dagPc = "check"
  /\ dag # <<>> /\ ~DuplicateNames /\ ~UnknownDependency
  /\ in_degree' = [n \in Names |-> Len(depends_on(n))]
  /\ queue' = Keep(names, {n \in Names : in_degree'[n] = 0})
  /\ dagPc' = "sort"
  /\ UNCHANGED <<dag, error, order, depth, groups>>

(* Mutant: every neighbour is queued at its first edge.                      *)
PopNodeEager ==
  /\ dagPc = "sort"
  /\ queue # <<>>
  /\ LET node == Head(queue) IN
       /\ order' = Append(order, node)
       /\ in_degree' = [n \in Names |-> in_degree[n] - Edges(n, node)]
       /\ queue' = Tail(queue) \o
                     Keep(names, {n \in Names : Edges(n, node) > 0 /\
                       n \notin Range(order) \cup Range(queue)})
  /\ UNCHANGED <<dag, dagPc, error, depth, groups>>

(* One iteration of the loop: the neighbours of the popped node lose their
   edges to it, in the order of dag.steps, and join the queue at zero.       *)
PopNode ==
  /\ dagPc = "sort"
  /\ queue # <<>>
  /\ LET node == Head(queue) IN
       /\ order' = Append(order, node)
       /\ in_degree' = [n \in Names |-> in_degree[n] - Edges(n, node)]
       /\ queue' = Tail(queue) \o
                     Keep(names, {n \in Names : Edges(n, node) > 0 /\ in_degree'[n] = 0})
  /\ UNCHANGED <<dag, dagPc, error, depth, groups>>

(* Mutant: the length of the order is not compared.                          *)
AcceptPartialOrder ==
  /\ dagPc = "sort"
  /\ queue = <<>>
  /\ dagPc' = "depth"
  /\ UNCHANGED <<dag, error, in_degree, queue, order, depth, groups>>

SortEnds ==
  /\ dagPc = "sort"
  /\ queue = <<>>
  /\ \/ Len(order) = Len(dag) /\ dagPc' = "depth" /\ UNCHANGED error
     \/ Len(order) # Len(dag) /\ Refuse("cycle")
  /\ UNCHANGED <<dag, in_degree, queue, order, depth, groups>>

(* Mutant: one level below the first dependency listed, not the deepest.     *)
DepthBelowFirst(n) == IF depends_on(n) = <<>> THEN 0 ELSE depth[Head(depends_on(n))] + 1

(* Mutant: a step gets its position in the order, a group of its own.        *)
DepthIsPosition(n) == Cardinality(DOMAIN depth)

(* Looking up a dependency that has no depth yet would be a KeyError.        *)
DepthOf(n) ==
  IF depends_on(n) = <<>> THEN 0 ELSE Max({depth[d] : d \in DependsOn(n)}) + 1

(* The next step of the order gets its depth.                                *)
AssignDepth ==
  /\ dagPc = "depth"
  /\ DOMAIN depth # Names
  /\ LET node == order[Cardinality(DOMAIN depth) + 1] IN
       /\ DependsOn(node) \subseteq DOMAIN depth
       /\ depth' = [n \in DOMAIN depth \cup {node} |->
                      IF n = node THEN DepthOf(node) ELSE depth[n]]
  /\ UNCHANGED <<dag, dagPc, error, in_degree, queue, order, groups>>

MakeGroups ==
  /\ dagPc = "depth"
  /\ DOMAIN depth = Names
  /\ LET level(d) == Keep(order, {n \in Names : depth[n] = d - 1}) IN
       groups' = Keep([d \in 1 .. Max(Range(depth)) + 1 |-> level(d)], Seq(Names) \ {<<>>})
  /\ dagPc' = "done"
  /\ UNCHANGED <<dag, error, in_degree, queue, order, depth>>

DagFinished == dagPc \in {"done", "refused"} /\ UNCHANGED dagVars

DagNext ==
  \/ RefuseInput \/ CountEdges \/ PopNode \/ SortEnds
  \/ AssignDepth \/ MakeGroups \/ DagFinished

DagSpec == DagInit /\ [][DagNext]_dagVars

-----------------------------------------------------------------------------

DagPc == {"check", "sort", "depth", "done", "refused"}

(* The variables hold names of steps and counts; the queue and the order never
   hold a step twice.                                                        *)
DagTypeOK ==
  /\ dag \in Seq([name : StepNames, depends_on : Seq(StepNames)])
  /\ dagPc \in DagPc
  /\ error \in {"none", "empty", "duplicate", "unknown", "cycle"}
  /\ dagPc \in {"sort", "depth", "done"} =>
       /\ in_degree \in [Names -> Nat]
       /\ queue \o order \in Seq(Names)
       /\ IsInjective(queue \o order)
  /\ depth \in [DOMAIN depth -> Nat]
  /\ DOMAIN depth \subseteq Range(order)

(* What a cycle is, without an algorithm: steps none of which can go first.  *)
Cyclic ==
  \E S \in (SUBSET Names) \ {{}} : \A n \in S : DependsOn(n) \cap S # {}

(* validate_dag refuses a well-formed DAG exactly when it has a cycle, self
   dependencies included; in particular a dependency listed twice does not
   make a DAG look cyclic.                                                   *)
RefusedExactlyWhenCyclic ==
  /\ error = "cycle" => Cyclic
  /\ dagPc \in {"depth", "done"} => ~Cyclic

(* A step enters the order after all its dependencies.                       *)
OrderIsTopological ==
  \A i \in DOMAIN order : \A d \in DependsOn(order[i]) :
    \E j \in 1 .. i - 1 : order[j] = d

(* depths[dep] in the loop of get_parallel_groups finds every dependency of the
   step at hand, so that AssignDepth is not stuck.                           *)
DependenciesHaveDepths ==
  dagPc = "depth" /\ DOMAIN depth # Names =>
    DependsOn(order[Cardinality(DOMAIN depth) + 1]) \subseteq DOMAIN depth

GroupOf(n) == CHOOSE g \in DOMAIN groups : n \in Range(groups[g])

(* The groups hold every step once, and each step in a later group than the
   steps it depends on: what the executor takes for granted when it starts a
   whole group at a time.                                                    *)
GroupsRespectDependencies ==
  dagPc = "done" =>
    /\ UNION {Range(groups[g]) : g \in DOMAIN groups} = Names
    /\ \A g, h \in DOMAIN groups : g # h => Range(groups[g]) \cap Range(groups[h]) = {}
    /\ \A n \in Names : \A d \in DependsOn(n) : GroupOf(d) < GroupOf(n)

(* No step waits longer than it must: unless it is in the first group, it has a
   dependency in the group just before its own.                              *)
GroupsAreEarliest ==
  dagPc = "done" =>
    \A n \in Names : GroupOf(n) > 1 =>
      \E d \in DependsOn(n) : GroupOf(d) + 1 = GroupOf(n)
=============================================================================
