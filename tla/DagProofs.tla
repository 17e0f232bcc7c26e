------------------------------ MODULE DagProofs ------------------------------
(***************************************************************************)
(* Proofs about Dag for every DAG of every size: Kahn's algorithm finds an *)
(* order exactly when there is no cycle, and the parallel groups are what  *)
(* the executor takes them for.                                            *)
(***************************************************************************)
EXTENDS Dag, SequenceFacts

(* A DAG that got past the first three checks.                               *)
WellFormed ==
  /\ names \in Seq(Names) /\ Len(names) = Len(dag) /\ Range(names) = Names
  /\ Len(dag) \in Nat \ {0}
  /\ IsFiniteSet(Names) /\ Cardinality(Names) = Len(dag) /\ IsInjective(names)
  /\ \A n \in Names : depends_on(n) \in Seq(Names)

(* The places in the list of a step's dependencies that are not in the order. *)
Missing(n) == {i \in DOMAIN depends_on(n) : depends_on(n)[i] \notin Range(order)}

(* Kahn's algorithm: in_degree counts what is missing, and the steps that miss
   nothing are in the order or queued for it, once.                          *)
SortInv ==
  /\ WellFormed
  /\ order \in Seq(Names) /\ IsInjective(order)
  /\ queue \in Seq(Names) /\ IsInjective(queue)
  /\ Range(order) \cap Range(queue) = {}
  /\ in_degree \in [Names -> Nat]
  /\ \A n \in Names : in_degree[n] = Cardinality(Missing(n))
  /\ \A n \in Names : in_degree[n] = 0 <=> n \in Range(order) \cup Range(queue)

(* The steps that have a depth are a prefix of the order; a step's depth is
   one more than that of its deepest dependency, and below its position.     *)
HasDepth(k) == {order[i] : i \in 1 .. k}

DepthInv ==
  /\ depth \in [DOMAIN depth -> Nat]
  /\ Cardinality(DOMAIN depth) \in 0 .. Len(order)
  /\ DOMAIN depth = HasDepth(Cardinality(DOMAIN depth))
  /\ \A i \in 1 .. Cardinality(DOMAIN depth) : depth[order[i]] < i
  /\ \A n \in DOMAIN depth :
       /\ \A d \in DependsOn(n) : d \in DOMAIN depth /\ depth[d] < depth[n]
       /\ depth[n] > 0 => \E d \in DependsOn(n) : depth[d] + 1 = depth[n]

(* Group g holds the steps of depth g - 1, and no group is empty.            *)
GroupsInv ==
  /\ DOMAIN depth = Names
  /\ \A n \in Names : depth[n] + 1 \in DOMAIN groups
  /\ \A g \in DOMAIN groups : Range(groups[g]) = {n \in Names : depth[n] + 1 = g}

DagInv ==
  /\ dag \in Dags
  /\ dagPc \in DagPc
  /\ error \in {"none", "empty", "duplicate", "unknown", "cycle"}
  /\ dagPc \in {"check", "sort", "depth", "done"} <=> error = "none"
  /\ dagPc \in {"check", "sort"} \/ error # "none" => depth = <<>>
  /\ dagPc = "check" => order = <<>>
  /\ dagPc \in {"sort", "depth", "done"} \/ error = "cycle" => SortInv
  /\ dagPc \in {"check", "refused"} /\ error # "cycle" => order = <<>>
  /\ error = "cycle" => queue = <<>> /\ Len(order) # Len(dag)
  /\ dagPc \in {"depth", "done"} => Range(order) = Names /\ DepthInv
  /\ dagPc = "done" => GroupsInv
  /\ OrderIsTopological

-----------------------------------------------------------------------------

(* What the first three checks establish.                                    *)
LEMMA ChecksSuffice ==
  ASSUME dag \in Dags, dag # <<>>, ~DuplicateNames, ~UnknownDependency
  PROVE  WellFormed
<1>1. dag \in Seq([name : StepNames, depends_on : Seq(StepNames)])
  BY DagsAssumption
<1>2. Len(dag) \in Nat \ {0} /\ DOMAIN dag = 1 .. Len(dag)
  BY <1>1
<1>3. names \in Seq(Names) /\ Len(names) = Len(dag) /\ Range(names) = Names
  BY <1>2 DEF names, Names, Range
<1>4. IsFiniteSet(Names) /\ Cardinality(Names) = Len(dag) /\ IsInjective(names)
  BY <1>3, InjectiveLength DEF DuplicateNames
<1>5. ASSUME NEW n \in Names PROVE depends_on(n) \in Seq(Names)
  <2>1. PICK i \in DOMAIN dag : depends_on(n) = dag[i].depends_on
    BY DEF depends_on, Names
  <2>2. dag[i] \in [name : StepNames, depends_on : Seq(StepNames)]
    BY <1>1, <1>2, <2>1, ElementOfSeq
  <2>3. depends_on(n) \in Seq(StepNames)
    BY <2>1, <2>2
  <2>4. Range(depends_on(n)) \subseteq Names
    BY <2>1 DEF UnknownDependency
  <2> QED BY <2>3, <2>4 DEF Range
<1> QED
  BY <1>2, <1>3, <1>4, <1>5 DEF WellFormed

(* What is said of the argument alone stays true.                            *)
LEMMA DagIsFixed ==
  ASSUME dag' = dag
  PROVE  /\ Names' = Names /\ names' = names
         /\ \A n : depends_on(n)' = depends_on(n)
         /\ \A n : DependsOn(n)' = DependsOn(n)
         /\ WellFormed' = WellFormed
<1>1. Names' = Names
  BY DEF Names
<1>2. names' = names
  BY DEF names
<1>3. \A n : depends_on(n)' = depends_on(n)
  BY DEF depends_on
<1>4. \A n : DependsOn(n)' = DependsOn(n)
  BY DEF DependsOn, depends_on
<1> QED
  BY <1>1, <1>2, <1>3, <1>4 DEF WellFormed, IsInjective

(* The roots are queued in the order of the DAG.                             *)
LEMMA CountEdgesSorts ==
  ASSUME DagInv, CountEdges
  PROVE  SortInv'
<1>1. WellFormed
  BY ChecksSuffice DEF CountEdges, DagInv
<1>2. WellFormed' /\ Names' = Names /\ \A n : depends_on(n)' = depends_on(n)
  BY <1>1, DagIsFixed DEF CountEdges
<1>3. order = <<>> /\ order' = order /\ Range(order) = {}
  BY DEF CountEdges, DagInv, Range
<1>4. in_degree' = [n \in Names |-> Len(depends_on(n))]
  BY DEF CountEdges
<1>5. in_degree' \in [Names -> Nat]
  BY <1>1, <1>4 DEF WellFormed
<1> DEFINE roots == {n \in Names : in_degree'[n] = 0}
<1>6. queue' = Keep(names, roots)
  BY DEF CountEdges
<1>7. queue' \in Seq(Names) /\ Range(queue') = Names \cap roots /\ IsInjective(queue')
  <2> HIDE DEF roots
  <2> QED BY <1>1, <1>6, KeepFacts DEF WellFormed
<1>8. ASSUME NEW n \in Names PROVE in_degree'[n] = Cardinality(Missing(n)')
  <2>1. Missing(n)' = 1 .. Len(depends_on(n)) /\ Len(depends_on(n)) \in Nat
    BY <1>1, <1>2, <1>3 DEF Missing, WellFormed
  <2>2. Cardinality(1 .. Len(depends_on(n))) = Len(depends_on(n))
    BY <2>1, CountUpTo
  <2> QED BY <1>4, <2>1, <2>2
<1> QED
  BY <1>2, <1>3, <1>5, <1>7, <1>8 DEF SortInv, IsInjective

(* The order grows by a step that is not in it.                              *)
LEMMA AppendFacts ==
  ASSUME NEW T, NEW s \in Seq(T), IsInjective(s), NEW x \in T, x \notin Range(s)
  PROVE  /\ Append(s, x) \in Seq(T) /\ IsInjective(Append(s, x))
         /\ Range(Append(s, x)) = Range(s) \cup {x}
<1>1. /\ Append(s, x) \in Seq(T) /\ DOMAIN Append(s, x) = 1 .. Len(s) + 1 /\ Len(s) \in Nat
      /\ \A i \in 1 .. Len(s) : Append(s, x)[i] = s[i]
      /\ Append(s, x)[Len(s) + 1] = x /\ DOMAIN s = 1 .. Len(s)
  BY AppendProperties
<1>2. \A i \in 1 .. Len(s) + 1 : i = Len(s) + 1 \/ i \in 1 .. Len(s)
  BY <1>1
<1>3. \A i \in 1 .. Len(s) : s[i] # x
  BY <1>1 DEF Range
<1> DEFINE a == Append(s, x)
<1> HIDE DEF a
<1>4. Range(a) = Range(s) \cup {x}
  <2>1. Len(s) + 1 \in 1 .. Len(s) + 1 /\ \A i \in 1 .. Len(s) : i \in 1 .. Len(s) + 1
    BY <1>1
  <2>2. Range(a) \subseteq Range(s) \cup {x}
    BY <1>1, <1>2 DEF Range, a
  <2>3. Range(s) \subseteq Range(a) /\ x \in Range(a)
    BY <1>1, <2>1 DEF Range, a
  <2> QED BY <2>2, <2>3
<1>5. IsInjective(a)
  BY <1>1, <1>2, <1>3 DEF IsInjective, a
<1> QED
  BY <1>1, <1>4, <1>5 DEF a

(* The order stays one when a step joins it whose dependencies are there.    *)
LEMMA AppendKeepsOrder ==
  ASSUME order \in Seq(Names), OrderIsTopological, NEW node \in Names,
         order' = Append(order, node), \A d \in DependsOn(node) : d \in Range(order), dag' = dag
  PROVE  OrderIsTopological'
<1>1. /\ DOMAIN order' = 1 .. Len(order) + 1 /\ Len(order) \in Nat
      /\ \A i \in 1 .. Len(order) : order'[i] = order[i]
      /\ order'[Len(order) + 1] = node /\ DOMAIN order = 1 .. Len(order)
  BY AppendProperties
<1>2. ASSUME NEW i \in 1 .. Len(order) + 1, NEW d \in DependsOn(order'[i])
      PROVE  \E j \in 1 .. i - 1 : order'[j] = d
  <2>1. CASE i \in 1 .. Len(order)
    <3>1. PICK j \in 1 .. i - 1 : order[j] = d
      BY <1>1, <1>2, <2>1 DEF OrderIsTopological
    <3>2. j \in 1 .. Len(order)
      BY <1>1, <2>1
    <3> QED BY <1>1, <3>1, <3>2
  <2>2. CASE i = Len(order) + 1
    <3>1. PICK j \in 1 .. Len(order) : order[j] = d
      BY <1>1, <1>2, <2>2 DEF Range
    <3> QED BY <1>1, <2>2, <3>1
  <2> QED BY <1>1, <2>1, <2>2
<1> QED
  <2>1. \A i \in DOMAIN order' : DependsOn(order[i])' = DependsOn(order'[i])
    BY DEF DependsOn, depends_on
  <2>2. \A i \in DOMAIN order' : \A d \in DependsOn(order[i])' : \E j \in 1 .. i - 1 : order'[j] = d
    BY <1>1, <1>2, <2>1
  <2> QED BY <2>2 DEF OrderIsTopological

(* A step that is popped takes its edges away: what another step misses shrinks
   by the times it listed the popped one.                                    *)
LEMMA EdgesAreTaken ==
  ASSUME SortInv, NEW n \in Names, NEW node \in Names, node \notin Range(order),
         Range(order') = Range(order) \cup {node}, dag' = dag
  PROVE  /\ Cardinality(Missing(n)') = Cardinality(Missing(n)) - Edges(n, node)
         /\ Cardinality(Missing(n)') \in Nat /\ Cardinality(Missing(n)) \in Nat
         /\ Edges(n, node) \in Nat
<1> DEFINE list == depends_on(n)
           M == Missing(n)
           L == {i \in DOMAIN list : list[i] \notin Range(order) \cup {node}}
           E == {i \in DOMAIN list : list[i] = node}
<1>1. list \in Seq(Names)
  BY DEF SortInv, WellFormed
<1>2. DOMAIN list = 1 .. Len(list) /\ Len(list) \in Nat
  BY <1>1
<1>3. IsFiniteSet(DOMAIN list)
  BY <1>2, CountUpTo
<1>4. IsFiniteSet(L) /\ IsFiniteSet(E)
  BY <1>3, FS_Subset
<1>5. Cardinality(L) \in Nat /\ Cardinality(E) \in Nat
  BY <1>4, FS_CardinalityType
<1>6. M = L \cup E /\ L \cap E = {}
  BY DEF Missing
<1>7. Cardinality(M) = Cardinality(L) + Cardinality(E)
  <2>1. Cardinality(L \cup E) = Cardinality(L) + Cardinality(E) - Cardinality(L \cap E)
    BY <1>4, FS_Union
  <2>2. Cardinality(L \cap E) = 0
    BY <1>6, FS_EmptySet
  <2> HIDE DEF L, E, M
  <2> QED BY <1>5, <1>6, <2>1, <2>2
<1>8. Missing(n)' = L
  BY DagIsFixed DEF Missing
<1>9. Edges(n, node) = Cardinality(E)
  BY DEF Edges
<1> HIDE DEF L, E, M
<1>10. Cardinality(Missing(n)') = Cardinality(L) /\ Cardinality(Missing(n)) = Cardinality(M)
  BY <1>8 DEF M
<1> QED
  BY <1>5, <1>7, <1>9, <1>10

(* One iteration of the loop keeps the counts, the queue and the order.      *)
LEMMA PopNodeSorts ==
  ASSUME SortInv, OrderIsTopological, PopNode
  PROVE  SortInv' /\ OrderIsTopological'
<1> DEFINE node == Head(queue)
           freed == {n \in Names : Edges(n, node) > 0 /\ in_degree'[n] = 0}
<1>1. /\ node \in Names /\ node \notin Range(order) /\ node \notin Range(Tail(queue))
      /\ Range(queue) = {node} \cup Range(Tail(queue))
      /\ Tail(queue) \in Seq(Names) /\ IsInjective(Tail(queue))
  <2>1. queue # <<>> /\ queue \in Seq(Names) /\ IsInjective(queue)
    BY DEF SortInv, PopNode
  <2>2. node = queue[1] /\ 1 \in DOMAIN queue /\ node \in Names /\ Len(queue) \in Nat
    BY <2>1
  <2>3. /\ Tail(queue) \in Seq(Names) /\ DOMAIN Tail(queue) = 1 .. Len(queue) - 1
        /\ \A i \in 1 .. Len(queue) - 1 : Tail(queue)[i] = queue[i + 1] /\ i + 1 \in DOMAIN queue
    BY <2>1, HeadTailProperties
  <2>4. IsInjective(Tail(queue))
    <3>1. \A i, j \in 1 .. Len(queue) - 1 : queue[i + 1] = queue[j + 1] => i + 1 = j + 1
      BY <2>1, <2>3 DEF IsInjective
    <3> QED BY <2>2, <2>3, <3>1 DEF IsInjective
  <2>5. node \notin Range(Tail(queue))
    <3>1. \A i \in 1 .. Len(queue) - 1 : queue[i + 1] # queue[1]
      BY <2>1, <2>2, <2>3 DEF IsInjective
    <3> QED BY <2>2, <2>3, <3>1 DEF Range
  <2>6. Range(queue) = {node} \cup Range(Tail(queue))
    <3>1. \A i \in DOMAIN queue : i = 1 \/ (i - 1 \in 1 .. Len(queue) - 1 /\ i - 1 + 1 = i)
      BY <2>1
    <3>2. Range(queue) \subseteq {node} \cup Range(Tail(queue))
      BY <2>2, <2>3, <3>1 DEF Range
    <3>3. {node} \cup Range(Tail(queue)) \subseteq Range(queue)
      BY <2>2, <2>3 DEF Range
    <3> QED BY <3>2, <3>3
  <2>7. node \in Range(queue)
    BY <2>6
  <2>8. node \notin Range(order)
    BY <2>7 DEF SortInv
  <2> QED BY <2>2, <2>3, <2>4, <2>5, <2>6, <2>8
<1>2. /\ dag' = dag /\ order' = Append(order, node)
      /\ in_degree' = [n \in Names |-> in_degree[n] - Edges(n, node)]
      /\ queue' = Tail(queue) \o Keep(names, freed)
  BY DEF PopNode
<1>3. WellFormed /\ WellFormed' /\ Names' = Names
  BY <1>2, DagIsFixed DEF SortInv
<1> HIDE DEF node
<1>4. order' \in Seq(Names) /\ IsInjective(order') /\ Range(order') = Range(order) \cup {node}
  BY <1>1, <1>2, AppendFacts DEF SortInv
<1>5. \A n \in Names : /\ in_degree'[n] = Cardinality(Missing(n)') /\ in_degree'[n] \in Nat
                       /\ in_degree'[n] = in_degree[n] - Edges(n, node) /\ Edges(n, node) \in Nat
  BY <1>1, <1>2, <1>4, EdgesAreTaken DEF SortInv
<1>6. freed \in SUBSET Names /\ freed \cap (Range(order) \cup Range(queue)) = {}
  BY <1>5 DEF SortInv
<1>7. \A n \in Names : in_degree'[n] = 0 <=> n \in Range(order) \cup Range(queue) \cup freed
  BY <1>5 DEF SortInv
<1>8. /\ Keep(names, freed) \in Seq(Names) /\ Range(Keep(names, freed)) = freed
      /\ IsInjective(Keep(names, freed))
  <2> HIDE DEF freed
  <2>1. names \in Seq(Names) /\ Range(names) = Names /\ IsInjective(names)
    BY <1>3 DEF WellFormed
  <2>2. /\ Keep(names, freed) \in Seq(Names) /\ Range(Keep(names, freed)) = Range(names) \cap freed
        /\ IsInjective(names) => IsInjective(Keep(names, freed))
    BY <2>1, KeepFacts
  <2> QED BY <1>6, <2>1, <2>2
<1> HIDE DEF freed
<1>9. queue' \in Seq(Names) /\ IsInjective(queue') /\ Range(queue') = Range(Tail(queue)) \cup freed
  <2>1. Range(Tail(queue)) \cap Range(Keep(names, freed)) = {}
    BY <1>1, <1>6, <1>8
  <2> DEFINE rest == Tail(queue)
             new == Keep(names, freed)
  <2>2. /\ rest \in Seq(Names) /\ new \in Seq(Names) /\ IsInjective(rest) /\ IsInjective(new)
        /\ Range(rest) \cap Range(new) = {} /\ queue' = rest \o new /\ Range(new) = freed
    BY <1>1, <1>2, <1>8, <2>1
  <2> HIDE DEF rest, new
  <2>3. /\ rest \o new \in Seq(Names) /\ Range(rest \o new) = Range(rest) \cup Range(new)
        /\ IsInjective(rest \o new)
    BY <2>2, InjectiveConcat
  <2> QED BY <2>2, <2>3 DEF rest
<1>10. SortInv'
  <2>1. in_degree' \in [Names -> Nat]
    BY <1>2, <1>5
  <2>2. Range(order') \cap Range(queue') = {}
    BY <1>1, <1>4, <1>6, <1>9 DEF SortInv
  <2>3. \A n \in Names : in_degree'[n] = 0 <=> n \in Range(order') \cup Range(queue')
    BY <1>1, <1>4, <1>7, <1>9
  <2> QED BY <1>3, <1>4, <1>5, <1>9, <2>1, <2>2, <2>3 DEF SortInv
<1>11. OrderIsTopological'
  <2>1. \A d \in DependsOn(node) : d \in Range(order)
    <3>1. in_degree[node] = 0
      BY <1>1 DEF SortInv
    <3>2. Missing(node) = {}
      <4>1. DOMAIN depends_on(node) = 1 .. Len(depends_on(node)) /\ Len(depends_on(node)) \in Nat
        BY <1>1, <1>3 DEF WellFormed
      <4>2. IsFiniteSet(Missing(node))
        BY <4>1, CountUpTo, FS_Subset DEF Missing
      <4> QED BY <1>1, <3>1, <4>2, FS_EmptySet DEF SortInv
    <3> QED BY <3>2 DEF Missing, DependsOn, Range
  <2> QED BY <1>2, <1>4, <2>1, AppendKeepsOrder, DagIsFixed DEF SortInv
<1> QED
  BY <1>10, <1>11

(* Kahn's algorithm has come to its end: the order is complete, or the steps
   outside it hold each other up.                                            *)
LEMMA SortIsDecided ==
  ASSUME SortInv, queue = <<>>
  PROVE  /\ Len(order) = Len(dag) => Range(order) = Names
         /\ Len(order) # Len(dag) => Cyclic
<1>1. /\ order \in Seq(Names) /\ IsInjective(order) /\ Range(order) \in SUBSET Names
      /\ IsFiniteSet(Names) /\ Cardinality(Names) = Len(dag)
  BY DEF SortInv, WellFormed, Range
<1>2. Cardinality(Range(order)) = Len(order)
  BY <1>1, InjectiveLength
<1>3. Len(order) = Len(dag) => Range(order) = Names
  BY <1>1, <1>2, FS_Subset
<1>4. ASSUME Len(order) # Len(dag) PROVE Cyclic
  <2> DEFINE S == Names \ Range(order)
  <2>1. S \in (SUBSET Names) \ {{}}
    <3>1. Range(order) # Names
      BY <1>1, <1>2, <1>4
    <3> QED BY <1>1, <3>1
  <2>2. ASSUME NEW n \in S PROVE DependsOn(n) \cap S # {}
    <3>1. in_degree[n] # 0 /\ in_degree[n] = Cardinality(Missing(n))
      BY <2>2 DEF SortInv, Range
    <3>2. Missing(n) # {}
      BY <3>1, FS_EmptySet
    <3>3. depends_on(n) \in Seq(Names)
      BY <2>2 DEF SortInv, WellFormed
    <3> QED BY <3>2, <3>3 DEF Missing, DependsOn, Range
  <2> QED BY <2>1, <2>2 DEF Cyclic
<1> QED
  BY <1>3, <1>4

(* A complete order excludes a cycle: of the steps of one, the first in the order
   would come after another of them.                                         *)
LEMMA CompleteOrderIsAcyclic ==
  ASSUME SortInv, OrderIsTopological, Range(order) = Names
  PROVE  ~Cyclic
<1> SUFFICES ASSUME NEW S \in (SUBSET Names) \ {{}}, \A n \in S : DependsOn(n) \cap S # {}
             PROVE  FALSE
  BY DEF Cyclic
<1> DEFINE I == {i \in DOMAIN order : order[i] \in S}
<1>1. DOMAIN order = 1 .. Len(order) /\ Len(order) \in Nat
  BY DEF SortInv
<1>2. I \subseteq Nat /\ I # {}
  BY <1>1 DEF Range
<1>3. PICK i \in I : \A j \in I : i <= j
  <2> HIDE DEF I
  <2> QED BY <1>2, Least
<1>4. PICK d \in DependsOn(order[i]) : d \in S
  BY <1>3
<1>5. PICK j \in 1 .. i - 1 : order[j] = d
  BY <1>3, <1>4 DEF OrderIsTopological
<1>6. j \in I /\ ~ (i <= j)
  BY <1>1, <1>3, <1>4, <1>5
<1> QED
  BY <1>3, <1>6

-----------------------------------------------------------------------------

(* Max is what its name says, where there is a greatest number.              *)
LEMMA MaxFacts ==
  ASSUME NEW T, T \subseteq Nat, T # {}, NEW b \in Nat, \A x \in T : x <= b
  PROVE  Max(T) \in T /\ \A x \in T : x <= Max(T)
<1>1. \E x \in T : \A y \in T : x >= y
  <2>1. PICK x \in T : \A y \in T : y <= x
    BY Greatest
  <2> QED BY <2>1
<1>2. Max(T) \in T /\ \A y \in T : Max(T) >= y
  BY <1>1 DEF Max
<1> QED
  BY <1>2

(* No step has a depth before the first one gets it.                         *)
LEMMA DepthStarts ==
  ASSUME SortInv, depth = <<>>
  PROVE  DepthInv
<1>1. DOMAIN depth = {} /\ depth \in [{} -> Nat]
  OBVIOUS
<1>2. Cardinality(DOMAIN depth) = 0 /\ Len(order) \in Nat
  BY <1>1, FS_EmptySet DEF SortInv
<1> QED
  BY <1>1, <1>2 DEF DepthInv, HasDepth

(* The next step of the order gets a depth below its position.               *)
LEMMA AssignDepthKeeps ==
  ASSUME SortInv, DepthInv, Range(order) = Names, AssignDepth
  PROVE  DepthInv'
<1> DEFINE k == Cardinality(DOMAIN depth)
           node == order[k + 1]
           D == DependsOn(node)
<1>1. /\ order \in Seq(Names) /\ IsInjective(order) /\ DOMAIN order = 1 .. Len(order)
      /\ Len(order) \in Nat /\ k \in 0 .. Len(order) /\ k \in Nat
  BY DEF SortInv, DepthInv
<1>2. DOMAIN depth = HasDepth(k) /\ HasDepth(Len(order)) = Range(order)
  BY <1>1 DEF DepthInv, HasDepth, Range
<1>3. k + 1 \in 1 .. Len(order) /\ node \in Names
  <2>1. k # Len(order)
    BY <1>2 DEF AssignDepth
  <2> QED BY <1>1, <2>1
<1>4. node \notin DOMAIN depth
  <2>1. \A i \in 1 .. k : i \in DOMAIN order /\ i # k + 1
    BY <1>1
  <2> QED BY <1>1, <1>2, <1>3, <2>1 DEF HasDepth, IsInjective
<1>5. /\ order' = order /\ dag' = dag /\ D \subseteq DOMAIN depth
      /\ depth' = [n \in DOMAIN depth \cup {node} |-> IF n = node THEN DepthOf(node) ELSE depth[n]]
  BY DEF AssignDepth
<1>6. \A d \in DOMAIN depth : depth[d] \in Nat /\ depth[d] < k
  <2> SUFFICES ASSUME NEW d \in DOMAIN depth PROVE depth[d] \in Nat /\ depth[d] < k
    OBVIOUS
  <2>1. PICK i \in 1 .. k : d = order[i]
    BY <1>2 DEF HasDepth
  <2>2. depth[d] < i /\ depth[d] \in Nat
    BY <2>1 DEF DepthInv
  <2> QED BY <1>1, <2>1, <2>2
<1>7. /\ DepthOf(node) \in Nat /\ DepthOf(node) < k + 1
      /\ \A d \in D : depth[d] < DepthOf(node)
      /\ DepthOf(node) > 0 => \E d \in D : depth[d] + 1 = DepthOf(node)
  <2>1. CASE depends_on(node) = <<>>
    <3>1. D = {} /\ DepthOf(node) = 0
      BY <2>1 DEF DependsOn, Range, DepthOf
    <3> QED BY <1>1, <3>1
  <2>2. CASE depends_on(node) # <<>>
    <3> DEFINE T == {depth[d] : d \in D}
    <3>1. DepthOf(node) = Max(T) + 1
      BY <2>2 DEF DepthOf
    <3>2. depends_on(node) \in Seq(Names)
      BY <1>3 DEF SortInv, WellFormed
    <3>3. 1 \in DOMAIN depends_on(node)
      BY <2>2, <3>2
    <3>4. T \subseteq Nat /\ T # {} /\ \A x \in T : x <= k
      <4>1. D # {}
        BY <3>3 DEF DependsOn, Range
      <4>2. \A d \in D : depth[d] \in Nat /\ depth[d] <= k
        BY <1>1, <1>5, <1>6
      <4> HIDE DEF D
      <4> QED BY <4>1, <4>2
    <3>5. Max(T) \in T /\ \A x \in T : x <= Max(T)
      <4> HIDE DEF T
      <4> QED BY <1>1, <3>4, MaxFacts
    <3>6. \E d \in D : depth[d] = Max(T)
      BY <3>5
    <3>7. Max(T) \in Nat /\ Max(T) < k
      BY <1>5, <1>6, <3>6
    <3>8. \A d \in D : depth[d] \in Nat /\ depth[d] <= Max(T)
      BY <1>5, <1>6, <3>5
    <3> HIDE DEF T, D
    <3> QED BY <1>1, <3>1, <3>6, <3>7, <3>8
  <2> QED BY <2>1, <2>2
<1>8. /\ DOMAIN depth' = DOMAIN depth \cup {node} /\ depth' \in [DOMAIN depth' -> Nat]
      /\ depth'[node] = DepthOf(node) /\ \A n \in DOMAIN depth : depth'[n] = depth[n]
  BY <1>4, <1>5, <1>6, <1>7
<1>9. Cardinality(DOMAIN depth') = k + 1
  <2>1. DOMAIN depth \in SUBSET Names /\ IsFiniteSet(Names)
    BY <1>1, <1>2 DEF HasDepth, SortInv, WellFormed
  <2>2. IsFiniteSet(DOMAIN depth)
    BY <2>1, FS_Subset
  <2> QED BY <1>4, <1>8, <2>2, FS_AddElement
<1>10. DOMAIN depth' = {order[i] : i \in 1 .. k + 1} /\ \A i \in 1 .. k + 1 : i = k + 1 \/ i \in 1 .. k
  <2>1. \A i \in 1 .. k + 1 : i = k + 1 \/ i \in 1 .. k
    BY <1>1
  <2>2. k + 1 \in 1 .. k + 1 /\ \A i \in 1 .. k : i \in 1 .. k + 1
    BY <1>1
  <2> QED BY <1>2, <1>5, <1>8, <2>1, <2>2 DEF HasDepth
<1>11. \A i \in 1 .. k + 1 : depth'[order[i]] < i
  <2>1. ASSUME NEW i \in 1 .. k PROVE depth'[order[i]] < i
    <3>1. order[i] \in DOMAIN depth
      BY <1>2 DEF HasDepth
    <3> QED BY <1>8, <3>1 DEF DepthInv
  <2> QED BY <1>7, <1>8, <1>10, <2>1
<1>12. ASSUME NEW n \in DOMAIN depth'
       PROVE  /\ \A d \in DependsOn(n) : d \in DOMAIN depth' /\ depth'[d] < depth'[n]
              /\ depth'[n] > 0 => \E d \in DependsOn(n) : depth'[d] + 1 = depth'[n]
  <2>1. CASE n = node
    BY <1>5, <1>7, <1>8, <2>1
  <2>2. CASE n # node
    <3>1. n \in DOMAIN depth
      BY <1>8, <1>12, <2>2
    <3> QED BY <1>8, <3>1 DEF DepthInv
  <2> QED BY <2>1, <2>2
<1>13. k + 1 \in 0 .. Len(order)
  BY <1>1, <1>3
<1>14. \A n : DependsOn(n)' = DependsOn(n)
  BY <1>5, DagIsFixed
<1>15. DOMAIN depth' = HasDepth(Cardinality(DOMAIN depth))'
  BY <1>5, <1>9, <1>10 DEF HasDepth
<1>16. \A i \in 1 .. Cardinality(DOMAIN depth') : depth'[order'[i]] < i
  BY <1>5, <1>9, <1>11
<1>17. Cardinality(DOMAIN depth') \in 0 .. Len(order')
  BY <1>5, <1>9, <1>13
<1> HIDE DEF k, node, D
<1> QED
  BY <1>8, <1>12, <1>14, <1>15, <1>16, <1>17 DEF DepthInv

(* There is a step of every depth up to the greatest: one just below a step that
   is not at the top was made by a dependency of it.                         *)
LEMMA NoDepthIsSkipped ==
  ASSUME DepthInv, DOMAIN depth = Names, NEW m \in Nat, NEW top \in Names, depth[top] = m,
         \A n \in Names : \A d \in DependsOn(n) : d \in Names
  PROVE  \A g \in 0 .. m : \E n \in Names : depth[n] = g
<1> DEFINE T == {g \in 0 .. m : \A n \in Names : depth[n] # g}
<1>1. SUFFICES ASSUME T # {} PROVE FALSE
  OBVIOUS
<1>2. T \subseteq Nat /\ \A g \in T : g <= m
  OBVIOUS
<1>3. PICK g \in T : \A h \in T : h <= g
  <2> HIDE DEF T
  <2> QED BY <1>1, <1>2, Greatest
<1>4. g # m /\ g + 1 \in 0 .. m /\ g \in Nat
  BY <1>2, <1>3
<1>5. PICK n \in Names : depth[n] = g + 1
  <2>1. g + 1 \notin T
    BY <1>3, <1>4
  <2> QED BY <1>4, <2>1
<1>6. PICK d \in DependsOn(n) : depth[d] + 1 = depth[n]
  BY <1>4, <1>5 DEF DepthInv
<1>7. d \in Names /\ depth[d] \in Nat
  BY <1>6 DEF DepthInv
<1>8. depth[d] = g
  BY <1>4, <1>5, <1>6, <1>7
<1> QED
  BY <1>3, <1>7, <1>8

(* Dropping the empty groups drops none: group g is the steps of depth g - 1. *)
LEMMA MakeGroupsGroups ==
  ASSUME SortInv, DepthInv, Range(order) = Names, MakeGroups
  PROVE  GroupsInv'
<1> DEFINE m == Max(Range(depth))
           level(d) == Keep(order, {n \in Names : depth[n] = d - 1})
           levels == [d \in 1 .. m + 1 |-> level(d)]
<1>1. /\ DOMAIN depth = Names /\ depth \in [Names -> Nat] /\ depth' = depth /\ dag' = dag
      /\ groups' = Keep(levels, Seq(Names) \ {<<>>})
  BY DEF MakeGroups, DepthInv
<1>2. m \in Nat /\ (\E n \in Names : depth[n] = m) /\ \A n \in Names : depth[n] <= m
  <2>1. Range(depth) \subseteq Nat /\ \A n \in Names : depth[n] \in Range(depth)
    BY <1>1 DEF Range
  <2>2. Range(depth) # {}
    <3>1. 1 \in DOMAIN dag
      BY DagsAssumption DEF SortInv, WellFormed, Names, Range, names
    <3>2. Names # {}
      BY <3>1 DEF Names
    <3> QED BY <2>1, <3>2
  <2>3. Len(order) \in Nat /\ \A x \in Range(depth) : x <= Len(order)
    <3>1. Len(order) \in Nat
      BY DEF SortInv
    <3>2. ASSUME NEW n \in Names PROVE depth[n] <= Len(order)
      <4>1. PICK i \in 1 .. Cardinality(DOMAIN depth) : n = order[i]
        BY <1>1 DEF DepthInv, HasDepth
      <4>2. depth[n] < i /\ depth[n] \in Nat /\ Cardinality(DOMAIN depth) \in 0 .. Len(order)
        BY <1>1, <4>1 DEF DepthInv
      <4> QED BY <3>1, <4>1, <4>2
    <3> QED BY <1>1, <3>1, <3>2 DEF Range
  <2>4. m \in Range(depth) /\ \A x \in Range(depth) : x <= m
    BY <2>1, <2>2, <2>3, MaxFacts
  <2> HIDE DEF m
  <2> QED BY <1>1, <2>1, <2>4 DEF Range
<1>3. \A g \in 0 .. m : \E n \in Names : depth[n] = g
  <2>1. \A n \in Names : \A d \in DependsOn(n) : d \in Names
    BY DEF SortInv, WellFormed, DependsOn, Range
  <2> HIDE DEF m
  <2> QED BY <1>1, <1>2, <2>1, NoDepthIsSkipped
<1> HIDE DEF m
<1>4. ASSUME NEW d \in 1 .. m + 1
      PROVE  /\ Range(level(d)) = {n \in Names : depth[n] + 1 = d}
             /\ level(d) \in Seq(Names) \ {<<>>}
  <2> DEFINE S == {n \in Names : depth[n] = d - 1}
  <2>1. order \in Seq(Names) /\ Range(order) \cap S = S
    BY DEF SortInv
  <2>2. S = {n \in Names : depth[n] + 1 = d}
    BY <1>1, <1>2
  <2>3. S # {}
    <3>1. d - 1 \in 0 .. m
      BY <1>2
    <3> QED BY <1>3, <3>1
  <2> HIDE DEF S
  <2>4. Keep(order, S) \in Seq(Names) /\ Range(Keep(order, S)) = S
    BY <2>1, KeepFacts
  <2>5. Keep(order, S) # <<>>
    BY <2>3, <2>4 DEF Range
  <2> QED BY <2>2, <2>4, <2>5 DEF S
<1> HIDE DEF level
<1>5. levels \in Seq(Seq(Names) \ {<<>>})
  BY <1>2, <1>4
<1>6. groups' = levels
  <2> HIDE DEF levels
  <2> QED BY <1>1, <1>5, KeepAll
<1>7. DOMAIN groups' = 1 .. m + 1 /\ \A g \in 1 .. m + 1 : groups'[g] = level(g)
  BY <1>6
<1>8. Names' = Names
  BY <1>1, DagIsFixed
<1>9. \A n \in Names : depth[n] + 1 \in 1 .. m + 1
  BY <1>1, <1>2
<1>10. \A g \in DOMAIN groups' : Range(groups'[g]) = {n \in Names : depth[n] + 1 = g}
  BY <1>4, <1>7
<1> QED
  BY <1>1, <1>7, <1>8, <1>9, <1>10 DEF GroupsInv

-----------------------------------------------------------------------------

LEMMA DagStart == DagInit => DagInv
<1> SUFFICES ASSUME DagInit PROVE DagInv
  OBVIOUS
<1>1. OrderIsTopological
  BY DEF DagInit, OrderIsTopological
<1> QED
  BY <1>1 DEF DagInit, DagInv, DagPc

(* What was said of a state is still true where only dagPc, error and groups
   have changed.                                                             *)
LEMMA DagFrame ==
  ASSUME UNCHANGED <<dag, in_degree, queue, order>>
  PROVE  /\ SortInv => SortInv'
         /\ OrderIsTopological => OrderIsTopological'
         /\ depth' = depth /\ DepthInv => DepthInv'
<1>1. /\ Names' = Names /\ WellFormed' = WellFormed
      /\ \A n : depends_on(n)' = depends_on(n)
      /\ \A n : DependsOn(n)' = DependsOn(n)
  BY DagIsFixed
<1>2. \A n : Missing(n)' = Missing(n)
  BY <1>1 DEF Missing
<1>3. SortInv => SortInv'
  BY <1>1, <1>2 DEF SortInv, IsInjective
<1>4. OrderIsTopological => OrderIsTopological'
  <2>1. \A i \in DOMAIN order : DependsOn(order[i])' = DependsOn(order[i])
    BY DEF DependsOn, depends_on
  <2> QED BY <2>1 DEF OrderIsTopological
<1>5. depth' = depth /\ DepthInv => DepthInv'
  <2>1. HasDepth(Cardinality(DOMAIN depth))' = {order'[i] : i \in 1 .. Cardinality(DOMAIN depth')}
    BY DEF HasDepth
  <2> QED BY <1>1, <2>1 DEF DepthInv, HasDepth
<1> QED
  BY <1>3, <1>4, <1>5

(* Every step of the two functions keeps the invariant.                      *)
LEMMA DagStep == DagInv /\ [DagNext]_dagVars => DagInv'
<1> SUFFICES ASSUME DagInv, [DagNext]_dagVars PROVE DagInv'
  OBVIOUS
<1>1. CASE RefuseInput
  BY <1>1, DagFrame DEF RefuseInput, Refuse, DagInv, DagPc
<1>2. CASE CountEdges
  <2>1. SortInv' /\ OrderIsTopological'
    <3>1. OrderIsTopological'
      BY <1>2 DEF CountEdges, DagInv, OrderIsTopological
    <3> QED BY <1>2, <3>1, CountEdgesSorts
  <2> QED BY <1>2, <2>1 DEF CountEdges, DagInv, DagPc
<1>3. CASE PopNode
  <2>1. SortInv' /\ OrderIsTopological'
    BY <1>3, PopNodeSorts DEF PopNode, DagInv
  <2> QED BY <1>3, <2>1 DEF PopNode, DagInv, DagPc
<1>4. CASE SortEnds
  <2>1. SortInv /\ OrderIsTopological /\ queue = <<>> /\ depth = <<>>
    BY <1>4 DEF SortEnds, DagInv
  <2>2. SortInv' /\ OrderIsTopological' /\ DepthInv'
    BY <1>4, <2>1, DepthStarts, DagFrame DEF SortEnds
  <2>3. Len(order) = Len(dag) => Range(order) = Names
    BY <2>1, SortIsDecided
  <2>4. Names' = Names
    BY <1>4, DagIsFixed DEF SortEnds
  <2> QED BY <1>4, <2>1, <2>2, <2>3, <2>4 DEF SortEnds, Refuse, DagInv, DagPc
<1>5. CASE AssignDepth
  <2>1. SortInv /\ OrderIsTopological /\ DepthInv /\ Range(order) = Names
    BY <1>5 DEF AssignDepth, DagInv
  <2>2. SortInv' /\ OrderIsTopological' /\ DepthInv' /\ Names' = Names
    BY <1>5, <2>1, AssignDepthKeeps, DagFrame, DagIsFixed DEF AssignDepth
  <2> QED BY <1>5, <2>1, <2>2 DEF AssignDepth, DagInv, DagPc
<1>6. CASE MakeGroups
  <2>1. SortInv /\ OrderIsTopological /\ DepthInv /\ Range(order) = Names
    BY <1>6 DEF MakeGroups, DagInv
  <2>2. SortInv' /\ OrderIsTopological' /\ DepthInv' /\ GroupsInv' /\ Names' = Names
    BY <1>6, <2>1, MakeGroupsGroups, DagFrame, DagIsFixed DEF MakeGroups
  <2> QED BY <1>6, <2>1, <2>2 DEF MakeGroups, DagInv, DagPc
<1>7. CASE UNCHANGED dagVars
  <2>1. Names' = Names
    BY <1>7, DagIsFixed DEF dagVars
  <2>2. GroupsInv => GroupsInv'
    BY <1>7, <2>1 DEF dagVars, GroupsInv
  <2>3. (SortInv => SortInv') /\ (OrderIsTopological => OrderIsTopological') /\ (DepthInv => DepthInv')
    BY <1>7, DagFrame DEF dagVars
  <2> QED BY <1>7, <2>1, <2>2, <2>3 DEF DagInv, dagVars
<1> QED
  BY <1>1, <1>2, <1>3, <1>4, <1>5, <1>6, <1>7 DEF DagNext, DagFinished

(* The inductive invariant of validate_dag and get_parallel_groups, for every
   DAG.                                                                      *)
THEOREM DagInvariant == DagSpec => []DagInv
<1> QED
  BY DagStart, DagStep, PTL DEF DagSpec

(* Types; the queue and the order together never hold a step twice.          *)
THEOREM DagTypes == DagSpec => []DagTypeOK
<1>1. DagInv => DagTypeOK
  <2> SUFFICES ASSUME DagInv PROVE DagTypeOK
    OBVIOUS
  <2>1. /\ dag \in Seq([name : StepNames, depends_on : Seq(StepNames)])
        /\ dagPc \in DagPc /\ error \in {"none", "empty", "duplicate", "unknown", "cycle"}
    BY DagsAssumption DEF DagInv
  <2>2. ASSUME SortInv
        PROVE  in_degree \in [Names -> Nat] /\ queue \o order \in Seq(Names) /\ IsInjective(queue \o order)
    <3>1. Range(queue) \cap Range(order) = {}
      BY <2>2 DEF SortInv
    <3> QED BY <2>2, <3>1, InjectiveConcat DEF SortInv
  <2>3. depth \in [DOMAIN depth -> Nat] /\ DOMAIN depth \subseteq Range(order)
    <3>1. CASE depth = <<>>
      BY <3>1
    <3>2. CASE DepthInv /\ SortInv
      <4>1. DOMAIN depth = HasDepth(Cardinality(DOMAIN depth))
        BY <3>2 DEF DepthInv
      <4>2. DOMAIN order = 1 .. Len(order) /\ Len(order) \in Nat
        BY <3>2 DEF SortInv
      <4>3. \A i \in 1 .. Cardinality(DOMAIN depth) : i \in DOMAIN order
        BY <3>2, <4>2 DEF DepthInv
      <4> QED BY <3>2, <4>1, <4>3 DEF DepthInv, HasDepth, Range
    <3> QED BY <3>1, <3>2 DEF DagInv, DagPc
  <2> QED BY <2>1, <2>2, <2>3 DEF DagInv, DagTypeOK
<1> QED
  BY <1>1, DagInvariant, PTL

(* validate_dag refuses as cyclic the DAGs that are, and no others.          *)
THEOREM CyclesAreRefused == DagSpec => []RefusedExactlyWhenCyclic
<1>1. DagInv => RefusedExactlyWhenCyclic
  BY SortIsDecided, CompleteOrderIsAcyclic DEF DagInv, RefusedExactlyWhenCyclic
<1> QED
  BY <1>1, DagInvariant, PTL

(* The order is topological at every moment of its construction.             *)
THEOREM TopologicalOrder == DagSpec => []OrderIsTopological
<1>1. DagInv => OrderIsTopological
  BY DEF DagInv
<1> QED
  BY <1>1, DagInvariant, PTL

(* A step's group is its depth plus one.                                     *)
LEMMA GroupIsDepth ==
  ASSUME GroupsInv, NEW n \in Names
  PROVE  GroupOf(n) = depth[n] + 1
<1>1. \A g \in DOMAIN groups : n \in Range(groups[g]) <=> depth[n] + 1 = g
  BY DEF GroupsInv
<1>2. depth[n] + 1 \in DOMAIN groups
  BY DEF GroupsInv
<1> QED
  BY <1>1, <1>2 DEF GroupOf

(* The parallel groups hold every step once, and each in a later group than its
   dependencies: what Executor assumes of Depth.                             *)
THEOREM GroupsAreOrdered == DagSpec => []GroupsRespectDependencies
<1>1. DagInv => GroupsRespectDependencies
  <2> SUFFICES ASSUME DagInv, dagPc = "done" PROVE GroupsRespectDependencies
    BY DEF GroupsRespectDependencies
  <2>1. GroupsInv /\ DepthInv
    BY DEF DagInv
  <2>2. UNION {Range(groups[g]) : g \in DOMAIN groups} = Names
    BY <2>1 DEF GroupsInv
  <2>3. \A g, h \in DOMAIN groups : g # h => Range(groups[g]) \cap Range(groups[h]) = {}
    BY <2>1 DEF GroupsInv
  <2>4. ASSUME NEW n \in Names, NEW d \in DependsOn(n) PROVE GroupOf(d) < GroupOf(n)
    <3>1. d \in Names /\ depth[d] < depth[n] /\ depth[d] \in Nat /\ depth[n] \in Nat
      BY <2>1, <2>4 DEF GroupsInv, DepthInv
    <3>2. GroupOf(d) = depth[d] + 1 /\ GroupOf(n) = depth[n] + 1
      BY <2>1, <3>1, GroupIsDepth
    <3> QED BY <3>1, <3>2
  <2> QED BY <2>2, <2>3, <2>4 DEF GroupsRespectDependencies
<1> QED
  BY <1>1, DagInvariant, PTL

(* No step is in a later group than its dependencies force it to be.         *)
THEOREM GroupsAreTight == DagSpec => []GroupsAreEarliest
<1>1. DagInv => GroupsAreEarliest
  <2> SUFFICES ASSUME DagInv, dagPc = "done", NEW n \in Names, GroupOf(n) > 1
               PROVE  \E d \in DependsOn(n) : GroupOf(d) + 1 = GroupOf(n)
    BY DEF GroupsAreEarliest
  <2>1. GroupsInv /\ DepthInv
    BY DEF DagInv
  <2>2. GroupOf(n) = depth[n] + 1 /\ depth[n] \in Nat /\ n \in DOMAIN depth
    BY <2>1, GroupIsDepth DEF GroupsInv, DepthInv
  <2>3. PICK d \in DependsOn(n) : depth[d] + 1 = depth[n]
    BY <2>1, <2>2 DEF DepthInv
  <2>4. d \in Names
    BY <2>1, <2>2, <2>3 DEF DepthInv, GroupsInv
  <2>5. GroupOf(d) = depth[d] + 1
    BY <2>1, <2>4, GroupIsDepth
  <2> QED BY <2>2, <2>3, <2>5
<1> QED
  BY <1>1, DagInvariant, PTL

(* The loop of get_parallel_groups never asks for the depth of a step that has
   none yet, which would be a KeyError.                                      *)
THEOREM DepthsAreThere == DagSpec => []DependenciesHaveDepths
<1>1. DagInv => DependenciesHaveDepths
  <2> DEFINE k == Cardinality(DOMAIN depth)
             node == order[k + 1]
  <2> SUFFICES ASSUME DagInv, dagPc = "depth", DOMAIN depth # Names, NEW d \in DependsOn(node)
               PROVE  d \in DOMAIN depth
    BY DEF DependenciesHaveDepths
  <2>1. SortInv /\ DepthInv /\ OrderIsTopological /\ Range(order) = Names
    BY DEF DagInv
  <2>2. DOMAIN order = 1 .. Len(order) /\ Len(order) \in Nat /\ k \in 0 .. Len(order)
    BY <2>1 DEF SortInv, DepthInv
  <2>3. DOMAIN depth = HasDepth(k) /\ HasDepth(Len(order)) = Range(order)
    BY <2>1, <2>2 DEF DepthInv, HasDepth, Range
  <2>4. k # Len(order)
    BY <2>1, <2>3
  <2>5. k + 1 \in DOMAIN order /\ k + 1 - 1 = k
    BY <2>2, <2>4
  <2>6. PICK i \in DOMAIN order : i = k + 1
    BY <2>5
  <2>7. d \in DependsOn(order[i])
    BY <2>6
  <2>8. PICK j \in 1 .. i - 1 : order[j] = d
    BY <2>1, <2>7 DEF OrderIsTopological
  <2>9. k \in Nat
    BY <2>2
  <2>10. j \in 1 .. k
    <3> HIDE DEF k
    <3> QED BY <2>6, <2>8, <2>9
  <2> QED BY <2>3, <2>8, <2>10 DEF HasDepth
<1> QED
  BY <1>1, DagInvariant, PTL

(* What Executor assumes of its constants Deps and Depth (DepsAssumption) is what
   the two functions deliver for every DAG they accept.                      *)
THEOREM PlanIsWhatTheExecutorAssumes ==
  DagSpec => [](dagPc = "done" =>
    /\ [n \in Names |-> DependsOn(n)] \in [Names -> SUBSET Names]
    /\ [n \in Names |-> GroupOf(n) - 1] \in [Names -> Nat]
    /\ \A n \in Names : \A d \in DependsOn(n) : GroupOf(d) - 1 < GroupOf(n) - 1)
<1>1. ASSUME DagInv, dagPc = "done"
      PROVE  /\ [n \in Names |-> DependsOn(n)] \in [Names -> SUBSET Names]
             /\ [n \in Names |-> GroupOf(n) - 1] \in [Names -> Nat]
             /\ \A n \in Names : \A d \in DependsOn(n) : GroupOf(d) - 1 < GroupOf(n) - 1
  <2>1. GroupsInv /\ DepthInv
    BY <1>1 DEF DagInv
  <2>2. \A n \in Names : GroupOf(n) = depth[n] + 1 /\ depth[n] \in Nat
    BY <2>1, GroupIsDepth DEF GroupsInv, DepthInv
  <2>3. \A n \in Names : \A d \in DependsOn(n) : d \in Names /\ depth[d] < depth[n]
    BY <2>1 DEF GroupsInv, DepthInv
  <2> QED BY <2>2, <2>3
<1> QED
  BY <1>1, DagInvariant, PTL
=============================================================================
