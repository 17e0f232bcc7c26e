---------------------------- MODULE SequenceFacts ----------------------------
(***************************************************************************)
(* What the proofs about Dag, LlmRouter and Rooms need to know of numbers  *)
(* and sequences.  Induction enters by the well-foundedness of < on Nat: a *)
(* nonempty set of numbers has a least element.                            *)
(***************************************************************************)
EXTENDS Subsequences, Integers, FiniteSetTheorems, SequenceTheorems, WellFoundedInduction, TLAPS

(* A nonempty set of natural numbers has a least element.                    *)
LEMMA Least ==
  ASSUME NEW T, T \subseteq Nat, T # {}
  PROVE  \E x \in T : \A y \in T : x <= y
<1> DEFINE R == {ss \in Nat \X Nat : ss[1] < ss[2]}
<1>1. OpToRel(<, Nat) = R
  BY DEF OpToRel
<1>2. IsWellFoundedOn(R, Nat)
  BY <1>1, NatLessThanWellFounded
<1>3. \E x \in T : \A y \in T : ~(<<y, x>> \in R)
  <2> HIDE DEF R
  <2> QED BY <1>2, WFMin
<1>4. \A x, y \in Nat : y < x => <<y, x>> \in R
  <2> SUFFICES ASSUME NEW x \in Nat, NEW y \in Nat, y < x PROVE <<y, x>> \in R
    OBVIOUS
  <2>1. <<y, x>> \in Nat \X Nat /\ <<y, x>>[1] < <<y, x>>[2]
    OBVIOUS
  <2> QED BY <2>1
<1> QED
  <2> HIDE DEF R
  <2>1. PICK x \in T : \A y \in T : ~(<<y, x>> \in R)
    BY <1>3
  <2>2. \A y \in T : ~(y < x)
    BY <2>1, <1>4
  <2> QED BY <2>2

(* A nonempty set of natural numbers with an upper bound has a greatest one.  *)
LEMMA Greatest ==
  ASSUME NEW T, T \subseteq Nat, T # {}, NEW b \in Nat, \A x \in T : x <= b
  PROVE  \E x \in T : \A y \in T : y <= x
<1> DEFINE B == {c \in Nat : \A x \in T : x <= c}
<1>1. PICK c \in B : \A d \in B : c <= d
  BY Least
<1>2. SUFFICES ASSUME c \notin T PROVE FALSE
  OBVIOUS
<1>3. \A x \in T : x < c
  BY <1>1, <1>2
<1>4. c \in Nat /\ c # 0
  <2>1. PICK x \in T : TRUE
    OBVIOUS
  <2>2. x \in Nat /\ x < c /\ c \in Nat
    BY <1>3
  <2> QED BY <2>2
<1>5. c - 1 \in B
  <2>1. \A x \in T : x \in Nat /\ x < c
    BY <1>3
  <2>2. c - 1 \in Nat /\ \A x \in T : x <= c - 1
    BY <1>4, <2>1
  <2> QED BY <2>2
<1> QED
  BY <1>1, <1>4, <1>5

(* 1 .. n has n elements.                                                    *)
LEMMA CountUpTo == \A n \in Nat : IsFiniteSet(1 .. n) /\ Cardinality(1 .. n) = n
BY FS_Interval

(* Nth counts a set of numbers up, in order and without omission.            *)
LEMMA NthFacts ==
  ASSUME NEW n \in Nat, NEW P \in SUBSET (1 .. n)
  PROVE  /\ Cardinality(P) \in Nat
         /\ \A k \in 1 .. Cardinality(P) : Nth(P, k) \in P
         /\ \A k, l \in 1 .. Cardinality(P) : k < l => Nth(P, k) < Nth(P, l)
         /\ \A i \in P : \E k \in 1 .. Cardinality(P) : Nth(P, k) = i
<1> DEFINE Upto(i) == {j \in P : j <= i}
           rank == [i \in P |-> Cardinality(Upto(i))]
<1>1. IsFiniteSet(P) /\ Cardinality(P) \in Nat
  <2>1. IsFiniteSet(1 .. n)
    BY FS_Interval
  <2>2. IsFiniteSet(P)
    BY <2>1, FS_Subset
  <2> QED BY <2>2, FS_CardinalityType
<1>0. P \subseteq Nat
  OBVIOUS
<1>2. \A i \in P : IsFiniteSet(Upto(i)) /\ Cardinality(Upto(i)) \in 1 .. Cardinality(P)
  <2> SUFFICES ASSUME NEW i \in P
               PROVE  IsFiniteSet(Upto(i)) /\ Cardinality(Upto(i)) \in 1 .. Cardinality(P)
    OBVIOUS
  <2>1. Upto(i) \in SUBSET P /\ i \in Upto(i)
    OBVIOUS
  <2>2. IsFiniteSet(Upto(i)) /\ Cardinality(Upto(i)) <= Cardinality(P)
    BY <1>1, <2>1, FS_Subset
  <2>3. Cardinality(Upto(i)) \in Nat /\ Cardinality(Upto(i)) # 0
    BY <2>1, <2>2, FS_CardinalityType, FS_EmptySet
  <2> QED BY <1>1, <2>2, <2>3
<1>3. ASSUME NEW i \in P, NEW j \in P, i < j
      PROVE  rank[i] < rank[j]
  <2>1. Upto(i) \in SUBSET Upto(j) /\ j \in Upto(j) /\ j \notin Upto(i)
    <3>1. i \in Int /\ j \in Int /\ \A k \in P : k \in Int
      BY <1>0
    <3>2. \A k \in P : k <= i => k <= j
      BY <1>3, <3>1
    <3>3. j <= j /\ ~ (j <= i)
      BY <1>3, <3>1
    <3> QED BY <3>2, <3>3
  <2>2. Cardinality(Upto(i)) <= Cardinality(Upto(j)) /\ Cardinality(Upto(i)) # Cardinality(Upto(j))
    BY <1>2, <2>1, FS_Subset
  <2> QED BY <1>2, <2>2
<1>4. rank \in Injection(P, 1 .. Cardinality(P))
  <2>1. rank \in [P -> 1 .. Cardinality(P)]
    BY <1>2
  <2>2. \A i, j \in P : i # j => rank[i] # rank[j]
    <3> SUFFICES ASSUME NEW i \in P, NEW j \in P, i # j PROVE rank[i] # rank[j]
      OBVIOUS
    <3>1. i < j \/ j < i
      OBVIOUS
    <3>2. rank[i] < rank[j] \/ rank[j] < rank[i]
      BY <1>3, <3>1
    <3>3. rank[i] \in Nat /\ rank[j] \in Nat
      BY <2>1
    <3> HIDE DEF rank
    <3> QED BY <3>2, <3>3
  <2> HIDE DEF rank
  <2> QED BY <2>1, <2>2 DEF Injection, IsInjective
<1>5. rank \in Surjection(P, 1 .. Cardinality(P))
  <2>1. IsFiniteSet(1 .. Cardinality(P)) /\ Cardinality(1 .. Cardinality(P)) = Cardinality(P)
    BY <1>1, FS_Interval
  <2> QED BY <1>4, <2>1, FS_Injection
<1>6. ASSUME NEW k \in 1 .. Cardinality(P)
      PROVE  Nth(P, k) \in P /\ rank[Nth(P, k)] = k
  <2>1. \E i \in P : rank[i] = k
    BY <1>5 DEF Surjection
  <2> QED BY <2>1 DEF Nth
<1>7. ASSUME NEW k \in 1 .. Cardinality(P), NEW l \in 1 .. Cardinality(P), k < l
      PROVE  Nth(P, k) < Nth(P, l)
  <2>1. Nth(P, k) \in P /\ Nth(P, l) \in P /\ rank[Nth(P, k)] = k /\ rank[Nth(P, l)] = l
    BY <1>6
  <2>2. Nth(P, l) # Nth(P, k)
    BY <1>1, <1>7, <2>1
  <2>3. Nth(P, l) < Nth(P, k) => l < k
    BY <1>3, <2>1
  <2>4. ~ (l < k)
    BY <1>1, <1>7
  <2>5. Nth(P, k) \in Nat /\ Nth(P, l) \in Nat
    BY <1>0, <2>1
  <2> QED BY <2>2, <2>3, <2>4, <2>5
<1>8. ASSUME NEW i \in P PROVE \E k \in 1 .. Cardinality(P) : Nth(P, k) = i
  <2>1. rank[i] \in 1 .. Cardinality(P)
    BY <1>2
  <2>2. Nth(P, rank[i]) \in P /\ rank[Nth(P, rank[i])] = rank[i]
    BY <1>6, <2>1
  <2>3. Nth(P, rank[i]) = i
    BY <1>4, <2>2 DEF Injection, IsInjective
  <2> QED BY <2>1, <2>3
<1> QED
  BY <1>1, <1>6, <1>7, <1>8

(* Keep returns the elements asked for, no more and no less, and each as often
   as it was there.                                                          *)
LEMMA KeepFacts ==
  ASSUME NEW T, NEW s \in Seq(T), NEW S
  PROVE  /\ Keep(s, S) \in Seq(S) /\ Keep(s, S) \in Seq(T)
         /\ Range(Keep(s, S)) = Range(s) \cap S
         /\ IsInjective(s) => IsInjective(Keep(s, S))
         /\ Len(Keep(s, S)) <= Len(s)
<1> DEFINE P == Kept(s, S)
<1>1. P \in SUBSET (1 .. Len(s)) /\ Len(s) \in Nat /\ DOMAIN s = 1 .. Len(s)
  BY DEF Kept
<1>2. \A i \in P : s[i] \in S /\ s[i] \in T
  BY ElementOfSeq DEF Kept
<1>3. /\ Cardinality(P) \in Nat
      /\ \A k \in 1 .. Cardinality(P) : Nth(P, k) \in P
      /\ \A k, l \in 1 .. Cardinality(P) : k < l => Nth(P, k) < Nth(P, l)
      /\ \A i \in P : \E k \in 1 .. Cardinality(P) : Nth(P, k) = i
  <2> HIDE DEF P
  <2> QED BY <1>1, NthFacts
<1>4. Keep(s, S) = [k \in 1 .. Cardinality(P) |-> s[Nth(P, k)]]
  BY DEF Keep
<1>5. \A i \in DOMAIN s : s[i] \in S => i \in P
  BY DEF Kept
<1> HIDE DEF P
<1>6. Keep(s, S) \in Seq(S) /\ Keep(s, S) \in Seq(T)
  BY <1>2, <1>3, <1>4
<1>7. Range(Keep(s, S)) = Range(s) \cap S
  <2>1. Range(Keep(s, S)) = {s[Nth(P, k)] : k \in 1 .. Cardinality(P)}
    BY <1>4 DEF Range
  <2>2. Range(Keep(s, S)) = {s[i] : i \in P}
    BY <1>3, <2>1
  <2> QED BY <1>1, <1>2, <1>5, <2>2 DEF Range
<1>8. ASSUME IsInjective(s), NEW k \in 1 .. Cardinality(P), NEW l \in 1 .. Cardinality(P), k # l
      PROVE  Keep(s, S)[k] # Keep(s, S)[l]
  <2>1. Nth(P, k) # Nth(P, l) /\ Nth(P, k) \in DOMAIN s /\ Nth(P, l) \in DOMAIN s
    <3>1. k < l \/ l < k
      BY <1>3, <1>8
    <3>2. Nth(P, k) \in P /\ Nth(P, l) \in P
      BY <1>3
    <3>3. Nth(P, k) < Nth(P, l) \/ Nth(P, l) < Nth(P, k)
      BY <1>3, <3>1
    <3>4. Nth(P, k) \in Nat /\ Nth(P, l) \in Nat
      <4>1. P \subseteq Nat
        BY <1>1
      <4> QED BY <3>2, <4>1
    <3>5. Nth(P, k) # Nth(P, l)
      BY <3>3, <3>4
    <3> QED BY <1>1, <3>2, <3>5
  <2>2. s[Nth(P, k)] # s[Nth(P, l)]
    BY <1>8, <2>1 DEF IsInjective
  <2> QED BY <1>4, <2>2
<1>9. IsInjective(s) => IsInjective(Keep(s, S))
  BY <1>4, <1>8 DEF IsInjective
<1>10. Len(Keep(s, S)) <= Len(s)
  <2>1. Len(Keep(s, S)) = Cardinality(P)
    BY <1>3, <1>4
  <2>2. Cardinality(P) <= Cardinality(1 .. Len(s))
    BY <1>1, CountUpTo, FS_Subset
  <2> QED BY <1>1, <2>1, <2>2, CountUpTo
<1> QED
  BY <1>6, <1>7, <1>9, <1>10

(* Keep leaves a sequence of elements of S as it is.                         *)
LEMMA KeepAll ==
  ASSUME NEW S, NEW s \in Seq(S)
  PROVE  Keep(s, S) = s
<1> DEFINE n == Len(s)
<1>1. Kept(s, S) = 1 .. n /\ n \in Nat /\ DOMAIN s = 1 .. n
  BY ElementOfSeq DEF Kept
<1>2. Cardinality(1 .. n) = n
  BY <1>1, FS_Interval
<1>3. ASSUME NEW k \in 1 .. n PROVE Nth(1 .. n, k) = k
  <2>1. \A i \in 1 .. n : Cardinality({j \in 1 .. n : j <= i}) = i
    <3> SUFFICES ASSUME NEW i \in 1 .. n PROVE Cardinality({j \in 1 .. n : j <= i}) = i
      OBVIOUS
    <3>1. {j \in 1 .. n : j <= i} = 1 .. i
      BY <1>1
    <3>2. Cardinality(1 .. i) = i
      BY <1>1, FS_Interval
    <3> QED BY <3>1, <3>2
  <2> QED BY <2>1 DEF Nth
<1> QED
  <2>1. Keep(s, S) = [k \in 1 .. n |-> s[Nth(1 .. n, k)]]
    BY <1>1, <1>2 DEF Keep
  <2>2. Keep(s, S) = [k \in 1 .. n |-> s[k]]
    BY <1>3, <2>1
  <2> QED BY <1>1, <2>2

(* A sequence without repetitions is as long as the set of its elements.     *)
LEMMA InjectiveLength ==
  ASSUME NEW T, NEW s \in Seq(T)
  PROVE  /\ IsFiniteSet(Range(s)) /\ Cardinality(Range(s)) <= Len(s)
         /\ IsInjective(s) <=> Cardinality(Range(s)) = Len(s)
<1>1. Len(s) \in Nat /\ DOMAIN s = 1 .. Len(s)
  OBVIOUS
<1>2. IsFiniteSet(1 .. Len(s)) /\ Cardinality(1 .. Len(s)) = Len(s)
  BY <1>1, FS_Interval
<1>3. s \in Surjection(1 .. Len(s), Range(s))
  BY <1>1 DEF Surjection, Range
<1>4. /\ IsFiniteSet(Range(s)) /\ Cardinality(Range(s)) <= Len(s)
      /\ Cardinality(Range(s)) = Len(s) <=> s \in Injection(1 .. Len(s), Range(s))
  BY <1>2, <1>3, FS_Surjection
<1>5. s \in Injection(1 .. Len(s), Range(s)) <=> IsInjective(s)
  BY <1>3 DEF Injection, Surjection
<1> QED
  BY <1>4, <1>5

(* Two sequences without repetitions and without a common element.           *)
LEMMA InjectiveConcat ==
  ASSUME NEW T, NEW s \in Seq(T), NEW t \in Seq(T)
  PROVE  /\ s \o t \in Seq(T)
         /\ Range(s \o t) = Range(s) \cup Range(t)
         /\ IsInjective(s) /\ IsInjective(t) /\ Range(s) \cap Range(t) = {} =>
              IsInjective(s \o t)
<1> DEFINE m == Len(s)
           n == Len(t)
           c == s \o t
<1>1. /\ m \in Nat /\ n \in Nat /\ DOMAIN s = 1 .. m /\ DOMAIN t = 1 .. n
      /\ c \in Seq(T) /\ DOMAIN c = 1 .. m + n
      /\ \A i \in 1 .. m + n : c[i] = IF i <= m THEN s[i] ELSE t[i - m]
  BY ConcatProperties
<1> HIDE DEF c, m, n
<1>2. \A i \in 1 .. m + n : (i <= m /\ i \in 1 .. m) \/ (~ (i <= m) /\ i - m \in 1 .. n)
  BY <1>1
<1>3. Range(c) = Range(s) \cup Range(t)
  <2>1. Range(c) \subseteq Range(s) \cup Range(t)
    BY <1>1, <1>2 DEF Range
  <2>2. ASSUME NEW i \in 1 .. m PROVE s[i] \in Range(c)
    BY <1>1 DEF Range
  <2>3. ASSUME NEW i \in 1 .. n PROVE t[i] \in Range(c)
    <3>1. m + i \in 1 .. m + n /\ ~ (m + i <= m) /\ m + i - m = i
      BY <1>1
    <3>2. c[m + i] = t[i]
      BY <1>1, <3>1
    <3>3. m + i \in DOMAIN c
      BY <1>1, <3>1
    <3> QED BY <3>2, <3>3 DEF Range
  <2> QED BY <1>1, <2>1, <2>2, <2>3 DEF Range
<1>4. ASSUME IsInjective(s), IsInjective(t), Range(s) \cap Range(t) = {},
             NEW i \in 1 .. m + n, NEW j \in 1 .. m + n, c[i] = c[j]
      PROVE  i = j
  <2>1. \A k \in 1 .. m : \A l \in 1 .. n : s[k] # t[l]
    BY <1>1, <1>4 DEF Range
  <2>2. CASE i <= m /\ j <= m
    BY <1>1, <1>2, <1>4, <2>2 DEF IsInjective
  <2>3. CASE ~ (i <= m) /\ ~ (j <= m)
    <3>1. i - m \in 1 .. n /\ j - m \in 1 .. n /\ t[i - m] = t[j - m]
      BY <1>1, <1>2, <1>4, <2>3
    <3>2. i - m = j - m
      BY <1>1, <1>4, <3>1 DEF IsInjective
    <3> QED BY <1>1, <3>2
  <2>4. CASE (i <= m /\ ~ (j <= m)) \/ (~ (i <= m) /\ j <= m)
    BY <1>1, <1>2, <1>4, <2>1, <2>4
  <2> QED BY <2>2, <2>3, <2>4
<1> QED
  BY <1>1, <1>3, <1>4 DEF IsInjective, c
=============================================================================
