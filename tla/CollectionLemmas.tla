-------------------------- MODULE CollectionLemmas --------------------------
(***************************************************************************)
(* What the operators of the community modules do that the proofs need:    *)
(* sums over finite sets (MapThenSumSet), of which the byte accounts of    *)
(* both caches are, and sequences without repetition, like the list of the *)
(* cache, the queue and the stack of the thread pool.                      *)
(*                                                                         *)
(* The induction is over the set of numbers up to which a fact is known    *)
(* (NatClosed), because the provers do not instantiate the library's       *)
(* induction theorems, whose parameter is a predicate.                     *)
(***************************************************************************)
EXTENDS SequencesExt, FiniteSetsExt, FiniteSetTheorems, SequenceTheorems,
        WellFoundedInduction, TLAPS

(* Induction over the natural numbers, for a set in place of a predicate. *)
LEMMA NatClosed ==
    ASSUME NEW T \in SUBSET Nat, 0 \in T, \A n \in T : n + 1 \in T
    PROVE  T = Nat
<1> SUFFICES ASSUME Nat \ T # {} PROVE FALSE
  OBVIOUS
<1> DEFINE R == OpToRel(<, Nat)
<1>1. \A m, n \in Nat : m < n => <<m, n>> \in R
  BY DEF OpToRel
<1>2. IsWellFoundedOn(R, Nat)
  BY NatLessThanWellFounded
<1> HIDE DEF R
<1>3. PICK n \in Nat \ T : \A m \in Nat \ T : ~ (<<m, n>> \in R)
  BY <1>2, WFMin, Zenon
<1>4. n - 1 \in Nat /\ n - 1 < n
  OBVIOUS
<1>5. <<n - 1, n>> \in R
  BY <1>1, <1>4
<1>6. n - 1 \in T
  BY <1>3, <1>4, <1>5
<1>7. (n - 1) + 1 \in T
  BY <1>6
<1> QED
  BY <1>7

(* Which member the sum over s takes next, and the members it leaves. *)
Pick(s) == CHOOSE x \in s : TRUE
Rest(s) == s \ {Pick(s)}

(* f can be summed over S. *)
Summable(f, S) == IsFiniteSet(S) /\ \A x \in S : f[x] \in Nat

(* iter is the recursive function behind the sum of f over S. *)
SumsBy(iter, f, S) ==
    iter = [s \in SUBSET S |-> IF s = {} THEN 0 ELSE f[Pick(s)] + iter[Rest(s)]]

(* The next member is one, and one fewer is left. *)
LEMMA PickRest ==
    ASSUME NEW s, IsFiniteSet(s)
    PROVE  /\ Cardinality(s) \in Nat
           /\ Cardinality(s) = 0 <=> s = {}
           /\ s # {} => /\ Pick(s) \in s
                        /\ IsFiniteSet(Rest(s))
                        /\ Cardinality(Rest(s)) = Cardinality(s) - 1
<1>1. Cardinality(s) \in Nat /\ (Cardinality(s) = 0 <=> s = {})
  BY FS_CardinalityType, FS_EmptySet
<1>2. s # {} => Pick(s) \in s
  BY DEF Pick
<1>3. /\ IsFiniteSet(Rest(s))
      /\ Pick(s) \in s => Cardinality(Rest(s)) = Cardinality(s) - 1
  BY FS_RemoveElement DEF Rest
<1> QED
  BY <1>1, <1>2, <1>3

(* The recursive function exists: one that satisfies the recursion on the sets
   of up to n members extends to those of n + 1. *)
LEMMA SumsExist ==
    ASSUME NEW f, NEW S, Summable(f, S)
    PROVE  \E iter \in [SUBSET S -> Nat] : SumsBy(iter, f, S)
<1> DEFINE Step(g, s) == IF s = {} THEN 0 ELSE f[Pick(s)] + g[Rest(s)]
           Upto(n) == \E g \in [SUBSET S -> Nat] :
                         \A s \in SUBSET S : Cardinality(s) <= n => g[s] = Step(g, s)
           T == {n \in Nat : Upto(n)}
<1>1. \A s \in SUBSET S : /\ Cardinality(s) \in Nat
                          /\ Cardinality(s) = 0 <=> s = {}
                          /\ s # {} => /\ Pick(s) \in S
                                       /\ Rest(s) \in SUBSET S
                                       /\ Cardinality(Rest(s)) = Cardinality(s) - 1
  BY FS_Subset, PickRest DEF Rest, Summable
<1>2. \A g \in [SUBSET S -> Nat], s \in SUBSET S : Step(g, s) \in Nat
  BY <1>1 DEF Summable
<1>3. 0 \in T
  <2> DEFINE z == [s \in SUBSET S |-> 0]
  <2>1. z \in [SUBSET S -> Nat]
    OBVIOUS
  <2>2. ASSUME NEW s \in SUBSET S, Cardinality(s) <= 0 PROVE z[s] = Step(z, s)
    <3>1. s = {}
      BY <1>1, <2>2
    <3> QED
      BY <3>1
  <2> HIDE DEF z, Step
  <2> QED
    BY <2>1, <2>2
<1>4. ASSUME NEW n \in T PROVE n + 1 \in T
  <2>1. PICK g \in [SUBSET S -> Nat] :
                \A s \in SUBSET S : Cardinality(s) <= n => g[s] = Step(g, s)
    BY <1>4
  <2> DEFINE h == [s \in SUBSET S |-> Step(g, s)]
  <2>2. h \in [SUBSET S -> Nat]
    BY <1>2
  <2>3. ASSUME NEW s \in SUBSET S, Cardinality(s) <= n + 1 PROVE h[s] = Step(h, s)
    <3>1. CASE s = {}
      BY <3>1
    <3>2. CASE s # {}
      <4>1. Rest(s) \in SUBSET S /\ Cardinality(Rest(s)) <= n
        BY <1>1, <2>3, <3>2
      <4>2. h[Rest(s)] = g[Rest(s)]
        BY <2>1, <4>1
      <4> QED
        BY <3>2, <4>2
    <3> QED
      BY <3>1, <3>2
  <2> HIDE DEF h, Step
  <2>4. Upto(n + 1)
    BY <2>2, <2>3
  <2> QED
    BY <2>4
<1>5. T = Nat
  <2> HIDE DEF Upto
  <2>1. T \in SUBSET Nat
    OBVIOUS
  <2> HIDE DEF T
  <2> QED
    BY <1>3, <1>4, <2>1, NatClosed
<1>6. PICK g \in [SUBSET S -> Nat] :
             \A s \in SUBSET S : Cardinality(s) <= Cardinality(S) => g[s] = Step(g, s)
  <2>1. Cardinality(S) \in T
    BY <1>1, <1>5
  <2> QED
    BY <2>1
<1>7. \A s \in SUBSET S : g[s] = Step(g, s)
  BY <1>6, FS_Subset DEF Summable
<1>8. g = [s \in SUBSET S |-> Step(g, s)]
  BY <1>7
<1> QED
  BY <1>8 DEF SumsBy

(* Sums over two sets of functions that agree on a subset of both agree on it. *)
LEMMA SumsAgree ==
    ASSUME NEW S, IsFiniteSet(S), NEW R, IsFiniteSet(R), NEW f, NEW g,
           NEW it, SumsBy(it, f, S), NEW jt, SumsBy(jt, g, R),
           NEW U, U \subseteq S, U \subseteq R, \A x \in U : f[x] = g[x]
    PROVE  it[U] = jt[U]
<1> DEFINE T == {n \in Nat : \A s \in SUBSET U : Cardinality(s) = n => it[s] = jt[s]}
<1>1. \A s \in SUBSET U : IsFiniteSet(s) /\ Cardinality(s) \in Nat
  BY FS_Subset, FS_CardinalityType
<1>2. ASSUME NEW s \in SUBSET U, s = {} PROVE it[s] = 0 /\ jt[s] = 0
  BY <1>2 DEF SumsBy
<1>3. ASSUME NEW s \in SUBSET U, s # {}
      PROVE  it[s] = f[Pick(s)] + it[Rest(s)] /\ jt[s] = f[Pick(s)] + jt[Rest(s)]
  <2>1. Pick(s) \in U
    BY <1>1, <1>3, PickRest
  <2>2. it[s] = f[Pick(s)] + it[Rest(s)]
    BY <1>3 DEF SumsBy
  <2>3. jt[s] = g[Pick(s)] + jt[Rest(s)]
    BY <1>3 DEF SumsBy
  <2> QED
    BY <2>1, <2>2, <2>3
<1>4. 0 \in T
  BY <1>1, <1>2, PickRest
<1>5. ASSUME NEW n \in T PROVE n + 1 \in T
  <2> SUFFICES ASSUME NEW s \in SUBSET U, Cardinality(s) = n + 1 PROVE it[s] = jt[s]
    OBVIOUS
  <2>1. s # {} /\ Cardinality(Rest(s)) = n /\ Rest(s) \in SUBSET U
    BY <1>1, PickRest DEF Rest
  <2>2. it[Rest(s)] = jt[Rest(s)]
    BY <2>1
  <2> QED
    BY <1>3, <2>1, <2>2
<1>6. T = Nat
  <2>1. T \in SUBSET Nat
    OBVIOUS
  <2> HIDE DEF T
  <2> QED
    BY <1>4, <1>5, <2>1, NatClosed
<1> QED
  BY <1>1, <1>6

(* The sums are numbers. *)
LEMMA SumsType ==
    ASSUME NEW f, NEW S, Summable(f, S), NEW iter, SumsBy(iter, f, S)
    PROVE  iter \in [SUBSET S -> Nat]
<1>1. PICK jt \in [SUBSET S -> Nat] : SumsBy(jt, f, S)
  BY SumsExist
<1>2. IsFiniteSet(S)
  BY DEF Summable
<1>3. \A s \in SUBSET S : iter[s] = jt[s]
  BY <1>1, <1>2, SumsAgree
<1>4. iter = [s \in SUBSET S |-> iter[s]]
  BY DEF SumsBy
<1> QED
  BY <1>1, <1>3, <1>4

(* It does not matter which member is taken first. *)
LEMMA SumsAnyOrder ==
    ASSUME NEW f, NEW S, Summable(f, S), NEW iter, SumsBy(iter, f, S)
    PROVE  \A x \in S : iter[S] = f[x] + iter[S \ {x}]
<1>0. iter \in [SUBSET S -> Nat]
  BY SumsType
<1> DEFINE T == {n \in Nat : \A s \in SUBSET S : Cardinality(s) = n =>
                               \A x \in s : iter[s] = f[x] + iter[s \ {x}]}
<1>1. \A s \in SUBSET S : IsFiniteSet(s) /\ Cardinality(s) \in Nat
  BY FS_Subset, FS_CardinalityType DEF Summable
<1>2. 0 \in T
  BY <1>1, PickRest
<1>3. ASSUME NEW n \in T PROVE n + 1 \in T
  <2> SUFFICES ASSUME NEW s \in SUBSET S, Cardinality(s) = n + 1, NEW x \in s
               PROVE  iter[s] = f[x] + iter[s \ {x}]
    OBVIOUS
  <2>0. n \in Nat /\ \A t \in SUBSET S : Cardinality(t) = n =>
                        \A y \in t : iter[t] = f[y] + iter[t \ {y}]
    OBVIOUS
  <2> HIDE DEF T
  <2> DEFINE c == Pick(s)
  <2>1. c \in s
    BY <1>1, PickRest
  <2>2. iter[s] = f[c] + iter[s \ {c}]
    BY <2>1 DEF SumsBy, Rest
  <2>3. CASE x = c
    BY <2>2, <2>3
  <2>4. CASE x # c
    <3> HIDE DEF c
    <3> DEFINE r == (s \ {c}) \ {x}
    <3>0. \A y \in s : Cardinality(s \ {y}) = Cardinality(s) - 1
      BY <1>1, FS_RemoveElement
    <3>1. Cardinality(s \ {x}) = n
      BY <2>0, <3>0
    <3>2. Cardinality(s \ {c}) = n
      BY <2>0, <2>1, <3>0
    <3>3. iter[s \ {c}] = f[x] + iter[r]
      BY <2>0, <2>1, <2>4, <3>2
    <3>4. iter[s \ {x}] = f[c] + iter[(s \ {x}) \ {c}]
      BY <2>0, <2>1, <2>4, <3>1
    <3>5. (s \ {x}) \ {c} = r
      OBVIOUS
    <3>6. iter[r] \in Nat /\ f[x] \in Nat /\ f[c] \in Nat
      BY <1>0, <2>1 DEF Summable
    <3>7. f[c] + (f[x] + iter[r]) = f[x] + (f[c] + iter[r])
      BY <3>6
    <3> QED
      BY <2>2, <3>3, <3>4, <3>5, <3>7, Zenon
  <2> QED
    BY <2>3, <2>4
<1>4. T = Nat
  <2>1. T \in SUBSET Nat
    OBVIOUS
  <2> HIDE DEF T
  <2> QED
    BY <1>2, <1>3, <2>1, NatClosed
<1>5. S \in SUBSET S /\ Cardinality(S) \in T
  BY <1>1, <1>4
<1> QED
  BY <1>5

-----------------------------------------------------------------------------
(* What proofs use of sums. *)

(* The sum of f over S. *)
Total(f, S) == MapThenSumSet(LAMBDA x : f[x], S)

(* It is what the recursion yields for the whole set. *)
LEMMA TotalSums ==
    ASSUME NEW f, NEW S, Summable(f, S)
    PROVE  \E iter : SumsBy(iter, f, S) /\ Total(f, S) = iter[S]
<1> DEFINE it == CHOOSE iter : SumsBy(iter, f, S)
<1>1. SumsBy(it, f, S)
  BY SumsExist
<1>2. Total(f, S) = it[S]
  BY DEF Total, MapThenSumSet, MapThenFoldSet, SumsBy, Pick, Rest
<1> QED
  BY <1>1, <1>2

(* Nothing sums up to 0. *)
LEMMA TotalEmpty == \A f : Total(f, {}) = 0
<1> SUFFICES ASSUME NEW f PROVE Total(f, {}) = 0
  OBVIOUS
<1> DEFINE it == CHOOSE iter : SumsBy(iter, f, {})
<1>1. SumsBy([s \in {{}} |-> 0], f, {})
  BY DEF SumsBy
<1>2. SumsBy(it, f, {})
  BY <1>1
<1>3. Total(f, {}) = it[{}]
  BY DEF Total, MapThenSumSet, MapThenFoldSet, SumsBy, Pick, Rest
<1> HIDE DEF it
<1>4. it[{}] = 0
  BY <1>2 DEF SumsBy
<1> QED
  BY <1>3, <1>4

(* Taking a member out takes its part off. *)
LEMMA TotalRemove ==
    ASSUME NEW f, NEW S, Summable(f, S)
    PROVE  /\ Total(f, S) \in Nat
           /\ \A x \in S : Total(f, S) = f[x] + Total(f, S \ {x})
<1>1. PICK it : SumsBy(it, f, S) /\ Total(f, S) = it[S]
  BY TotalSums
<1>2. ASSUME NEW x \in S PROVE Total(f, S) = f[x] + Total(f, S \ {x})
  <2>1. it[S] = f[x] + it[S \ {x}]
    BY <1>1, SumsAnyOrder
  <2>2. Summable(f, S \ {x}) /\ IsFiniteSet(S \ {x}) /\ IsFiniteSet(S)
    BY FS_RemoveElement DEF Summable
  <2>3. PICK jt :
              SumsBy(jt, f, S \ {x}) /\ Total(f, S \ {x}) = jt[S \ {x}]
    BY <2>2, TotalSums
  <2>4. it[S \ {x}] = jt[S \ {x}]
    BY <1>1, <2>2, <2>3, SumsAgree
  <2> QED
    BY <1>1, <2>1, <2>3, <2>4
<1>3. it \in [SUBSET S -> Nat]
  BY <1>1, SumsType
<1>4. Total(f, S) \in Nat
  BY <1>1, <1>3
<1> QED
  BY <1>2, <1>4

(* A sum depends only on what is summed. *)
LEMMA TotalAgree ==
    ASSUME NEW f, NEW g, NEW S, Summable(f, S), \A x \in S : f[x] = g[x]
    PROVE  Total(f, S) = Total(g, S)
<1>1. Summable(g, S) /\ IsFiniteSet(S)
  BY DEF Summable
<1>2. PICK it : SumsBy(it, f, S) /\ Total(f, S) = it[S]
  BY TotalSums
<1>3. PICK jt : SumsBy(jt, g, S) /\ Total(g, S) = jt[S]
  BY <1>1, TotalSums
<1>4. it[S] = jt[S]
  <2>1. SumsBy(it, f, S) /\ SumsBy(jt, g, S)
    BY <1>2, <1>3
  <2>2. ASSUME NEW U, U \subseteq S, \A x \in U : f[x] = g[x] PROVE it[U] = jt[U]
    BY <1>1, <2>1, <2>2, SumsAgree
  <2> QED
    BY <2>2
<1> QED
  BY <1>2, <1>3, <1>4

-----------------------------------------------------------------------------
(* Sequences without repetition. *)

(* A set of numbers up to n has a largest one. *)
LEMMA LargestUpTo ==
    ASSUME NEW n \in Nat, NEW S \in SUBSET (0..n), S # {}
    PROVE  Max(S) \in S /\ \A x \in S : x <= Max(S)
<1> DEFINE R == OpToRel(<, Nat)
           T == {n - x : x \in S}
<1>1. \A a, b \in Nat : a < b => <<a, b>> \in R
  BY DEF OpToRel
<1>2. IsWellFoundedOn(R, Nat)
  BY NatLessThanWellFounded
<1>3. T \in SUBSET Nat /\ T # {}
  <2>1. \A x \in S : x \in 0..n
    OBVIOUS
  <2>2. \A x \in 0..n : n - x \in Nat
    OBVIOUS
  <2> QED
    BY <2>1, <2>2, Zenon
<1> HIDE DEF R, T
<1>4. PICK m \in T : \A a \in T : ~ (<<a, m>> \in R)
  BY <1>2, <1>3, WFMin, Zenon
<1>5. PICK y \in S : m = n - y
  BY <1>4 DEF T
<1>6. ASSUME NEW x \in S PROVE x <= y
  <2>1. n - x \in T /\ ~ (n - x < n - y)
    BY <1>1, <1>3, <1>4, <1>5 DEF T
  <2> QED
    BY <2>1
<1>7. \E z \in S : \A x \in S : z >= x
  BY <1>6
<1> QED
  BY <1>7 DEF Max

(* The smaller of two lengths. *)
LEMMA MinOfTwo ==
    ASSUME NEW m \in Nat, NEW n \in Nat
    PROVE  Min({m, n}) = IF m <= n THEN m ELSE n
BY DEF Min

(* One element is taken out, the later ones move up. *)
LEMMA RemovedAt ==
    ASSUME NEW T, NEW s \in Seq(T), NEW j \in 1..Len(s)
    PROVE  /\ RemoveAt(s, j) \in Seq(T) /\ Len(RemoveAt(s, j)) = Len(s) - 1
           /\ \A i \in 1..(Len(s) - 1) :
                 RemoveAt(s, j)[i] = IF i < j THEN s[i] ELSE s[i + 1]
<1>1. Len(s) \in Nat /\ DOMAIN s = 1..Len(s)
  OBVIOUS
<1> DEFINE p == SubSeq(s, 1, j - 1)
           q == SubSeq(s, j + 1, Len(s))
<1>2. p \in Seq(T) /\ Len(p) = j - 1 /\ \A i \in 1..(j - 1) : p[i] = s[i]
  BY <1>1
<1>3. /\ q \in Seq(T) /\ Len(q) = Len(s) - j
      /\ \A i \in 1..(Len(s) - j) : q[i] = s[i + j]
  <2>1. j + 1 \in Int /\ Len(s) \in Int /\ Len(s) - (j + 1) + 1 = Len(s) - j
    BY <1>1
  <2>2. \A i \in (j + 1)..Len(s) : s[i] \in T
    BY <1>1
  <2>3. /\ q \in Seq(T) /\ \A i \in 1..(Len(s) - j) : q[i] = s[(j + 1) + i - 1]
        /\ Len(q) = IF j + 1 <= Len(s) THEN Len(s) - j ELSE 0
    BY <2>1, <2>2, SubSeqProperties
  <2>4. Len(q) = Len(s) - j
    <3> HIDE DEF q
    <3>1. \A m \in Nat : \A i \in 1..m : (IF i + 1 <= m THEN m - i ELSE 0) = m - i
      OBVIOUS
    <3>2. (IF j + 1 <= Len(s) THEN Len(s) - j ELSE 0) = Len(s) - j
      BY <1>1, <3>1
    <3> QED
      BY <2>3, <3>2, Zenon
  <2>5. \A i \in 1..(Len(s) - j) : (j + 1) + i - 1 = i + j
    BY <1>1
  <2> QED
    BY <2>3, <2>4, <2>5
<1>4. j \in Nat /\ RemoveAt(s, j) = p \o q
  BY DEF RemoveAt
<1> HIDE DEF p, q
<1>5. /\ p \o q \in Seq(T) /\ Len(p \o q) = Len(s) - 1
      /\ \A i \in 1..(Len(s) - 1) : (p \o q)[i] = IF i <= j - 1 THEN p[i] ELSE q[i - (j - 1)]
  <2>1. Len(p) + Len(q) = Len(s) - 1
    BY <1>1, <1>2, <1>3, <1>4
  <2>2. /\ p \o q \in Seq(T) /\ Len(p \o q) = Len(p) + Len(q)
        /\ \A i \in 1..(Len(p) + Len(q)) :
              (p \o q)[i] = IF i <= Len(p) THEN p[i] ELSE q[i - Len(p)]
    BY <1>2, <1>3, ConcatProperties
  <2> QED
    BY <1>2, <2>1, <2>2
<1>6. ASSUME NEW i \in 1..(Len(s) - 1)
      PROVE  (p \o q)[i] = IF i < j THEN s[i] ELSE s[i + 1]
  <2>1. CASE i < j
    BY <1>1, <1>2, <1>4, <1>5, <2>1
  <2>2. CASE ~(i < j)
    <3>1. i - (j - 1) \in 1..(Len(s) - j) /\ (i - (j - 1)) + j = i + 1
      BY <1>1, <1>4, <2>2
    <3>2. (p \o q)[i] = q[i - (j - 1)]
      BY <1>1, <1>4, <1>5, <2>2
    <3> QED
      BY <1>3, <2>2, <3>1, <3>2
  <2> QED
    BY <2>1, <2>2
<1> QED
  BY <1>4, <1>5, <1>6

(* indexOf finds the only place of an element in a list that holds each once. *)
LEMMA RemovedFirst ==
    ASSUME NEW T, NEW s \in Seq(T), IsInjective(s), NEW j \in 1..Len(s)
    PROVE  RemoveFirst(s, s[j]) = RemoveAt(s, j)
<1>1. Len(s) \in Nat /\ DOMAIN s = 1..Len(s)
  OBVIOUS
<1>2. {i \in 1..Len(s) : s[i] = s[j]} = {j}
  BY <1>1 DEF IsInjective
<1>3. Min({j}) = j
  BY <1>1 DEF Min
<1> QED
  BY <1>2, <1>3 DEF RemoveFirst, SelectInSeq

(* What indexOf and splice leave of a list that holds each element once. *)
LEMMA FirstRemoved ==
    ASSUME NEW T, NEW s \in Seq(T), IsInjective(s), NEW e
    PROVE  /\ RemoveFirst(s, e) \in Seq(T) /\ IsInjective(RemoveFirst(s, e))
           /\ ToSet(RemoveFirst(s, e)) = ToSet(s) \ {e}
<1>1. Len(s) \in Nat /\ DOMAIN s = 1..Len(s)
  OBVIOUS
<1>2. CASE ~ \E i \in 1..Len(s) : s[i] = e
  <2>1. RemoveFirst(s, e) = s
    BY <1>2 DEF RemoveFirst
  <2> QED
    BY <1>1, <1>2, <2>1 DEF ToSet
<1>3. ASSUME NEW j \in 1..Len(s), s[j] = e PROVE RemoveFirst(s, e) = RemoveAt(s, j)
  BY <1>3, RemovedFirst
<1>4. ASSUME NEW j \in 1..Len(s), s[j] = e
      PROVE  /\ RemoveAt(s, j) \in Seq(T) /\ IsInjective(RemoveAt(s, j))
             /\ ToSet(RemoveAt(s, j)) = ToSet(s) \ {e}
  <2> DEFINE r == RemoveAt(s, j)
  <2>1. /\ r \in Seq(T) /\ DOMAIN r = 1..(Len(s) - 1) /\ j \in Nat
        /\ \A i \in 1..(Len(s) - 1) : r[i] = IF i < j THEN s[i] ELSE s[i + 1]
    BY RemovedAt
  <2> HIDE DEF r
  <2>2. IsInjective(r)
    <3> DEFINE at(i) == IF i < j THEN i ELSE i + 1
    <3>1. \A i \in 1..(Len(s) - 1) : at(i) \in 1..Len(s) /\ r[i] = s[at(i)]
      BY <1>1, <2>1
    <3>2. \A i, h \in 1..(Len(s) - 1) : at(i) = at(h) => i = h
      BY <1>1, <2>1
    <3> HIDE DEF at
    <3> QED
      BY <1>1, <2>1, <3>1, <3>2 DEF IsInjective
  <2>3. ASSUME NEW x \in ToSet(r) PROVE x \in ToSet(s) \ {e}
    <3>1. PICK i \in 1..(Len(s) - 1) : x = r[i]
      BY <2>1, <2>3 DEF ToSet
    <3>2. PICK h \in 1..Len(s) : x = s[h] /\ h # j
      BY <1>1, <2>1, <3>1
    <3> QED
      BY <1>1, <1>4, <3>2 DEF ToSet, IsInjective
  <2>4. ASSUME NEW x \in ToSet(s) \ {e} PROVE x \in ToSet(r)
    <3>1. PICK h \in 1..Len(s) : x = s[h] /\ h # j
      BY <1>1, <1>4, <2>4 DEF ToSet
    <3>2. PICK i \in 1..(Len(s) - 1) : x = r[i]
      <4>1. CASE h < j
        BY <1>1, <2>1, <3>1, <4>1
      <4>2. CASE h > j
        <5>1. h - 1 \in 1..(Len(s) - 1) /\ ~(h - 1 < j) /\ (h - 1) + 1 = h
          BY <1>1, <2>1, <4>2
        <5> QED
          BY <2>1, <3>1, <5>1
      <4> QED
        BY <1>1, <2>1, <3>1, <4>1, <4>2
    <3> QED
      BY <2>1, <3>2 DEF ToSet
  <2> QED
    BY <2>1, <2>2, <2>3, <2>4 DEF r
<1> QED
  BY <1>2, <1>3, <1>4

(* A new element put behind the others. *)
LEMMA Appended ==
    ASSUME NEW T, NEW s \in Seq(T), IsInjective(s), NEW e \in T, e \notin ToSet(s)
    PROVE  /\ Append(s, e) \in Seq(T) /\ IsInjective(Append(s, e))
           /\ ToSet(Append(s, e)) = ToSet(s) \cup {e}
<1> DEFINE r == Append(s, e)
<1>1. /\ r \in Seq(T) /\ DOMAIN r = 1..(Len(s) + 1) /\ DOMAIN s = 1..Len(s) /\ Len(s) \in Nat
      /\ r[Len(s) + 1] = e /\ \A i \in 1..Len(s) : r[i] = s[i]
  OBVIOUS
<1> HIDE DEF r
<1>2. IsInjective(r)
  BY <1>1 DEF IsInjective, ToSet
<1>3. ToSet(r) = ToSet(s) \cup {e}
  BY <1>1 DEF ToSet
<1> QED
  BY <1>1, <1>2, <1>3 DEF r

(* The first n elements, and the others. *)
LEMMA Cut ==
    ASSUME NEW T, NEW s \in Seq(T), IsInjective(s), NEW n \in 0..Len(s)
    PROVE  /\ SubSeq(s, 1, n) \in Seq(T) /\ IsInjective(SubSeq(s, 1, n))
           /\ ToSet(SubSeq(s, 1, n)) = {s[i] : i \in 1..n}
           /\ SubSeq(s, n + 1, Len(s)) \in Seq(T) /\ IsInjective(SubSeq(s, n + 1, Len(s)))
           /\ ToSet(SubSeq(s, n + 1, Len(s))) = {s[i] : i \in (n + 1)..Len(s)}
           /\ n = 0 => SubSeq(s, 1, n) = <<>>
           /\ n = Len(s) => SubSeq(s, n + 1, Len(s)) = <<>>
<1>1. Len(s) \in Nat /\ DOMAIN s = 1..Len(s)
  OBVIOUS
<1> DEFINE p == SubSeq(s, 1, n)
           q == SubSeq(s, n + 1, Len(s))
<1>2. p \in Seq(T) /\ DOMAIN p = 1..n /\ \A i \in 1..n : p[i] = s[i]
  BY <1>1
<1>3. /\ q \in Seq(T) /\ DOMAIN q = 1..(Len(s) - n)
      /\ \A i \in 1..(Len(s) - n) : q[i] = s[i + n]
  BY <1>1
<1>4. (n = 0 => p = <<>>) /\ (n = Len(s) => q = <<>>)
  <2>1. ASSUME n = 0 PROVE p = <<>>
    BY <2>1, SubSeqEmpty
  <2>2. ASSUME n = Len(s) PROVE q = <<>>
    <3>1. n + 1 \in Int /\ Len(s) \in Int /\ Len(s) < n + 1
      BY <1>1, <2>2
    <3> QED
      BY <3>1, SubSeqEmpty
  <2> QED
    BY <2>1, <2>2
<1> HIDE DEF p, q
<1>5. IsInjective(p) /\ ToSet(p) = {s[i] : i \in 1..n}
  BY <1>1, <1>2 DEF IsInjective, ToSet
<1>6. IsInjective(q)
  <2>1. \A i \in 1..(Len(s) - n) : i + n \in 1..Len(s)
    BY <1>1
  <2>2. \A i, j \in 1..(Len(s) - n) : i + n = j + n => i = j
    BY <1>1
  <2>3. ASSUME NEW i \in 1..(Len(s) - n), NEW j \in 1..(Len(s) - n), q[i] = q[j] PROVE i = j
    <3>1. s[i + n] = s[j + n]
      BY <1>3, <2>3
    <3>2. i + n = j + n
      BY <1>1, <2>1, <3>1 DEF IsInjective
    <3> QED
      BY <2>2, <3>2
  <2> QED
    BY <1>3, <2>3 DEF IsInjective
<1>7. ToSet(q) = {s[i] : i \in (n + 1)..Len(s)}
  <2>1. ASSUME NEW x \in ToSet(q) PROVE x \in {s[i] : i \in (n + 1)..Len(s)}
    <3>1. PICK i \in 1..(Len(s) - n) : x = s[i + n]
      BY <1>3, <2>1 DEF ToSet
    <3>2. i + n \in (n + 1)..Len(s)
      BY <1>1
    <3> QED
      BY <3>1, <3>2
  <2>2. ASSUME NEW i \in (n + 1)..Len(s) PROVE s[i] \in ToSet(q)
    <3>1. i - n \in 1..(Len(s) - n) /\ (i - n) + n = i
      BY <1>1
    <3>2. q[i - n] = s[i]
      BY <1>3, <3>1
    <3> QED
      BY <1>3, <3>1, <3>2 DEF ToSet
  <2> QED
    BY <2>1, <2>2
<1> QED
  BY <1>2, <1>3, <1>4, <1>5, <1>6, <1>7 DEF p, q

(* A new element put in front of the others. *)
LEMMA Prepended ==
    ASSUME NEW T, NEW s \in Seq(T), IsInjective(s), NEW e \in T, e \notin ToSet(s)
    PROVE  /\ <<e>> \o s \in Seq(T) /\ IsInjective(<<e>> \o s)
           /\ ToSet(<<e>> \o s) = ToSet(s) \cup {e}
<1> DEFINE r == <<e>> \o s
<1>1. /\ r \in Seq(T) /\ DOMAIN r = 1..(Len(s) + 1) /\ DOMAIN s = 1..Len(s) /\ Len(s) \in Nat
      /\ r[1] = e /\ \A i \in 1..Len(s) : r[i + 1] = s[i]
  OBVIOUS
<1> HIDE DEF r
<1>2. \A i \in DOMAIN r : i = 1 \/ \E j \in 1..Len(s) : i = j + 1 /\ r[i] = s[j]
  <2>1. \A i \in 1..(Len(s) + 1) : i = 1 \/ (i - 1 \in 1..Len(s) /\ i = (i - 1) + 1)
    BY <1>1
  <2> QED
    BY <1>1, <2>1
<1>3. IsInjective(r)
  <2> SUFFICES ASSUME NEW i \in DOMAIN r, NEW j \in DOMAIN r, r[i] = r[j] PROVE i = j
    BY DEF IsInjective
  <2>1. \A h \in 1..Len(s) : s[h] # e
    BY <1>1 DEF ToSet
  <2>2. \A g, h \in 1..Len(s) : s[g] = s[h] => g = h
    BY <1>1 DEF IsInjective
  <2> QED
    BY <1>1, <1>2, <2>1, <2>2
<1>4. ToSet(r) = ToSet(s) \cup {e}
  <2>1. ASSUME NEW x \in ToSet(r) PROVE x \in ToSet(s) \cup {e}
    <3>1. PICK i \in DOMAIN r : x = r[i]
      BY <2>1 DEF ToSet
    <3>2. CASE i = 1
      BY <1>1, <3>1, <3>2
    <3>3. CASE i # 1
      <4>1. PICK j \in 1..Len(s) : r[i] = s[j]
        BY <1>2, <3>3
      <4> QED
        BY <1>1, <3>1, <4>1 DEF ToSet
    <3> QED
      BY <3>2, <3>3
  <2>2. ASSUME NEW x \in ToSet(s) PROVE x \in ToSet(r)
    <3>1. PICK j \in 1..Len(s) : x = s[j]
      BY <1>1, <2>2 DEF ToSet
    <3>2. j + 1 \in DOMAIN r /\ r[j + 1] = x
      BY <1>1, <3>1
    <3> QED
      BY <3>2 DEF ToSet
  <2>3. 1 \in DOMAIN r
    BY <1>1
  <2>4. e \in ToSet(r)
    BY <1>1, <2>3 DEF ToSet
  <2> QED
    BY <2>1, <2>2, <2>4
<1> QED
  BY <1>1, <1>3, <1>4 DEF r

(* The last element is taken off. *)
LEMMA LastDropped ==
    ASSUME NEW T, NEW s \in Seq(T), IsInjective(s), s # <<>>
    PROVE  /\ Front(s) \in Seq(T) /\ IsInjective(Front(s)) /\ Last(s) \in ToSet(s)
           /\ ToSet(Front(s)) = ToSet(s) \ {Last(s)}
<1> DEFINE n == Len(s)
<1>1. n \in Nat \ {0} /\ DOMAIN s = 1..n /\ n - 1 \in 0..Len(s)
  OBVIOUS
<1>2. Front(s) = SubSeq(s, 1, n - 1) /\ Last(s) = s[n]
  BY DEF Front, Last
<1>3. /\ Front(s) \in Seq(T) /\ IsInjective(Front(s))
      /\ ToSet(Front(s)) = {s[i] : i \in 1..(n - 1)}
  BY <1>1, <1>2, Cut
<1>4. {s[i] : i \in 1..(n - 1)} = ToSet(s) \ {s[n]}
  <2> HIDE DEF n
  <2>1. \A i \in 1..n : i # n <=> i \in 1..(n - 1)
    BY <1>1
  <2>2. \A i \in 1..n : s[i] = s[n] => i = n
    BY <1>1 DEF IsInjective
  <2>3. 1..(n - 1) \subseteq 1..n
    BY <1>1
  <2> QED
    BY <1>1, <2>1, <2>2, <2>3 DEF ToSet
<1>5. Last(s) \in ToSet(s)
  BY <1>1, <1>2 DEF ToSet
<1> QED
  BY <1>2, <1>3, <1>4, <1>5, Zenon

(* A list without repetition is as long as the set of its members is large. *)
LEMMA LengthCounts ==
    ASSUME NEW T, NEW s \in Seq(T), IsInjective(s)
    PROVE  IsFiniteSet(ToSet(s)) /\ Cardinality(ToSet(s)) = Len(s)
<1>1. Len(s) \in Nat /\ DOMAIN s = 1..Len(s) /\ s \in [1..Len(s) -> ToSet(s)]
  BY DEF ToSet
<1>2. s \in Bijection(1..Len(s), ToSet(s))
  BY <1>1 DEF Bijection, Injection, Surjection, IsInjective, ToSet
<1>3. ExistsBijection(1..Len(s), ToSet(s))
  BY <1>2 DEF ExistsBijection
<1> QED
  BY <1>1, <1>3, FS_CountingElements, FS_NatBijection

(* A sum over the places of a list is one over its members. *)
LEMMA TotalReindexed ==
    ASSUME NEW T, NEW s \in Seq(T), IsInjective(s), NEW f, NEW g,
           \A i \in DOMAIN s : f[s[i]] \in Nat /\ g[i] = f[s[i]]
    PROVE  Total(g, DOMAIN s) = Total(f, ToSet(s))
<1> DEFINE In(n) == {s[i] : i \in 1..n}
           U == {n \in Nat : n <= Len(s) => Total(g, 1..n) = Total(f, In(n))}
<1>1. Len(s) \in Nat /\ DOMAIN s = 1..Len(s)
  OBVIOUS
<1>2. 0 \in U
  <2>1. 1..0 = {} /\ In(0) = {}
    OBVIOUS
  <2> QED
    BY <2>1, TotalEmpty
<1>3. ASSUME NEW n \in U PROVE n + 1 \in U
  <2> SUFFICES ASSUME n + 1 <= Len(s) PROVE Total(g, 1..(n + 1)) = Total(f, In(n + 1))
    OBVIOUS
  <2>1. n \in Nat /\ n <= Len(s) /\ n + 1 \in 1..Len(s)
    BY <1>1
  <2>2. Total(g, 1..n) = Total(f, In(n))
    BY <2>1
  <2>3. \A i \in 1..(n + 1) : i \in DOMAIN s /\ (i # n + 1 <=> i \in 1..n)
    BY <1>1, <2>1
  <2>4. (1..(n + 1)) \ {n + 1} = 1..n /\ n + 1 \in 1..(n + 1)
    BY <2>1
  <2>5. In(n + 1) \ {s[n + 1]} = In(n) /\ s[n + 1] \in In(n + 1)
    <3>1. \A i \in 1..(n + 1) : s[i] = s[n + 1] => i = n + 1
      BY <2>3, <2>4 DEF IsInjective
    <3>2. 1..n \subseteq 1..(n + 1)
      BY <2>4
    <3> QED
      BY <2>3, <2>4, <3>1, <3>2
  <2>6. Summable(g, 1..(n + 1))
    <3>1. IsFiniteSet(1..(n + 1))
      BY <2>1, FS_Interval
    <3>2. \A i \in 1..(n + 1) : g[i] \in Nat
      BY <2>3
    <3> QED
      BY <3>1, <3>2 DEF Summable
  <2>7. Summable(f, In(n + 1))
    <3>1. In(n + 1) \subseteq ToSet(s)
      BY <2>3 DEF ToSet
    <3>2. IsFiniteSet(In(n + 1))
      BY <3>1, LengthCounts, FS_Subset
    <3> QED
      BY <2>3, <3>2 DEF Summable
  <2>8. g[n + 1] = f[s[n + 1]]
    BY <1>1, <2>1
  <2> HIDE DEF In
  <2> HIDE DEF U
  <2>9. Total(g, 1..(n + 1)) = g[n + 1] + Total(g, (1..(n + 1)) \ {n + 1})
    BY <2>4, <2>6, TotalRemove
  <2>10. Total(f, In(n + 1)) = f[s[n + 1]] + Total(f, In(n + 1) \ {s[n + 1]})
    BY <2>5, <2>7, TotalRemove
  <2> QED
    BY <2>2, <2>4, <2>5, <2>8, <2>9, <2>10, Zenon
<1>4. U = Nat
  <2>1. U \in SUBSET Nat
    OBVIOUS
  <2> HIDE DEF U
  <2> QED
    BY <1>2, <1>3, <2>1, NatClosed
<1>5. Total(g, 1..Len(s)) = Total(f, In(Len(s)))
  <2> HIDE DEF In
  <2>1. Len(s) \in U
    BY <1>1, <1>4
  <2> QED
    BY <1>1, <2>1
<1>6. In(Len(s)) = ToSet(s)
  BY <1>1 DEF ToSet
<1> QED
  BY <1>1, <1>5, <1>6

(* init lists each worker once. *)
LEMMA Listed ==
    ASSUME NEW S, IsFiniteSet(S)
    PROVE  /\ SetToSeq(S) \in Seq(S) /\ IsInjective(SetToSeq(S)) /\ ToSet(SetToSeq(S)) = S
<1> DEFINE n == Cardinality(S)
<1>1. n \in Nat /\ ExistsBijection(1..n, S)
  BY FS_CardinalityType
<1>2. PICK f \in [1..n -> S] : IsInjective(f)
  BY <1>1 DEF ExistsBijection, Bijection, Injection
<1> DEFINE g == SetToSeq(S)
<1>3. g \in [1..n -> S] /\ IsInjective(g)
  BY <1>2 DEF SetToSeq
<1> HIDE DEF g
<1>4. g \in Seq(S) /\ DOMAIN g = 1..n
  BY <1>1, <1>3
<1>5. g \in Surjection(1..n, S)
  <2>1. IsFiniteSet(1..n) /\ Cardinality(1..n) = Cardinality(S)
    BY <1>1, FS_Bijection, FS_Interval
  <2>2. g \in Injection(1..n, S)
    BY <1>3 DEF Injection
  <2> QED
    BY <2>1, <2>2, FS_Injection
<1>6. ToSet(g) = S
  BY <1>4, <1>5 DEF ToSet, Surjection
<1> QED
  BY <1>3, <1>4, <1>6 DEF g

=============================================================================
