------------------------------ MODULE FoldProofs ------------------------------
(***************************************************************************)
(* Induction over finite data, for what folds over sequences and sets      *)
(* compute.  The library's induction theorems take a predicate; here a set *)
(* stands for it, which the provers can instantiate.                       *)
(***************************************************************************)
EXTENDS SequencesExt, FiniteSetTheorems, WellFoundedInduction, TLAPS

(* A set of finite sets has a smallest one.                                *)
LEMMA SmallestSet ==
  ASSUME NEW S, NEW T, T \subseteq FiniteSubsetsOf(S), T # {}
  PROVE  \E x \in T : \A y \in T : y \subseteq x => y = x
<1> DEFINE R == StrictSubsetOrdering(S)
<1>1. IsWellFoundedOn(R, FiniteSubsetsOf(S))
  BY FS_StrictSubsetOrderingWellFounded
<1>2. PICK x \in T : \A y \in T : ~ (<<y, x>> \in R)
  <2> HIDE DEF R
  <2> QED BY <1>1, WFMin
<1> QED
  BY <1>2 DEF StrictSubsetOrdering, FiniteSubsetsOf

(* Induction over the subsets of a finite set.                             *)
LEMMA SubsetInduction ==
  ASSUME NEW D, IsFiniteSet(D), NEW P, P \subseteq SUBSET D,
         \A s \in SUBSET D : (\A t \in SUBSET s : t # s => t \in P) => s \in P
  PROVE  P = SUBSET D
<1> SUFFICES ASSUME P # SUBSET D PROVE FALSE
  OBVIOUS
<1> DEFINE T == (SUBSET D) \ P
<1>1. T \subseteq FiniteSubsetsOf(D) /\ T # {}
  BY FS_FiniteSubsetsOfFinite
<1>2. PICK x \in T : \A y \in T : y \subseteq x => y = x
  <2> HIDE DEF T
  <2> QED BY <1>1, SmallestSet
<1>3. \A t \in SUBSET x : t # x => t \in P
  BY <1>2
<1> QED
  BY <1>2, <1>3

(* Induction up to a bound.                                                *)
LEMMA IntervalInduction ==
  ASSUME NEW n \in Nat, NEW P, P \subseteq 0 .. n, 0 \in P,
         \A k \in P : k < n => k + 1 \in P
  PROVE  P = 0 .. n
<1> DEFINE Q == {s \in SUBSET (1 .. n) : \A k \in 0 .. n : s = 1 .. k => k \in P}
<1>1. IsFiniteSet(1 .. n)
  BY FS_Interval
<1>2. ASSUME NEW s \in SUBSET (1 .. n), \A t \in SUBSET s : t # s => t \in Q
      PROVE  s \in Q
  <2>1. SUFFICES ASSUME NEW k \in 0 .. n, s = 1 .. k
                 PROVE  k \in P
    OBVIOUS
  <2>2. CASE k = 0
    BY <2>2
  <2>3. CASE k # 0
    <3>1. 1 .. k - 1 \in SUBSET s /\ 1 .. k - 1 # s /\ k - 1 \in 0 .. n
      BY <2>1, <2>3
    <3>2. k - 1 \in P
      BY <1>2, <3>1
    <3> QED
      BY <3>2, <2>3
  <2> QED
    BY <2>2, <2>3
<1>3. Q = SUBSET (1 .. n)
  <2> HIDE DEF Q
  <2>1. Q \subseteq SUBSET (1 .. n)
    BY DEF Q
  <2> QED
    BY <1>1, <1>2, <2>1, SubsetInduction
<1>4. ASSUME NEW k \in 0 .. n PROVE k \in P
  <2>1. 1 .. k \in SUBSET (1 .. n)
    OBVIOUS
  <2>2. 1 .. k \in Q
    <3> HIDE DEF Q
    <3> QED BY <1>3, <2>1
  <2> QED
    BY <2>2
<1> QED
  BY <1>4

-----------------------------------------------------------------------------
(* What the definition of a fold over the subsets of D says of f, and that *)
(* it defines f: op is applied to what the rest folds to and an element.   *)
FoldsOver(f, D, V, base, op, first) ==
  /\ f \in [SUBSET D -> V]
  /\ \A s \in SUBSET D :
        f[s] = IF s = {} THEN base ELSE op[first[s]][f[s \ {first[s]}]]

LEMMA FoldsAgree ==
  ASSUME NEW D, IsFiniteSet(D), NEW V, NEW base, NEW op, NEW E,
         NEW first, \A s \in SUBSET D : s # {} => first[s] \in s,
         NEW f, NEW g, NEW C \in SUBSET D, NEW B \in SUBSET C,
         FoldsOver(f, C, V, base, op, first), FoldsOver(g, B, V, base, op, first)
  PROVE  \A s \in SUBSET B : f[s] = g[s]
<1> DEFINE P == {s \in SUBSET B : f[s] = g[s]}
<1>1. ASSUME NEW s \in SUBSET B, \A t \in SUBSET s : t # s => t \in P
      PROVE  s \in P
  <2>1. CASE s = {}
    BY <2>1 DEF FoldsOver
  <2>2. CASE s # {}
    <3>1. first[s] \in s
      BY <2>2
    <3>2. s \ {first[s]} \in P
      BY <3>1, <1>1
    <3>3. s \in SUBSET C
      OBVIOUS
    <3> QED
      BY <2>2, <3>2, <3>3 DEF FoldsOver
  <2> QED
    BY <2>1, <2>2
<1>2. IsFiniteSet(B)
  BY FS_Subset
<1>3. P = SUBSET B
  <2> HIDE DEF P
  <2>1. P \subseteq SUBSET B
    BY DEF P
  <2> QED
    BY <1>1, <1>2, <2>1, SubsetInduction
<1> QED
  BY <1>3

LEMMA FoldsExist ==
  ASSUME NEW D, IsFiniteSet(D), NEW V, NEW base \in V,
         NEW op \in [D -> [V -> V]],
         NEW first, \A s \in SUBSET D : s # {} => first[s] \in s
  PROVE  \E f : FoldsOver(f, D, V, base, op, first)
<1> DEFINE Is(f, B) == FoldsOver(f, B, V, base, op, first)
           F(B) == CHOOSE f : Is(f, B)
           P == {s \in SUBSET D : \E f : Is(f, s)}
<1>1. ASSUME NEW s \in SUBSET D, \A t \in SUBSET s : t # s => t \in P
      PROVE  s \in P
  <2> DEFINE rest(u) == u \ {first[u]}
             g == [u \in SUBSET s |-> IF u = {} THEN base ELSE op[first[u]][F(rest(u))[rest(u)]]]
  <2>1. ASSUME NEW u \in SUBSET s, u # {}
        PROVE  first[u] \in u /\ rest(u) \in SUBSET s /\ rest(u) # s /\ Is(F(rest(u)), rest(u))
    <3>1. first[u] \in u
      BY <2>1
    <3>2. rest(u) \in SUBSET s /\ rest(u) # s
      BY <3>1
    <3>3. \E f : Is(f, rest(u))
      BY <3>2, <1>1
    <3>4. Is(F(rest(u)), rest(u))
      <4> HIDE DEF Is
      <4> QED BY <3>3
    <3> QED
      BY <3>1, <3>2, <3>4
  <2> HIDE DEF F
  <2>2. ASSUME NEW u \in SUBSET s, u # {}
        PROVE  /\ F(rest(u))[rest(u)] \in V
               /\ op[first[u]][F(rest(u))[rest(u)]] \in V
    <3>0. Is(F(rest(u)), rest(u))
      BY <2>1, <2>2
    <3>1. F(rest(u))[rest(u)] \in V
      <4> HIDE DEF rest
      <4>1. F(rest(u)) \in [SUBSET rest(u) -> V]
        BY <3>0 DEF FoldsOver
      <4> QED BY <4>1
    <3>2. first[u] \in D
      BY <2>1, <2>2
    <3> QED
      BY <3>1, <3>2
  <2>3. g \in [SUBSET s -> V]
    BY <2>2
  <2>4. ASSUME NEW u \in SUBSET s, u # {}
        PROVE  g[rest(u)] = F(rest(u))[rest(u)]
    <3> DEFINE v == rest(u)
    <3>0. v \in SUBSET s /\ Is(F(v), v)
      BY <2>1, <2>4
    <3> HIDE DEF v
    <3>1. CASE v = {}
      <4>1. F(v)[v] = base
        BY <3>0, <3>1 DEF FoldsOver
      <4> QED
        BY <4>1, <3>1 DEF v
    <3>2. CASE v # {}
      <4>1. first[v] \in v /\ rest(v) \in SUBSET v /\ Is(F(rest(v)), rest(v))
        BY <2>1, <3>0, <3>2
      <4>2. F(v)[rest(v)] = F(rest(v))[rest(v)]
        <5>1. \A w \in SUBSET rest(v) : F(v)[w] = F(rest(v))[w]
          <6> HIDE DEF F, rest
          <6>1. v \in SUBSET D
            BY <3>0
          <6> QED BY <3>0, <4>1, <6>1, FoldsAgree
        <5> QED BY <5>1
      <4>3. F(v)[v] = op[first[v]][F(v)[rest(v)]]
        BY <3>0, <3>2 DEF FoldsOver
      <4> QED
        BY <4>2, <4>3, <3>0, <3>2 DEF v
    <3> QED
      BY <3>1, <3>2
  <2>5. \A u \in SUBSET s : g[u] = IF u = {} THEN base ELSE op[first[u]][g[rest(u)]]
    BY <2>4
  <2>6. Is(g, s)
    <3> HIDE DEF g
    <3> QED BY <2>3, <2>5 DEF FoldsOver
  <2> QED
    BY <2>6
<1>2. P = SUBSET D
  <2> HIDE DEF P
  <2>1. P \subseteq SUBSET D
    BY DEF P
  <2> QED
    BY <1>1, <2>1, SubsetInduction
<1> QED
  BY <1>2

-----------------------------------------------------------------------------
(* Sums.  The definition of a sum picks the elements in some order; the    *)
(* order does not matter.                                                  *)
Picked(s) == CHOOSE x \in s : TRUE

SumEquation(h, D, g) ==
  h = [s \in SUBSET D |-> IF s = {} THEN 0 ELSE g[Picked(s)] + h[s \ {Picked(s)}]]

SumsOver(h, D, g) ==
  /\ h \in [SUBSET D -> Int]
  /\ h[{}] = 0
  /\ \A s \in SUBSET D : \A x \in s : h[s] = g[x] + h[s \ {x}]

LEMMA SumExists ==
  ASSUME NEW D, IsFiniteSet(D), NEW g \in [D -> Int]
  PROVE  \E h : SumEquation(h, D, g)
<1> DEFINE op == [x \in D |-> [v \in Int |-> g[x] + v]]
           first == [s \in SUBSET D |-> Picked(s)]
<1>1. op \in [D -> [Int -> Int]] /\ 0 \in Int
  OBVIOUS
<1>2. \A s \in SUBSET D : s # {} => first[s] \in s
  BY DEF Picked
<1>3. PICK h : FoldsOver(h, D, Int, 0, op, first)
  <2> HIDE DEF op, first
  <2> QED BY <1>1, <1>2, FoldsExist
<1>4. \A s \in SUBSET D : first[s] = Picked(s)
  OBVIOUS
<1>5. \A s \in SUBSET D :
         h[s] = IF s = {} THEN 0 ELSE g[Picked(s)] + h[s \ {Picked(s)}]
  <2>1. SUFFICES ASSUME NEW s \in SUBSET D, s # {}
                 PROVE  h[s] = g[Picked(s)] + h[s \ {Picked(s)}]
    BY <1>3 DEF FoldsOver
  <2>2. h[s] = op[first[s]][h[s \ {first[s]}]] /\ h[s \ {first[s]}] \in Int
    <3> HIDE DEF op, first
    <3> QED BY <1>3, <2>1 DEF FoldsOver
  <2>3. first[s] \in D
    BY <1>2, <2>1
  <2>4. op[first[s]][h[s \ {first[s]}]] = g[first[s]] + h[s \ {first[s]}]
    <3> HIDE DEF first
    <3> QED BY <2>2, <2>3
  <2> QED
    BY <2>2, <2>4, <1>4
<1>6. h \in [SUBSET D -> Int]
  BY <1>3 DEF FoldsOver
<1> QED
  BY <1>5, <1>6 DEF SumEquation

LEMMA SumIsSum ==
  ASSUME NEW D, IsFiniteSet(D), NEW g \in [D -> Int], NEW h, SumEquation(h, D, g)
  PROVE  SumsOver(h, D, g)
<1> DEFINE P == {s \in SUBSET D : /\ h[s] \in Int
                                  /\ \A x \in s : h[s] = g[x] + h[s \ {x}]}
<1>1. \A s \in SUBSET D :
         h[s] = IF s = {} THEN 0 ELSE g[Picked(s)] + h[s \ {Picked(s)}]
  BY DEF SumEquation
<1>2. ASSUME NEW s \in SUBSET D, \A t \in SUBSET s : t # s => t \in P
      PROVE  s \in P
  <2>1. CASE s = {}
    <3>1. h[{}] = 0
      BY <1>1
    <3> QED
      BY <2>1, <3>1
  <2>2. CASE s # {}
    <3> DEFINE y == Picked(s)
    <3>1. y \in s
      BY <2>2 DEF Picked
    <3>2. h[s] = g[y] + h[s \ {y}]
      BY <1>1, <2>2
    <3> HIDE DEF y
    <3>3. s \ {y} \in P
      BY <3>1, <1>2
    <3>4. ASSUME NEW x \in s, x # y PROVE h[s] = g[x] + h[s \ {x}]
      <4>1. s \ {x} \in P
        BY <1>2
      <4>2. h[s \ {y}] = g[x] + h[(s \ {y}) \ {x}] /\ h[s \ {x}] = g[y] + h[(s \ {x}) \ {y}]
        BY <4>1, <3>3, <3>1, <3>4
      <4>3. (s \ {y}) \ {x} = (s \ {x}) \ {y} /\ (s \ {x}) \ {y} \in P
        BY <1>2, <3>1
      <4>4. h[(s \ {x}) \ {y}] \in Int /\ g[x] \in Int /\ g[y] \in Int
        BY <4>3, <3>1
      <4>5. /\ h[s \ {y}] = g[x] + h[(s \ {x}) \ {y}]
            /\ h[s \ {x}] = g[y] + h[(s \ {x}) \ {y}]
        BY <4>2, <4>3
      <4> QED
        BY <3>2, <4>5, <4>4
    <3>5. h[s] \in Int
      BY <3>1, <3>2, <3>3
    <3> QED
      BY <3>2, <3>4, <3>5
  <2> QED
    BY <2>1, <2>2
<1>3. P = SUBSET D
  <2> HIDE DEF P
  <2>1. P \subseteq SUBSET D
    BY DEF P
  <2> QED
    BY <1>2, <2>1, SubsetInduction
<1>4. h \in [SUBSET D -> Int]
  BY <1>3 DEF SumEquation
<1>5. h[{}] = 0
  BY <1>1
<1> QED
  BY <1>3, <1>4, <1>5 DEF SumsOver

(* Two sums over the same elements are equal.                              *)
LEMMA SumsAgree ==
  ASSUME NEW D, NEW g, NEW h, SumsOver(h, D, g),
         NEW E, NEW f, NEW k, SumsOver(k, E, f),
         NEW S \in SUBSET D, S \in SUBSET E, IsFiniteSet(S), \A x \in S : f[x] = g[x]
  PROVE  h[S] = k[S]
<1> DEFINE P == {s \in SUBSET S : h[s] = k[s]}
<1>1. ASSUME NEW s \in SUBSET S, \A t \in SUBSET s : t # s => t \in P
      PROVE  s \in P
  <2>1. CASE s = {}
    BY <2>1 DEF SumsOver
  <2>2. CASE s # {}
    <3>1. PICK x : x \in s
      BY <2>2
    <3>2. s \ {x} \in P
      BY <3>1, <1>1
    <3>3. s \in SUBSET D /\ s \in SUBSET E
      OBVIOUS
    <3>4. h[s] = g[x] + h[s \ {x}]
      BY <3>1, <3>3 DEF SumsOver
    <3>5. k[s] = f[x] + k[s \ {x}]
      BY <3>1, <3>3 DEF SumsOver
    <3> QED
      BY <3>1, <3>2, <3>4, <3>5
  <2> QED
    BY <2>1, <2>2
<1>2. P = SUBSET S
  <2> HIDE DEF P
  <2>1. P \subseteq SUBSET S
    BY DEF P
  <2> QED
    BY <1>1, <2>1, SubsetInduction
<1> QED
  BY <1>2

(* The sum over two sets that share nothing.                               *)
LEMMA SumSplit ==
  ASSUME NEW D, NEW g, NEW h, SumsOver(h, D, g), g \in [D -> Int],
         NEW A \in SUBSET D, NEW B \in SUBSET D, A \cap B = {}, IsFiniteSet(B)
  PROVE  h[A \cup B] = h[A] + h[B]
<1> DEFINE P == {s \in SUBSET B : h[A \cup s] = h[A] + h[s]}
<1>1. ASSUME NEW s \in SUBSET B, \A t \in SUBSET s : t # s => t \in P
      PROVE  s \in P
  <2>1. h \in [SUBSET D -> Int] /\ s \in SUBSET D /\ A \cup s \in SUBSET D
    BY DEF SumsOver
  <2>2. CASE s = {}
    <3>1. h[{}] = 0 /\ A \cup {} = A /\ h[A] \in Int
      BY <2>1 DEF SumsOver
    <3> QED
      BY <2>2, <3>1
  <2>3. CASE s # {}
    <3>1. PICK x : x \in s
      BY <2>3
    <3> DEFINE r == s \ {x}
    <3>2. r \in SUBSET s /\ r # s /\ r \in SUBSET D /\ A \cup r \in SUBSET D
      BY <3>1
    <3>3. h[A \cup r] = h[A] + h[r]
      BY <1>1, <3>2
    <3>4. (A \cup s) \ {x} = A \cup r
      BY <3>1
    <3>5. h[A \cup s] = g[x] + h[A \cup r] /\ h[s] = g[x] + h[r]
      <4>1. x \in A \cup s
        BY <3>1
      <4>2. h[A \cup s] = g[x] + h[(A \cup s) \ {x}]
        BY <2>1, <4>1 DEF SumsOver
      <4> QED
        BY <2>1, <3>1, <3>4, <4>2 DEF SumsOver
    <3>6. h[r] \in Int /\ h[A] \in Int /\ g[x] \in Int
      BY <2>1, <3>1, <3>2
    <3> HIDE DEF r
    <3>7. h[A \cup s] = h[A] + h[s]
      BY <3>3, <3>5, <3>6
    <3> QED
      BY <3>7
  <2> QED
    BY <2>2, <2>3
<1>2. P = SUBSET B
  <2> HIDE DEF P
  <2>1. P \subseteq SUBSET B
    BY DEF P
  <2> QED
    BY <1>1, <2>1, SubsetInduction
<1> QED
  BY <1>2

(* A sum of ones counts.                                                   *)
LEMMA SumCounts ==
  ASSUME NEW D, NEW g, NEW h, SumsOver(h, D, g),
         NEW S \in SUBSET D, IsFiniteSet(S), \A x \in S : g[x] = 1
  PROVE  h[S] = Cardinality(S)
<1> DEFINE P == {s \in SUBSET S : h[s] = Cardinality(s)}
<1>1. ASSUME NEW s \in SUBSET S, \A t \in SUBSET s : t # s => t \in P
      PROVE  s \in P
  <2>1. CASE s = {}
    <3>1. h[{}] = 0 /\ Cardinality({}) = 0
      BY FS_EmptySet DEF SumsOver
    <3> QED
      BY <2>1, <3>1
  <2>2. CASE s # {}
    <3>1. PICK x : x \in s
      BY <2>2
    <3>2. h[s \ {x}] = Cardinality(s \ {x})
      BY <1>1, <3>1
    <3>3. h[s] = 1 + h[s \ {x}]
      <4>1. s \in SUBSET D /\ g[x] = 1
        BY <3>1
      <4> QED
        BY <3>1, <4>1 DEF SumsOver
    <3>4. IsFiniteSet(s) /\ Cardinality(s) \in Nat /\ Cardinality(s \ {x}) = Cardinality(s) - 1
      <4>1. IsFiniteSet(s)
        BY FS_Subset
      <4> QED
        BY <3>1, <4>1, FS_RemoveElement, FS_CardinalityType
    <3> QED
      BY <3>2, <3>3, <3>4
  <2> QED
    BY <2>1, <2>2
<1>2. P = SUBSET S
  <2> HIDE DEF P
  <2>1. P \subseteq SUBSET S
    BY DEF P
  <2> QED
    BY <1>1, <2>1, SubsetInduction
<1> QED
  BY <1>2

(* The elements can be summed up group by group.                           *)
Group(S, key, x) == {d \in S : key[d] = x}

LEMMA SumByKey ==
  ASSUME NEW D, IsFiniteSet(D), NEW g \in [D -> Int], NEW h, SumsOver(h, D, g),
         NEW K, IsFiniteSet(K), NEW S \in SUBSET D, NEW key, \A d \in S : key[d] \in K,
         NEW E, NEW f, NEW k, SumsOver(k, E, f), K \in SUBSET E,
         \A x \in K : f[x] = h[Group(S, key, x)]
  PROVE  h[S] = k[K]
<1> DEFINE in(t) == {d \in S : key[d] \in t}
           P == {t \in SUBSET K : h[in(t)] = k[t]}
<1>1. ASSUME NEW t \in SUBSET K, \A u \in SUBSET t : u # t => u \in P
      PROVE  t \in P
  <2>1. CASE t = {}
    <3>1. in({}) = {} /\ h[{}] = 0 /\ k[{}] = 0
      BY DEF SumsOver
    <3> QED
      BY <2>1, <3>1
  <2>2. CASE t # {}
    <3>1. PICK x : x \in t
      BY <2>2
    <3> DEFINE u == t \ {x}
    <3>2. h[in(u)] = k[u]
      BY <1>1, <3>1
    <3>3. k[t] = f[x] + k[u]
      <4>1. t \in SUBSET E
        OBVIOUS
      <4> QED
        BY <3>1, <4>1 DEF SumsOver
    <3>4. in(t) = in(u) \cup Group(S, key, x) /\ in(u) \cap Group(S, key, x) = {}
      BY <3>1 DEF Group
    <3>5. in(u) \in SUBSET D /\ Group(S, key, x) \in SUBSET D /\ IsFiniteSet(Group(S, key, x))
      <4>1. Group(S, key, x) \in SUBSET D
        BY DEF Group
      <4> QED
        BY <4>1, FS_Subset
    <3> HIDE DEF in, u
    <3>6. h[in(t)] = h[in(u)] + h[Group(S, key, x)]
      BY <3>4, <3>5, SumSplit
    <3>7. h[in(u)] \in Int /\ h[Group(S, key, x)] \in Int
      BY <3>5 DEF SumsOver
    <3>8. f[x] = h[Group(S, key, x)]
      BY <3>1
    <3>9. h[in(t)] = k[t]
      BY <3>2, <3>3, <3>6, <3>7, <3>8
    <3> QED
      BY <3>9 DEF in
  <2> QED
    BY <2>1, <2>2
<1>2. P = SUBSET K
  <2> HIDE DEF P
  <2>1. P \subseteq SUBSET K
    BY DEF P
  <2> QED
    BY <1>1, <2>1, SubsetInduction
<1>3. in(K) = S
  OBVIOUS
<1>4. K \in P
  <2> HIDE DEF P
  <2> QED BY <1>2
<1> QED
  BY <1>3, <1>4

(* So can they be counted.                                                 *)
LEMMA CountByKey ==
  ASSUME NEW S, IsFiniteSet(S), NEW K, IsFiniteSet(K), NEW key, \A d \in S : key[d] \in K,
         NEW E, NEW f, NEW k, SumsOver(k, E, f), K \in SUBSET E,
         \A x \in K : f[x] = Cardinality(Group(S, key, x))
  PROVE  Cardinality(S) = k[K]
<1> DEFINE ones == [d \in S |-> 1]
<1>1. ones \in [S -> Int] /\ \A d \in S : ones[d] = 1
  OBVIOUS
<1> HIDE DEF ones
<1>2. PICK h : SumsOver(h, S, ones)
  BY <1>1, SumExists, SumIsSum
<1>3. \A s \in SUBSET S : h[s] = Cardinality(s)
  BY <1>1, <1>2, SumCounts, FS_Subset
<1>4. \A x \in K : f[x] = h[Group(S, key, x)]
  BY <1>3 DEF Group
<1>5. h[S] = k[K]
  BY <1>1, <1>2, <1>4, SumByKey
<1> QED
  BY <1>3, <1>5

-----------------------------------------------------------------------------
(* A set of indices has a last and a first one.                            *)
LEMMA LastIndex ==
  ASSUME NEW n \in Nat, NEW s \in SUBSET (1 .. n), s # {}
  PROVE  Max(s) \in s /\ \A y \in s : Max(s) >= y
<1> DEFINE Has(t) == \E x \in t : \A y \in t : x >= y
           P == {k \in 0 .. n : \A t \in SUBSET (1 .. k) : t # {} => Has(t)}
<1>1. 0 \in P
  <2>1. 1 .. 0 = {}
    OBVIOUS
  <2>2. \A t \in SUBSET (1 .. 0) : t # {} => Has(t)
    <3> HIDE DEF Has
    <3> QED BY <2>1
  <2> QED
    BY <2>2
<1>2. ASSUME NEW k \in P, k < n PROVE k + 1 \in P
  <2>1. SUFFICES ASSUME NEW t \in SUBSET (1 .. k + 1), t # {}
                 PROVE  Has(t)
    BY <1>2
  <2>2. CASE k + 1 \in t
    BY <2>2, <1>2
  <2>3. CASE k + 1 \notin t
    <3>1. t \in SUBSET (1 .. k)
      BY <2>3, <1>2
    <3> QED
      BY <3>1, <2>1
  <2> QED
    BY <2>2, <2>3
<1>3. P = 0 .. n
  <2> HIDE DEF P
  <2>1. P \subseteq 0 .. n
    BY DEF P
  <2> QED
    BY <1>1, <1>2, <2>1, IntervalInduction
<1>4. Has(s)
  <2>1. n \in P
    BY <1>3
  <2> QED
    BY <2>1
<1> QED
  BY <1>4 DEF Max

LEMMA FirstIndexIn ==
  ASSUME NEW n \in Nat, NEW s \in SUBSET (1 .. n), s # {}
  PROVE  Min(s) \in s /\ \A y \in s : Min(s) =< y
<1> DEFINE Has(t) == \E x \in t : \A y \in t : x =< y
           P == {k \in 0 .. n : \A t \in SUBSET (1 .. k) : t # {} => Has(t)}
<1>1. 0 \in P
  <2>1. 1 .. 0 = {}
    OBVIOUS
  <2>2. \A t \in SUBSET (1 .. 0) : t # {} => Has(t)
    <3> HIDE DEF Has
    <3> QED BY <2>1
  <2> QED
    BY <2>2
<1>2. ASSUME NEW k \in P, k < n PROVE k + 1 \in P
  <2>1. SUFFICES ASSUME NEW t \in SUBSET (1 .. k + 1), t # {}
                 PROVE  Has(t)
    BY <1>2
  <2>2. CASE t \subseteq {k + 1}
    BY <2>2, <2>1, <1>2
  <2>3. CASE ~ (t \subseteq {k + 1})
    <3> DEFINE u == t \ {k + 1}
    <3>1. u \in SUBSET (1 .. k) /\ u # {}
      BY <2>3, <1>2
    <3>2. PICK x \in u : \A y \in u : x =< y
      <4>1. Has(u)
        <5> HIDE DEF u
        <5> QED BY <3>1, <1>2
      <4> QED BY <4>1
    <3>3. x \in t /\ x =< k + 1
      BY <3>1, <3>2
    <3> QED
      BY <3>2, <3>3
  <2> QED
    BY <2>2, <2>3
<1>3. P = 0 .. n
  <2> HIDE DEF P
  <2>1. P \subseteq 0 .. n
    BY DEF P
  <2> QED
    BY <1>1, <1>2, <2>1, IntervalInduction
<1>4. Has(s)
  <2>1. n \in P
    BY <1>3
  <2> QED
    BY <2>1
<1> QED
  BY <1>4 DEF Min

(* The initial segments of an interval.                                    *)
LEMMA Segment ==
  ASSUME NEW n \in Nat, NEW k \in 1 .. n
  PROVE  /\ 1 .. k \in SUBSET (1 .. n) /\ 1 .. k # {}
         /\ Max(1 .. k) = k /\ (1 .. k) \ {k} = 1 .. k - 1
<1>1. \A i \in 1 .. k : i \in 1 .. n
  OBVIOUS
<1>2. 1 .. k \in SUBSET (1 .. n) /\ k \in 1 .. k
  BY <1>1
<1>3. Max(1 .. k) \in 1 .. k /\ Max(1 .. k) >= k
  BY <1>2, LastIndex
<1>4. Max(1 .. k) = k
  <2> DEFINE m == Max(1 .. k)
  <2>1. m \in 1 .. k /\ m >= k
    BY <1>3
  <2> HIDE DEF m
  <2>2. m = k
    BY <2>1
  <2> QED BY <2>2 DEF m
<1>5. (1 .. k) \ {k} = 1 .. k - 1
  OBVIOUS
<1> QED
  BY <1>2, <1>4, <1>5
=============================================================================
