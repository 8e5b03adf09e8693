----------------------------- MODULE SumTheorems -----------------------------
(***************************************************************************)
(* What the proofs need of finite sums: SumFunctionOnSet, which folds a    *)
(* set in an order nobody knows, adds up to zero over no element and to    *)
(* one value more with one element more, sums of sums, of disjoint sets    *)
(* and along injections.  The induction is over a set of naturals, which   *)
(* the well-foundedness of < gives.                                        *)
(***************************************************************************)
EXTENDS Integers, FiniteSets, Functions, FiniteSetTheorems, WellFoundedInduction,
        NaturalsInduction, TLAPS

\* < is well-founded on the naturals.
LEMMA LessIsWellFounded == IsWellFoundedOn({ss \in Nat \X Nat : ss[1] < ss[2]}, Nat)
BY NatLessThanWellFounded, Zenon DEF OpToRel

\* A set of naturals that is not empty has a least element.
LEMMA LeastExists ==
  ASSUME NEW Q \in SUBSET Nat, Q # {}
  PROVE  \E m \in Q : \A n \in Q : m <= n
<1> DEFINE R == {ss \in Nat \X Nat : ss[1] < ss[2]}
<1>1. \E m \in Q : \A n \in Q : ~ (<<n, m>> \in R)
  <2>1. IsWellFoundedOn(R, Nat)
    BY LessIsWellFounded
  <2> HIDE DEF R
  <2> QED BY <2>1, WFMin
<1>2. PICK m \in Q : \A n \in Q : ~ (<<n, m>> \in R)
  BY <1>1
<1>3. \A n \in Q : m <= n
  <2> SUFFICES ASSUME NEW n \in Q, ~ (m <= n) PROVE FALSE
    OBVIOUS
  <2>1. <<n, m>> \in R
    OBVIOUS
  <2> QED BY <1>2, <2>1
<1> QED BY <1>3

\* A set of naturals that has 0 and with every number its successor has all.
LEMMA SetInduction ==
  ASSUME NEW P \in SUBSET Nat, 0 \in P, \A n \in P : n + 1 \in P
  PROVE  P = Nat
<1> SUFFICES ASSUME Nat \ P # {} PROVE FALSE
  OBVIOUS
<1>1. PICK m \in Nat \ P : \A n \in Nat \ P : m <= n
  BY LeastExists
<1>2. m \in Nat /\ m # 0 /\ m - 1 \in Nat /\ ~ (m <= m - 1)
  OBVIOUS
<1>3. m - 1 \in P
  BY <1>1, <1>2
<1>4. (m - 1) + 1 \in P
  BY <1>3
<1> QED BY <1>2, <1>4

(***************************************************************************)
(* The fold as a fixed point, and what makes a function of sets additive.  *)
(***************************************************************************)
FoldStep(h, g, s) == IF s = {} THEN 0 ELSE h[CHOOSE x \in s : TRUE] + g[s \ {CHOOSE x \in s : TRUE}]
IsFold(h, g, S) == g = [s \in SUBSET S |-> FoldStep(h, g, s)]
Additive(h, F, S) ==
    /\ F \in [SUBSET S -> Int]
    /\ F[{}] = 0
    /\ \A T \in SUBSET S : \A x \in S \ T : F[T \cup {x}] = F[T] + h[x]

\* The sum is the value of a fixed point of the fold.
LEMMA SumIsFold ==
  ASSUME NEW h, NEW S
  PROVE  SumFunctionOnSet(h, S) = (CHOOSE g : IsFold(h, g, S))[S]
BY DEF SumFunctionOnSet, FoldFunctionOnSet, MapThenFoldSet, IsFold, FoldStep

\* Every finite set has an additive function, built one element at a time.
LEMMA AdditiveExists ==
  ASSUME NEW U, NEW h \in [U -> Int], NEW S \in SUBSET U, IsFiniteSet(S)
  PROVE  \E F : Additive(h, F, S)
<1> DEFINE P == {n \in Nat : \A V \in SUBSET U :
                     IsFiniteSet(V) /\ Cardinality(V) = n => \E F : Additive(h, F, V)}
<1>1. 0 \in P
  <2> SUFFICES ASSUME NEW V \in SUBSET U, IsFiniteSet(V), Cardinality(V) = 0
               PROVE  \E F : Additive(h, F, V)
    OBVIOUS
  <2>1. V = {}
    BY FS_EmptySet
  <2> DEFINE F == [T \in SUBSET V |-> 0]
  <2>2. Additive(h, F, V)
    BY <2>1 DEF Additive
  <2> QED BY <2>2
<1>2. ASSUME NEW n \in P PROVE n + 1 \in P
  <2> SUFFICES ASSUME NEW V \in SUBSET U, IsFiniteSet(V), Cardinality(V) = n + 1
               PROVE  \E F : Additive(h, F, V)
    OBVIOUS
  <2>1. PICK a : a \in V
    <3>1. V # {}
      BY FS_EmptySet
    <3> QED BY <3>1
  <2>2. /\ IsFiniteSet(V \ {a}) /\ Cardinality(V \ {a}) = n /\ V \ {a} \in SUBSET U
    <3>1. n \in Nat
      OBVIOUS
    <3> HIDE DEF P
    <3>2. IsFiniteSet(V \ {a}) /\ Cardinality(V \ {a}) = Cardinality(V) - 1
      BY <2>1, FS_RemoveElement
    <3> QED BY <3>1, <3>2
  <2>3. PICK G : Additive(h, G, V \ {a})
    BY <2>2
  <2> DEFINE F == [T \in SUBSET V |-> IF a \in T THEN G[T \ {a}] + h[a] ELSE G[T]]
  <2>4. h[a] \in Int /\ \A T \in SUBSET (V \ {a}) : G[T] \in Int
    BY <2>1, <2>3 DEF Additive
  <2>5. F \in [SUBSET V -> Int]
    <3> SUFFICES ASSUME NEW T \in SUBSET V
                 PROVE  (IF a \in T THEN G[T \ {a}] + h[a] ELSE G[T]) \in Int
      OBVIOUS
    <3>1. T \ {a} \in SUBSET (V \ {a}) /\ (a \notin T => T \in SUBSET (V \ {a}))
      OBVIOUS
    <3> QED BY <2>4, <3>1
  <2>6. F[{}] = 0
    BY <2>3 DEF Additive
  <2>7. ASSUME NEW T \in SUBSET V, NEW x \in V \ T PROVE F[T \cup {x}] = F[T] + h[x]
    <3>0. h[x] \in Int
      BY <2>7
    <3>1. T \cup {x} \in SUBSET V /\ T \ {a} \in SUBSET (V \ {a})
      OBVIOUS
    <3>2. CASE x = a
      <4>1. (T \cup {x}) \ {a} = T /\ a \notin T /\ a \in T \cup {x}
        BY <3>2
      <4> QED BY <3>1, <3>2, <4>1
    <3>3. CASE x # a /\ a \in T
      <4>1. (T \cup {x}) \ {a} = (T \ {a}) \cup {x} /\ x \in (V \ {a}) \ (T \ {a}) /\ a \in T \cup {x}
        BY <3>3
      <4>2. G[(T \ {a}) \cup {x}] = G[T \ {a}] + h[x]
        BY <2>3, <3>1, <4>1 DEF Additive
      <4>3. F[T \cup {x}] = G[(T \ {a}) \cup {x}] + h[a] /\ F[T] = G[T \ {a}] + h[a]
        BY <3>1, <3>3, <4>1
      <4>4. G[T \ {a}] \in Int
        BY <2>4, <3>1
      <4> QED BY <2>4, <3>0, <4>2, <4>3, <4>4
    <3>4. CASE x # a /\ a \notin T
      <4>1. T \in SUBSET (V \ {a}) /\ x \in (V \ {a}) \ T /\ a \notin T \cup {x}
        BY <3>4
      <4>2. G[T \cup {x}] = G[T] + h[x]
        BY <2>3, <4>1 DEF Additive
      <4> QED BY <3>1, <3>4, <4>1, <4>2
    <3> QED BY <3>2, <3>3, <3>4
  <2> HIDE DEF F
  <2>8. Additive(h, F, V)
    BY <2>5, <2>6, <2>7 DEF Additive
  <2> QED BY <2>8
<1>3. P = Nat
  <2> HIDE DEF P
  <2>1. P \in SUBSET Nat
    BY DEF P
  <2> QED BY <1>1, <1>2, <2>1, SetInduction
<1>4. Cardinality(S) \in P
  BY <1>3, FS_CardinalityType
<1> QED BY <1>4

\* The fold computes the additive function, whatever the order it takes.
LEMMA SumIsAdditive ==
  ASSUME NEW U, NEW h \in [U -> Int], NEW S \in SUBSET U, IsFiniteSet(S),
         NEW F, Additive(h, F, S)
  PROVE  SumFunctionOnSet(h, S) = F[S]
<1> DEFINE c(s) == CHOOSE x \in s : TRUE
<1>1. \A s \in SUBSET S : s # {} => c(s) \in s
  OBVIOUS
<1>2. IsFold(h, F, S)
  <2>1. ASSUME NEW s \in SUBSET S PROVE F[s] = FoldStep(h, F, s)
    <3>1. CASE s = {}
      BY <3>1 DEF FoldStep, Additive
    <3>2. CASE s # {}
      <4> DEFINE y == c(s)
                 r == s \ {y}
      <4>1. y \in s
        BY <1>1, <3>2
      <4> HIDE DEF y
      <4>2. r \in SUBSET S /\ y \in S \ r /\ r \cup {y} = s
        BY <4>1
      <4> HIDE DEF r
      <4>3. F[s] = F[r] + h[y]
        BY <4>2 DEF Additive
      <4>4. F[r] \in Int /\ h[y] \in Int
        BY <4>2 DEF Additive
      <4>5. F[s] = h[y] + F[r]
        BY <4>3, <4>4
      <4> QED BY <3>2, <4>5 DEF FoldStep, y, r
    <3> QED BY <3>1, <3>2
  <2> QED BY <2>1 DEF IsFold, Additive
<1> DEFINE g == CHOOSE e : IsFold(h, e, S)
<1>3. IsFold(h, g, S)
  BY <1>2
<1> HIDE DEF g
<1>4. \A s \in SUBSET S : g[s] = FoldStep(h, g, s)
  BY <1>3 DEF IsFold
<1> DEFINE P == {n \in Nat : \A T \in SUBSET S :
                     IsFiniteSet(T) /\ Cardinality(T) = n => g[T] = F[T]}
<1>5. 0 \in P
  <2> SUFFICES ASSUME NEW T \in SUBSET S, IsFiniteSet(T), Cardinality(T) = 0 PROVE g[T] = F[T]
    OBVIOUS
  <2>1. T = {}
    BY FS_EmptySet
  <2> QED BY <1>4, <2>1 DEF FoldStep, Additive
<1>6. ASSUME NEW n \in P PROVE n + 1 \in P
  <2> SUFFICES ASSUME NEW T \in SUBSET S, IsFiniteSet(T), Cardinality(T) = n + 1 PROVE g[T] = F[T]
    OBVIOUS
  <2>1. T # {}
    BY FS_EmptySet
  <2>2. c(T) \in T /\ T \ {c(T)} \in SUBSET S
    BY <1>1, <2>1
  <2>3. IsFiniteSet(T \ {c(T)}) /\ Cardinality(T \ {c(T)}) = n
    <3>1. n \in Nat
      OBVIOUS
    <3> HIDE DEF P, c
    <3>2. IsFiniteSet(T \ {c(T)}) /\ Cardinality(T \ {c(T)}) = Cardinality(T) - 1
      BY <2>2, FS_RemoveElement
    <3> QED BY <3>1, <3>2
  <2>4. g[T \ {c(T)}] = F[T \ {c(T)}]
    BY <2>2, <2>3
  <2>5. g[T] = h[c(T)] + g[T \ {c(T)}]
    BY <1>4, <2>1 DEF FoldStep
  <2>6. F[T] = h[c(T)] + F[T \ {c(T)}]
    BY <1>2, <2>1 DEF IsFold, FoldStep
  <2> QED BY <2>4, <2>5, <2>6
<1>7. P = Nat
  <2> HIDE DEF P
  <2>1. P \in SUBSET Nat
    BY DEF P
  <2> QED BY <1>5, <1>6, <2>1, SetInduction
<1>8. Cardinality(S) \in P
  BY <1>7, FS_CardinalityType
<1>9. g[S] = F[S]
  BY <1>8
<1> QED BY <1>9, SumIsFold DEF g

\* Nothing adds up to zero.
LEMMA SumOfNone == ASSUME NEW U, NEW h \in [U -> Int] PROVE SumFunctionOnSet(h, {}) = 0
<1>1. {} \in SUBSET U /\ IsFiniteSet({})
  BY FS_EmptySet
<1>2. PICK F : Additive(h, F, {})
  BY <1>1, AdditiveExists
<1> QED BY <1>1, <1>2, SumIsAdditive DEF Additive

\* One more adds its value.
LEMMA SumOfOneMore ==
  ASSUME NEW U, NEW h \in [U -> Int], NEW S \in SUBSET U, IsFiniteSet(S), NEW a \in U \ S
  PROVE  /\ SumFunctionOnSet(h, S) \in Int
         /\ SumFunctionOnSet(h, S \cup {a}) = SumFunctionOnSet(h, S) + h[a]
<1>1. S \cup {a} \in SUBSET U /\ IsFiniteSet(S \cup {a})
  BY FS_AddElement
<1>2. PICK F : Additive(h, F, S \cup {a})
  BY <1>1, AdditiveExists
<1> DEFINE G == [T \in SUBSET S |-> F[T]]
<1>3. Additive(h, G, S)
  <2>1. \A T \in SUBSET S : T \in SUBSET (S \cup {a})
    OBVIOUS
  <2>2. G \in [SUBSET S -> Int] /\ G[{}] = 0
    BY <1>2, <2>1 DEF Additive
  <2>3. ASSUME NEW T \in SUBSET S, NEW x \in S \ T PROVE G[T \cup {x}] = G[T] + h[x]
    <3>1. T \cup {x} \in SUBSET S /\ x \in (S \cup {a}) \ T
      OBVIOUS
    <3> QED BY <1>2, <2>1, <3>1 DEF Additive
  <2> HIDE DEF G
  <2> QED BY <2>2, <2>3 DEF Additive
<1>4. G[S] = F[S] /\ F[S] \in Int /\ F[S \cup {a}] = F[S] + h[a]
  BY <1>2 DEF Additive
<1> HIDE DEF G
<1>5. SumFunctionOnSet(h, S) = G[S]
  BY <1>3, SumIsAdditive
<1>6. SumFunctionOnSet(h, S \cup {a}) = F[S \cup {a}]
  BY <1>1, <1>2, SumIsAdditive
<1> QED BY <1>4, <1>5, <1>6

\* A sum of integers is an integer.
LEMMA SumIsInteger ==
  ASSUME NEW U, NEW h \in [U -> Int], NEW S \in SUBSET U, IsFiniteSet(S)
  PROVE  SumFunctionOnSet(h, S) \in Int
<1>1. PICK F : Additive(h, F, S)
  BY AdditiveExists
<1>2. F[S] \in Int
  BY <1>1 DEF Additive
<1> QED BY <1>1, <1>2, SumIsAdditive

\* A sum over values of which at most one is not zero is that value.
LEMMA SumOfOnlyOne ==
  ASSUME NEW U, NEW h \in [U -> Int], NEW S \in SUBSET U, IsFiniteSet(S), NEW a \in U,
         \A x \in S \ {a} : h[x] = 0
  PROVE  SumFunctionOnSet(h, S) = IF a \in S THEN h[a] ELSE 0
<1> DEFINE P == {n \in Nat : \A V \in SUBSET U :
                     (/\ IsFiniteSet(V) /\ Cardinality(V) = n
                      /\ \A x \in V \ {a} : h[x] = 0)
                     => SumFunctionOnSet(h, V) = IF a \in V THEN h[a] ELSE 0}
<1>1. 0 \in P
  <2> SUFFICES ASSUME NEW V \in SUBSET U, IsFiniteSet(V), Cardinality(V) = 0
               PROVE  SumFunctionOnSet(h, V) = IF a \in V THEN h[a] ELSE 0
    OBVIOUS
  <2>1. V = {}
    BY FS_EmptySet
  <2> QED BY <2>1, SumOfNone
<1>2. ASSUME NEW n \in P PROVE n + 1 \in P
  <2> SUFFICES ASSUME NEW V \in SUBSET U, IsFiniteSet(V), Cardinality(V) = n + 1,
                      \A x \in V \ {a} : h[x] = 0
               PROVE  SumFunctionOnSet(h, V) = IF a \in V THEN h[a] ELSE 0
    BY <1>2
  <2> HIDE DEF P
  <2>1. PICK b \in V : TRUE
    BY <1>2, FS_EmptySet DEF P
  <2>2. /\ IsFiniteSet(V \ {b}) /\ Cardinality(V \ {b}) = n
        /\ V = (V \ {b}) \cup {b} /\ b \in U \ (V \ {b}) /\ V \ {b} \in SUBSET U
    <3>1. n \in Nat
      BY <1>2 DEF P
    <3>2. IsFiniteSet(V \ {b}) /\ Cardinality(V \ {b}) = (n + 1) - 1
      BY <2>1, FS_RemoveElement
    <3> QED BY <2>1, <3>1, <3>2
  <2>3. SumFunctionOnSet(h, V \ {b}) = IF a \in V \ {b} THEN h[a] ELSE 0
    <3> DEFINE W == V \ {b}
    <3>1. W \in SUBSET U /\ IsFiniteSet(W) /\ Cardinality(W) = n /\ \A x \in W \ {a} : h[x] = 0
      BY <2>2
    <3> HIDE DEF W
    <3>2. SumFunctionOnSet(h, W) = IF a \in W THEN h[a] ELSE 0
      BY <1>2, <3>1 DEF P
    <3> QED BY <3>2 DEF W
  <2>4. SumFunctionOnSet(h, (V \ {b}) \cup {b}) = SumFunctionOnSet(h, V \ {b}) + h[b]
    BY <2>2, SumOfOneMore
  <2>5. SumFunctionOnSet(h, V) = (IF a \in V \ {b} THEN h[a] ELSE 0) + h[b]
    BY <2>2, <2>3, <2>4
  <2>6. h[a] \in Int /\ h[b] \in Int
    BY <2>2
  <2>7. CASE b = a
    BY <2>1, <2>5, <2>6, <2>7
  <2>8. CASE b # a
    BY <2>1, <2>5, <2>6, <2>8
  <2> QED BY <2>7, <2>8
<1>3. P = Nat
  <2> HIDE DEF P
  <2>1. P \in SUBSET Nat
    BY DEF P
  <2> QED BY <1>1, <1>2, <2>1, SetInduction
<1> QED BY <1>3, FS_CardinalityType

\* Induction over the finite sets, a property being a set of sets.
LEMMA FiniteInduction ==
  ASSUME NEW U, NEW Q \in SUBSET SUBSET U, {} \in Q,
         \A V \in Q, a \in U : IsFiniteSet(V) /\ a \notin V => V \cup {a} \in Q,
         NEW S \in SUBSET U, IsFiniteSet(S)
  PROVE  S \in Q
<1> DEFINE P == {n \in Nat : \A V \in SUBSET U : IsFiniteSet(V) /\ Cardinality(V) = n => V \in Q}
<1>1. 0 \in P
  BY FS_EmptySet
<1>2. ASSUME NEW n \in P PROVE n + 1 \in P
  <2> SUFFICES ASSUME NEW V \in SUBSET U, IsFiniteSet(V), Cardinality(V) = n + 1 PROVE V \in Q
    BY <1>2
  <2>1. n \in Nat /\ \A W \in SUBSET U : IsFiniteSet(W) /\ Cardinality(W) = n => W \in Q
    BY <1>2
  <2> HIDE DEF P
  <2>2. PICK b \in V : TRUE
    BY <2>1, FS_EmptySet
  <2> DEFINE W == V \ {b}
  <2>3. IsFiniteSet(W) /\ Cardinality(W) = (n + 1) - 1
    BY <2>2, FS_RemoveElement
  <2>4. W \in SUBSET U /\ b \in U /\ b \notin W /\ V = W \cup {b}
    BY <2>2
  <2> HIDE DEF W
  <2>5. Cardinality(W) = n
    BY <2>1, <2>3
  <2>6. W \in Q
    BY <2>1, <2>3, <2>4, <2>5
  <2> QED BY <2>3, <2>4, <2>6
<1>3. P = Nat
  <2> HIDE DEF P
  <2>1. P \in SUBSET Nat
    BY DEF P
  <2> QED BY <1>1, <1>2, <2>1, SetInduction
<1> QED BY <1>3, FS_CardinalityType

\* The sum along an injection is the sum over the image.
LEMMA SumOfImage ==
  ASSUME NEW S, IsFiniteSet(S), NEW W, NEW g \in [S -> W], \A x, y \in S : g[x] = g[y] => x = y,
         \A w \in W : \E x \in S : w = g[x], NEW h \in [S -> Int], NEW k \in [W -> Int],
         \A x \in S : h[x] = k[g[x]]
  PROVE  SumFunctionOnSet(h, S) = SumFunctionOnSet(k, W)
<1>0. W = {g[x] : x \in S}
  OBVIOUS
<1> DEFINE Q == {V \in SUBSET S : IsFiniteSet(V) /\ IsFiniteSet({g[x] : x \in V})
                    /\ SumFunctionOnSet(h, V) = SumFunctionOnSet(k, {g[x] : x \in V})}
<1>1. {} \in Q
  <2>1. SumFunctionOnSet(h, {}) = 0 /\ SumFunctionOnSet(k, {}) = 0
    BY SumOfNone
  <2>2. {g[x] : x \in {}} = {}
    OBVIOUS
  <2> QED BY <2>1, <2>2, FS_EmptySet
<1>2. ASSUME NEW V \in Q, NEW a \in S, IsFiniteSet(V), a \notin V PROVE V \cup {a} \in Q
  <2> DEFINE G == {g[x] : x \in V}
  <2>1. V \in SUBSET S /\ IsFiniteSet(G) /\ SumFunctionOnSet(h, V) = SumFunctionOnSet(k, G)
    BY <1>2
  <2>2. {g[x] : x \in V \cup {a}} = G \cup {g[a]} /\ G \in SUBSET W /\ g[a] \in W \ G
    BY <1>2, <2>1
  <2> HIDE DEF G, Q
  <2>3. SumFunctionOnSet(h, V \cup {a}) = SumFunctionOnSet(h, V) + h[a]
    BY <1>2, <2>1, SumOfOneMore
  <2>4. SumFunctionOnSet(k, G \cup {g[a]}) = SumFunctionOnSet(k, G) + k[g[a]]
    BY <2>1, <2>2, SumOfOneMore
  <2>5. IsFiniteSet(V \cup {a}) /\ IsFiniteSet(G \cup {g[a]}) /\ V \cup {a} \in SUBSET S
    BY <1>2, <2>1, FS_AddElement
  <2>6. SumFunctionOnSet(h, V \cup {a}) = SumFunctionOnSet(k, G \cup {g[a]})
    BY <2>1, <2>3, <2>4
  <2> QED BY <2>2, <2>5, <2>6 DEF Q
<1>3. S \in Q
  <2> HIDE DEF Q
  <2>1. Q \in SUBSET SUBSET S /\ S \in SUBSET S
    BY DEF Q
  <2> QED BY <1>1, <1>2, <2>1, FiniteInduction
<1> QED BY <1>0, <1>3

\* Only the values over the set matter.
LEMMA SumOfSame ==
  ASSUME NEW U, NEW h \in [U -> Int], NEW W, NEW k \in [W -> Int],
         NEW S \in SUBSET U, S \in SUBSET W, IsFiniteSet(S), \A x \in S : h[x] = k[x]
  PROVE  SumFunctionOnSet(h, S) = SumFunctionOnSet(k, S)
<1> DEFINE Q == {V \in SUBSET S : SumFunctionOnSet(h, V) = SumFunctionOnSet(k, V)}
<1>1. {} \in Q
  BY SumOfNone
<1>2. ASSUME NEW V \in Q, NEW a \in S, IsFiniteSet(V), a \notin V PROVE V \cup {a} \in Q
  <2>1. V \in SUBSET S /\ SumFunctionOnSet(h, V) = SumFunctionOnSet(k, V)
    BY <1>2
  <2> HIDE DEF Q
  <2>2. SumFunctionOnSet(h, V \cup {a}) = SumFunctionOnSet(h, V) + h[a]
    BY <1>2, <2>1, SumOfOneMore
  <2>3. SumFunctionOnSet(k, V \cup {a}) = SumFunctionOnSet(k, V) + k[a]
    BY <1>2, <2>1, SumOfOneMore
  <2> QED BY <2>1, <2>2, <2>3 DEF Q
<1>3. S \in Q
  <2> HIDE DEF Q
  <2>1. Q \in SUBSET SUBSET S /\ S \in SUBSET S
    BY DEF Q
  <2> QED BY <1>1, <1>2, <2>1, FiniteInduction
<1> QED BY <1>3

\* The sum of two functions sums to their sums.
LEMMA SumOfSums ==
  ASSUME NEW S, IsFiniteSet(S)
  PROVE  \A h, k \in [S -> Int] :
            SumFunctionOnSet([x \in S |-> h[x] + k[x]], S) = SumFunctionOnSet(h, S) + SumFunctionOnSet(k, S)
<1>1. ASSUME NEW f \in [S -> Int], NEW V \in SUBSET S, NEW a \in S \ V
      PROVE  /\ SumFunctionOnSet(f, V) \in Int /\ f[a] \in Int
             /\ SumFunctionOnSet(f, V \cup {a}) = SumFunctionOnSet(f, V) + f[a]
  <2>1. IsFiniteSet(V)
    BY FS_Subset
  <2> QED BY <2>1, SumOfOneMore
<1>2. TAKE h, k \in [S -> Int]
<1> DEFINE l == [x \in S |-> h[x] + k[x]]
<1>3. l \in [S -> Int] /\ \A x \in S : l[x] = h[x] + k[x]
  OBVIOUS
<1> HIDE DEF l
<1> DEFINE Q == {V \in SUBSET S :
                    SumFunctionOnSet(l, V) = SumFunctionOnSet(h, V) + SumFunctionOnSet(k, V)}
<1>4. {} \in Q
  <2>1. SumFunctionOnSet(l, {}) = 0 /\ SumFunctionOnSet(h, {}) = 0 /\ SumFunctionOnSet(k, {}) = 0
    BY <1>3, SumOfNone
  <2> QED BY <2>1
<1>5. ASSUME NEW V \in Q, NEW a \in S, IsFiniteSet(V), a \notin V PROVE V \cup {a} \in Q
  <2>1. V \in SUBSET S /\ SumFunctionOnSet(l, V) = SumFunctionOnSet(h, V) + SumFunctionOnSet(k, V)
    BY <1>5
  <2> HIDE DEF Q
  <2>2. a \in S \ V
    BY <1>5
  <2>3. /\ SumFunctionOnSet(h, V) \in Int /\ h[a] \in Int
        /\ SumFunctionOnSet(h, V \cup {a}) = SumFunctionOnSet(h, V) + h[a]
    BY <1>1, <2>1, <2>2
  <2>4. /\ SumFunctionOnSet(k, V) \in Int /\ k[a] \in Int
        /\ SumFunctionOnSet(k, V \cup {a}) = SumFunctionOnSet(k, V) + k[a]
    BY <1>1, <2>1, <2>2
  <2>5. SumFunctionOnSet(l, V \cup {a}) = SumFunctionOnSet(l, V) + (h[a] + k[a])
    BY <1>1, <1>3, <2>1, <2>2
  <2>6. SumFunctionOnSet(l, V \cup {a}) = SumFunctionOnSet(h, V \cup {a}) + SumFunctionOnSet(k, V \cup {a})
    BY <2>1, <2>3, <2>4, <2>5
  <2> QED BY <1>5, <2>1, <2>6 DEF Q
<1>6. S \in Q
  <2> HIDE DEF Q
  <2>1. Q \in SUBSET SUBSET S /\ S \in SUBSET S
    BY DEF Q
  <2> QED BY <1>4, <1>5, <2>1, FiniteInduction
<1> QED BY <1>6 DEF l

\* The sum over two disjoint sets.
LEMMA SumOfUnion ==
  ASSUME NEW U, NEW h \in [U -> Int], NEW A \in SUBSET U, NEW B \in SUBSET U,
         IsFiniteSet(A), IsFiniteSet(B), A \cap B = {}
  PROVE  SumFunctionOnSet(h, A \cup B) = SumFunctionOnSet(h, A) + SumFunctionOnSet(h, B)
<1> DEFINE Q == {V \in SUBSET B : IsFiniteSet(A \cup V)
                    /\ SumFunctionOnSet(h, A \cup V) = SumFunctionOnSet(h, A) + SumFunctionOnSet(h, V)}
<1>0. SumFunctionOnSet(h, A) \in Int
  BY SumIsInteger
<1>1. {} \in Q
  <2>1. SumFunctionOnSet(h, {}) = 0 /\ A \cup {} = A
    BY SumOfNone
  <2> QED BY <1>0, <2>1
<1>2. ASSUME NEW V \in Q, NEW a \in B, IsFiniteSet(V), a \notin V PROVE V \cup {a} \in Q
  <2> DEFINE X == A \cup V
  <2>1. /\ V \in SUBSET B /\ IsFiniteSet(X)
        /\ SumFunctionOnSet(h, X) = SumFunctionOnSet(h, A) + SumFunctionOnSet(h, V)
    BY <1>2
  <2>2. X \in SUBSET U /\ a \in U \ X /\ V \in SUBSET U /\ a \in U \ V /\ A \cup (V \cup {a}) = X \cup {a}
    BY <1>2, <2>1
  <2> HIDE DEF Q, X
  <2>3. SumFunctionOnSet(h, X \cup {a}) = SumFunctionOnSet(h, X) + h[a] /\ IsFiniteSet(X \cup {a})
    BY <2>1, <2>2, SumOfOneMore, FS_AddElement
  <2>4. SumFunctionOnSet(h, V \cup {a}) = SumFunctionOnSet(h, V) + h[a] /\ SumFunctionOnSet(h, V) \in Int
    BY <1>2, <2>2, SumOfOneMore
  <2>5. h[a] \in Int
    BY <2>2
  <2>6. SumFunctionOnSet(h, X \cup {a}) = SumFunctionOnSet(h, A) + SumFunctionOnSet(h, V \cup {a})
    BY <1>0, <2>1, <2>3, <2>4, <2>5
  <2> QED BY <1>2, <2>1, <2>2, <2>3, <2>6 DEF Q
<1>3. B \in Q
  <2> HIDE DEF Q
  <2>1. Q \in SUBSET SUBSET B /\ B \in SUBSET B
    BY DEF Q
  <2> QED BY <1>1, <1>2, <2>1, FiniteInduction
<1> QED BY <1>3

\* A sum of positive values is positive.
LEMMA SumIsPositive ==
  ASSUME NEW S, IsFiniteSet(S), S # {}, NEW h \in [S -> Int], \A x \in S : h[x] > 0
  PROVE  SumFunctionOnSet(h, S) > 0
<1> DEFINE Q == {V \in SUBSET S : /\ SumFunctionOnSet(h, V) >= 0
                                  /\ V # {} => SumFunctionOnSet(h, V) > 0}
<1>1. {} \in Q
  <2>1. SumFunctionOnSet(h, {}) = 0
    BY SumOfNone
  <2> QED BY <2>1
<1>2. ASSUME NEW V \in Q, NEW a \in S, IsFiniteSet(V), a \notin V PROVE V \cup {a} \in Q
  <2>1. V \in SUBSET S /\ SumFunctionOnSet(h, V) >= 0
    BY <1>2
  <2> HIDE DEF Q
  <2>2. /\ SumFunctionOnSet(h, V \cup {a}) = SumFunctionOnSet(h, V) + h[a]
        /\ SumFunctionOnSet(h, V) \in Int
    BY <1>2, <2>1, SumOfOneMore
  <2>3. h[a] \in Int /\ h[a] > 0
    BY <1>2
  <2>4. SumFunctionOnSet(h, V \cup {a}) > 0 /\ SumFunctionOnSet(h, V \cup {a}) >= 0
    BY <2>1, <2>2, <2>3
  <2> QED BY <1>2, <2>1, <2>4 DEF Q
<1>3. S \in Q
  <2> HIDE DEF Q
  <2>1. Q \in SUBSET SUBSET S /\ S \in SUBSET S
    BY DEF Q
  <2> QED BY <1>1, <1>2, <2>1, FiniteInduction
<1> QED BY <1>3

\* A function that is zero sums to zero.
LEMMA SumOfZeros ==
  ASSUME NEW X, IsFiniteSet(X), NEW z \in [X -> Int], \A x \in X : z[x] = 0
  PROVE  SumFunctionOnSet(z, X) = 0
<1> DEFINE y == [x \in X |-> z[x] + z[x]]
<1>1. y = z
  OBVIOUS
<1>2. SumFunctionOnSet(y, X) = SumFunctionOnSet(z, X) + SumFunctionOnSet(z, X)
  BY SumOfSums
<1> HIDE DEF y
<1>3. SumFunctionOnSet(z, X) = SumFunctionOnSet(z, X) + SumFunctionOnSet(z, X)
  BY <1>1, <1>2
<1>4. SumFunctionOnSet(z, X) \in Int
  BY SumIsInteger
<1>5. \A s \in Int : s = s + s => s = 0
  OBVIOUS
<1> QED BY <1>3, <1>4, <1>5, Zenon

\* The image of a finite set is finite.
LEMMA ImageIsFinite ==
  ASSUME NEW S, IsFiniteSet(S), NEW g
  PROVE  IsFiniteSet({g[x] : x \in S})
<1> DEFINE Q == {V \in SUBSET S : IsFiniteSet({g[x] : x \in V})}
<1>1. {} \in Q
  <2>1. {g[x] : x \in {}} = {}
    OBVIOUS
  <2> QED BY <2>1, FS_EmptySet
<1>2. ASSUME NEW V \in Q, NEW a \in S, IsFiniteSet(V), a \notin V PROVE V \cup {a} \in Q
  <2> DEFINE G == {g[x] : x \in V}
  <2>1. V \in SUBSET S /\ IsFiniteSet(G) /\ {g[x] : x \in V \cup {a}} = G \cup {g[a]}
    BY <1>2
  <2>2. IsFiniteSet(G \cup {g[a]})
    BY <2>1, FS_AddElement
  <2> QED BY <1>2, <2>1, <2>2
<1>3. S \in Q
  <2> HIDE DEF Q
  <2>1. Q \in SUBSET SUBSET S /\ S \in SUBSET S
    BY DEF Q
  <2> QED BY <1>1, <1>2, <2>1, FiniteInduction
<1> QED BY <1>3
=============================================================================
