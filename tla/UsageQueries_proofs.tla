-------------------------- MODULE UsageQueries_proofs --------------------------
(***************************************************************************)
(* Proofs about the analytics queries, for any rows, period, range and      *)
(* number of steps.                                                         *)
(***************************************************************************)
EXTENDS UsageQueries, FiniteSetTheorems, TLAPS

-----------------------------------------------------------------------------
(* Induction over finite sets and sums over them.                          *)

\* A non-empty set of naturals has a least element.
LEMMA LeastNumber ==
    ASSUME NEW G \in SUBSET Nat, G # {}
    PROVE  \E g \in G : \A m \in G : g <= m
<1> DEFINE Below == {p \in Nat \X Nat : p[1] < p[2]}
<1>1. IsWellFoundedOn(Below, Nat)
  BY NatLessThanWellFounded DEF OpToRel
<1>2. PICK g \in G : \A m \in G : <<m, g>> \notin Below
  <2> HIDE DEF Below
  <2> QED
    BY <1>1, WFMin
<1>3. \A m \in G : ~(m < g)
  BY <1>2
<1> QED
  BY <1>3

\* A property of subsets that survives one more element holds of all of them.
LEMMA Subsets ==
    ASSUME NEW S, IsFiniteSet(S), NEW G,
           {} \in G,
           \A T \in SUBSET S : \A x \in S \ T : T \in G => T \cup {x} \in G
    PROVE  \A T \in SUBSET S : T \in G
<1> SUFFICES ASSUME NEW B \in SUBSET S, B \notin G PROVE FALSE
  OBVIOUS
<1> DEFINE Sizes == {Cardinality(T) : T \in {U \in SUBSET S : U \notin G}}
<1>1. \A T \in SUBSET S : IsFiniteSet(T) /\ Cardinality(T) \in Nat
  BY FS_Subset, FS_CardinalityType
<1>2. Sizes \in SUBSET Nat /\ Sizes # {}
  BY <1>1
<1>3. PICK n \in Sizes : \A m \in Sizes : n <= m
  <2> HIDE DEF Sizes
  <2> QED
    BY <1>2, LeastNumber
<1>4. PICK T \in SUBSET S : T \notin G /\ Cardinality(T) = n
  OBVIOUS
<1>5. PICK x \in T : TRUE
  BY <1>4
<1>6. Cardinality(T \ {x}) = Cardinality(T) - 1
  BY <1>1, <1>5, FS_RemoveElement
<1>7. T \ {x} \in G
  <2> SUFFICES ASSUME T \ {x} \notin G PROVE FALSE
    OBVIOUS
  <2>1. Cardinality(T \ {x}) \in Sizes
    OBVIOUS
  <2>2. n <= n - 1
    BY <1>3, <1>4, <1>6, <2>1
  <2> QED
    BY <1>1, <1>4, <2>2
<1>8. T \ {x} \in SUBSET S /\ x \in S \ (T \ {x}) /\ (T \ {x}) \cup {x} = T
  BY <1>5
<1>9. (T \ {x}) \cup {x} \in G
  BY <1>7, <1>8
<1> QED
  BY <1>4, <1>8, <1>9

First(s) == CHOOSE x \in s : TRUE

\* g has the sums of f over the sets in D.
Sums(f, D, g) ==
    g = [s \in D |-> IF s = {} THEN 0 ELSE f[First(s)] + g[s \ {First(s)}]]

LEMMA SumIsIterated ==
    ASSUME NEW f, NEW S
    PROVE  SumFunctionOnSet(f, S) = (CHOOSE g : Sums(f, SUBSET S, g))[S]
  BY DEF SumFunctionOnSet, FoldFunctionOnSet, MapThenFoldSet, Sums, First

UpTo(S, n) == {s \in SUBSET S : Cardinality(s) <= n}

\* The sums over small sets give those over sets with one element more.
LEMMA OneMore ==
    ASSUME NEW f, NEW S, IsFiniteSet(S), NEW n \in Nat, NEW g, Sums(f, UpTo(S, n), g)
    PROVE  \E h : Sums(f, UpTo(S, n + 1), h)
<1> DEFINE h == [s \in UpTo(S, n + 1) |-> IF s = {} THEN 0 ELSE f[First(s)] + g[s \ {First(s)}]]
<1>1. ASSUME NEW s \in UpTo(S, n + 1), s # {}
      PROVE  s \ {First(s)} \in UpTo(S, n) /\ s \ {First(s)} \in UpTo(S, n + 1)
  <2>1. First(s) \in s
    BY <1>1 DEF First
  <2>2. IsFiniteSet(s) /\ Cardinality(s) \in Nat
    BY FS_Subset, FS_CardinalityType DEF UpTo
  <2>3. Cardinality(s \ {First(s)}) = Cardinality(s) - 1
    BY <2>1, <2>2, FS_RemoveElement
  <2> QED
    BY <2>2, <2>3 DEF UpTo
<1>2. ASSUME NEW s \in UpTo(S, n), s \in UpTo(S, n + 1) PROVE h[s] = g[s]
  <2>1. g[s] = IF s = {} THEN 0 ELSE f[First(s)] + g[s \ {First(s)}]
    BY DEF Sums
  <2> QED
    BY <1>2, <2>1
<1>3. ASSUME NEW s \in UpTo(S, n + 1), s # {} PROVE h[s \ {First(s)}] = g[s \ {First(s)}]
  <2> HIDE DEF h
  <2> QED
    BY <1>1, <1>2, <1>3
<1>4. h = [s \in UpTo(S, n + 1) |-> IF s = {} THEN 0 ELSE f[First(s)] + h[s \ {First(s)}]]
  BY <1>3
<1> HIDE DEF h
<1> QED
  BY <1>4 DEF Sums

LEMMA SumsExist ==
    ASSUME NEW f, NEW S, IsFiniteSet(S) PROVE \E g : Sums(f, SUBSET S, g)
<1> DEFINE Bad == {n \in Nat : ~ \E g : Sums(f, UpTo(S, n), g)}
<1>1. Bad = {}
  <2> SUFFICES ASSUME Bad # {} PROVE FALSE
    OBVIOUS
  <2>1. PICK n \in Bad : \A m \in Bad : n <= m
    <3>1. Bad \in SUBSET Nat
      OBVIOUS
    <3> HIDE DEF Bad
    <3> QED
      BY <3>1, LeastNumber
  <2>2. CASE n = 0
    <3>1. ASSUME NEW s \in UpTo(S, 0) PROVE s = {}
      <4>1. IsFiniteSet(s) /\ Cardinality(s) \in Nat
        BY FS_Subset, FS_CardinalityType DEF UpTo
      <4>2. Cardinality(s) = 0
        BY <4>1 DEF UpTo
      <4> QED
        BY <4>1, <4>2, FS_EmptySet
    <3> DEFINE g == [s \in UpTo(S, 0) |-> 0]
    <3>2. Sums(f, UpTo(S, 0), g)
      BY <3>1 DEF Sums
    <3> QED
      BY <2>2, <3>2
  <2>3. CASE n # 0
    <3>1. n - 1 \in Nat /\ n - 1 \notin Bad
      BY <2>1, <2>3
    <3>2. PICK g : Sums(f, UpTo(S, n - 1), g)
      BY <3>1
    <3>3. \E h : Sums(f, UpTo(S, (n - 1) + 1), h)
      BY <3>1, <3>2, OneMore
    <3>4. (n - 1) + 1 = n
      BY <3>1
    <3> QED
      BY <2>1, <3>3, <3>4
  <2> QED
    BY <2>2, <2>3
<1>2. Cardinality(S) \in Nat
  BY FS_CardinalityType
<1>3. UpTo(S, Cardinality(S)) = SUBSET S
  BY FS_Subset DEF UpTo
<1>4. \E g : Sums(f, UpTo(S, Cardinality(S)), g)
  BY <1>1, <1>2
<1> QED
  BY <1>3, <1>4

\* What the sum of a set is does not depend on the sets around it.
LEMMA SumsAgree ==
    ASSUME NEW f, NEW S, IsFiniteSet(S), NEW T \in SUBSET S, NEW g, NEW h,
           Sums(f, SUBSET S, g), Sums(f, SUBSET T, h)
    PROVE  g[T] = h[T]
<1> DEFINE Bad == {U \in SUBSET T : g[U] # h[U]}
           Sizes == {Cardinality(U) : U \in Bad}
<1> SUFFICES Bad = {}
  OBVIOUS
<1> SUFFICES ASSUME Bad # {} PROVE FALSE
  OBVIOUS
<1>1. \A U \in SUBSET S : IsFiniteSet(U) /\ Cardinality(U) \in Nat
  BY FS_Subset, FS_CardinalityType
<1>2. Sizes \in SUBSET Nat /\ Sizes # {}
  BY <1>1
<1>3. PICK n \in Sizes : \A m \in Sizes : n <= m
  <2> HIDE DEF Sizes
  <2> QED
    BY <1>2, LeastNumber
<1>4. PICK U \in Bad : Cardinality(U) = n
  OBVIOUS
<1>5. /\ g[U] = IF U = {} THEN 0 ELSE f[First(U)] + g[U \ {First(U)}]
      /\ h[U] = IF U = {} THEN 0 ELSE f[First(U)] + h[U \ {First(U)}]
  BY DEF Sums
<1>6. U # {} /\ U \ {First(U)} \in Bad
  BY <1>5
<1>7. Cardinality(U \ {First(U)}) = Cardinality(U) - 1
  BY <1>1, <1>6, FS_RemoveElement DEF First
<1>8. n <= n - 1
  BY <1>3, <1>4, <1>6, <1>7
<1> QED
  BY <1>1, <1>4, <1>8

LEMMA SumUnfolds ==
    ASSUME NEW f, NEW S, IsFiniteSet(S), NEW R, R = S \ {First(S)}
    PROVE  SumFunctionOnSet(f, S) =
               IF S = {} THEN 0 ELSE f[First(S)] + SumFunctionOnSet(f, R)
<1> DEFINE g == CHOOSE i : Sums(f, SUBSET S, i)
           h == CHOOSE i : Sums(f, SUBSET R, i)
<1>1. IsFiniteSet(R) /\ R \in SUBSET S
  BY FS_Subset
<1>2. Sums(f, SUBSET S, g) /\ Sums(f, SUBSET R, h)
  BY <1>1, SumsExist
<1>3. SumFunctionOnSet(f, S) = g[S] /\ SumFunctionOnSet(f, R) = h[R]
  BY SumIsIterated
<1> HIDE DEF g, h
<1>4. g[S] = IF S = {} THEN 0 ELSE f[First(S)] + g[R]
  BY <1>2 DEF Sums
<1>5. g[R] = h[R]
  BY <1>1, <1>2, SumsAgree
<1> QED
  BY <1>3, <1>4, <1>5

\* Any element can be taken out of a sum, not only the one chosen.
LEMMA SumOf ==
    ASSUME NEW f, NEW S, IsFiniteSet(S), \A x \in S : f[x] \in Nat
    PROVE  /\ SumFunctionOnSet(f, S) \in Nat
           /\ \A x \in S : SumFunctionOnSet(f, S) = f[x] + SumFunctionOnSet(f, S \ {x})
<1> DEFINE sum(T) == SumFunctionOnSet(f, T)
           Good(T) == sum(T) \in Nat /\ \A x \in T : sum(T) = f[x] + sum(T \ {x})
           Bad == {T \in SUBSET S : ~ Good(T)}
           Sizes == {Cardinality(T) : T \in Bad}
<1> SUFFICES ASSUME Bad # {} PROVE FALSE
  OBVIOUS
<1>1. \A T \in SUBSET S : IsFiniteSet(T) /\ Cardinality(T) \in Nat
  BY FS_Subset, FS_CardinalityType
<1>2. Sizes \in SUBSET Nat /\ Sizes # {}
  <2> HIDE DEF Bad
  <2>1. Bad \subseteq SUBSET S
    BY DEF Bad
  <2> QED
    BY <1>1, <2>1
<1>3. PICK n \in Sizes : \A m \in Sizes : n <= m
  <2> HIDE DEF Sizes
  <2> QED
    BY <1>2, LeastNumber
<1>4. PICK T \in Bad : Cardinality(T) = n
  OBVIOUS
<1>5. T \in SUBSET S /\ ~ Good(T)
  OBVIOUS
<1>6. ASSUME NEW U \in SUBSET T, U # T PROVE Good(U)
  <2>1. Cardinality(U) < Cardinality(T)
    BY <1>1, <1>5, <1>6, FS_Subset
  <2>2. U \in SUBSET S
    BY <1>5
  <2>3. SUFFICES ASSUME U \in Bad PROVE FALSE
    BY <2>2
  <2>4. Cardinality(U) \in Sizes
    BY <2>3
  <2> HIDE DEF Bad, Sizes
  <2> QED
    BY <1>1, <1>3, <1>4, <1>5, <2>1, <2>2, <2>4
<1>7. \A U \in SUBSET S : sum(U) = IF U = {} THEN 0 ELSE f[First(U)] + sum(U \ {First(U)})
  BY <1>1, SumUnfolds
<1> HIDE DEF Bad, Sizes, sum
<1>8. CASE T = {}
  <2>1. sum(T) = 0
    BY <1>5, <1>7, <1>8
  <2> QED
    BY <1>5, <1>8, <2>1
<1>9. CASE T # {}
  <2> DEFINE c == First(T)
  <2>1. c \in T
    BY <1>9 DEF First
  <2>2. sum(T) = f[c] + sum(T \ {c}) /\ f[c] \in Nat
    BY <1>5, <1>7, <1>9, <2>1
  <2> HIDE DEF c
  <2>3. Good(T \ {c})
    BY <1>6, <2>1
  <2>5. sum(T) \in Nat
    BY <2>2, <2>3
  <2>4. ASSUME NEW x \in T, x # c PROVE sum(T) = f[x] + sum(T \ {x})
    <3>1. sum(T \ {c}) = f[x] + sum((T \ {c}) \ {x})
      BY <2>1, <2>3, <2>4
    <3>2. sum(T \ {x}) = f[c] + sum((T \ {x}) \ {c})
      <4>1. Good(T \ {x})
        BY <1>6
      <4> QED
        BY <2>1, <2>4, <4>1
    <3>3. (T \ {c}) \ {x} = (T \ {x}) \ {c}
      OBVIOUS
    <3>4. sum((T \ {c}) \ {x}) \in Nat
      <4>1. Good((T \ {c}) \ {x})
        BY <1>6, <2>1
      <4> QED
        BY <4>1
    <3>5. f[x] \in Nat
      BY <1>5
    <3>6. sum((T \ {c}) \ {x}) = sum((T \ {x}) \ {c})
      BY <3>3
    <3>7. ASSUME NEW t, NEW tc, NEW tx, NEW tcx \in Nat, NEW u \in Nat, NEW v \in Nat,
                 t = u + tc, tc = v + tcx, tx = u + tcx
          PROVE  t = v + tx
      BY <3>7
    <3> QED
      BY <2>2, <3>1, <3>2, <3>4, <3>5, <3>6, <3>7
  <2> QED
    BY <1>5, <2>2, <2>4, <2>5
<1> QED
  BY <1>8, <1>9

LEMMA SumOfNone == ASSUME NEW f PROVE SumFunctionOnSet(f, {}) = 0
<1>1. IsFiniteSet({}) /\ {} = {} \ {First({})}
  BY FS_EmptySet
<1> QED
  BY <1>1, SumUnfolds

LEMMA SumAdd ==
    ASSUME NEW f, NEW S, IsFiniteSet(S), NEW x, x \notin S,
           \A y \in S \cup {x} : f[y] \in Nat
    PROVE  /\ SumFunctionOnSet(f, S) \in Nat
           /\ SumFunctionOnSet(f, S \cup {x}) = f[x] + SumFunctionOnSet(f, S)
<1> DEFINE U == S \cup {x}
<1>1. IsFiniteSet(U) /\ U \ {x} = S /\ x \in U
  BY FS_AddElement
<1>2. \A y \in U : SumFunctionOnSet(f, U) = f[y] + SumFunctionOnSet(f, U \ {y})
  <2> HIDE DEF U
  <2>1. \A y \in U : f[y] \in Nat
    BY DEF U
  <2> QED
    BY <1>1, <2>1, SumOf
<1>3. SumFunctionOnSet(f, U) = f[x] + SumFunctionOnSet(f, U \ {x})
  BY <1>1, <1>2
<1>4. SumFunctionOnSet(f, U \ {x}) = SumFunctionOnSet(f, S)
  BY <1>1
<1>5. SumFunctionOnSet(f, S) \in Nat
  BY SumOf
<1> QED
  BY <1>3, <1>4, <1>5

\* Less, of less: a smaller sum.
LEMMA SumMonotone ==
    ASSUME NEW S, IsFiniteSet(S), NEW T \in SUBSET S, NEW f, NEW g,
           \A x \in T : f[x] \in Nat,
           \A x \in S : g[x] \in Nat,
           \A x \in T : f[x] <= g[x]
    PROVE  SumFunctionOnSet(f, T) <= SumFunctionOnSet(g, S)
<1> DEFINE G == {U \in SUBSET S : SumFunctionOnSet(f, U \cap T) <= SumFunctionOnSet(g, U)}
<1>1. {} \in G
  <2>1. {} \cap T = {}
    OBVIOUS
  <2> QED
    BY <2>1, SumOfNone
<1>2. ASSUME NEW U \in SUBSET S, NEW x \in S \ U, U \in G
      PROVE  U \cup {x} \in G
  <2>1. IsFiniteSet(U) /\ IsFiniteSet(U \cap T)
    <3>1. U \cap T \in SUBSET S
      OBVIOUS
    <3> QED
      BY <3>1, FS_Subset
  <2>2. /\ SumFunctionOnSet(g, U) \in Nat
        /\ SumFunctionOnSet(g, U \cup {x}) = g[x] + SumFunctionOnSet(g, U)
    BY <2>1, SumAdd
  <2>3. SumFunctionOnSet(f, U \cap T) <= SumFunctionOnSet(g, U)
    BY <1>2
  <2>4. g[x] \in Nat
    OBVIOUS
  <2>5. CASE x \in T
    <3>1. (U \cup {x}) \cap T = (U \cap T) \cup {x} /\ x \notin U \cap T
      BY <2>5
    <3>2. \A y \in (U \cap T) \cup {x} : f[y] \in Nat
      BY <2>5
    <3>3. /\ SumFunctionOnSet(f, U \cap T) \in Nat
          /\ SumFunctionOnSet(f, (U \cap T) \cup {x}) = f[x] + SumFunctionOnSet(f, U \cap T)
      BY <2>1, <3>1, <3>2, SumAdd
    <3>4. SumFunctionOnSet(f, (U \cup {x}) \cap T) = f[x] + SumFunctionOnSet(f, U \cap T)
      BY <3>1, <3>3
    <3>5. f[x] \in Nat /\ f[x] <= g[x]
      BY <2>5
    <3>6. SumFunctionOnSet(f, (U \cup {x}) \cap T) <= SumFunctionOnSet(g, U \cup {x})
      BY <2>2, <2>3, <2>4, <3>3, <3>4, <3>5
    <3> QED
      BY <3>6
  <2>6. CASE x \notin T
    <3>1. (U \cup {x}) \cap T = U \cap T
      BY <2>6
    <3>2. SumFunctionOnSet(f, U \cap T) \in Nat
      BY <2>1, SumOf
    <3>3. SumFunctionOnSet(f, (U \cup {x}) \cap T) = SumFunctionOnSet(f, U \cap T)
      BY <3>1
    <3>4. SumFunctionOnSet(f, (U \cup {x}) \cap T) <= SumFunctionOnSet(g, U \cup {x})
      BY <2>2, <2>3, <2>4, <3>2, <3>3
    <3> QED
      BY <3>4
  <2> QED
    BY <2>5, <2>6
<1>3. S \in G
  <2> HIDE DEF G
  <2>1. \A U \in SUBSET S : U \in G
    BY <1>1, <1>2, Subsets
  <2> QED
    BY <2>1
<1>4. S \cap T = T
  OBVIOUS
<1> QED
  BY <1>3, <1>4

\* More, of more than one element: a greater sum.
LEMMA SumRises ==
    ASSUME NEW S, IsFiniteSet(S), NEW x, NEW f, NEW g,
           \A y \in S \cup {x} : f[y] \in Nat /\ g[y] \in Nat /\ f[y] <= g[y],
           f[x] < g[x]
    PROVE  SumFunctionOnSet(f, S) < SumFunctionOnSet(g, S \cup {x})
<1> DEFINE A == S \ {x}
<1>1. IsFiniteSet(A) /\ x \notin A /\ A \cup {x} = S \cup {x} /\ A \in SUBSET A
  BY FS_Subset
<1>2. \A y \in A \cup {x} : f[y] \in Nat /\ g[y] \in Nat /\ f[y] <= g[y]
  OBVIOUS
<1>3. S = A \/ S = A \cup {x}
  OBVIOUS
<1> HIDE DEF A
<1>4. /\ SumFunctionOnSet(f, A) \in Nat
      /\ SumFunctionOnSet(f, A \cup {x}) = f[x] + SumFunctionOnSet(f, A)
  BY <1>1, <1>2, SumAdd
<1>5. /\ SumFunctionOnSet(g, A) \in Nat
      /\ SumFunctionOnSet(g, A \cup {x}) = g[x] + SumFunctionOnSet(g, A)
  BY <1>1, <1>2, SumAdd
<1>6. SumFunctionOnSet(f, A) <= SumFunctionOnSet(g, A)
  BY <1>1, <1>2, SumMonotone
<1>7. SumFunctionOnSet(f, S) <= f[x] + SumFunctionOnSet(f, A)
  <2>1. CASE S = A
    <3>1. SumFunctionOnSet(f, S) = SumFunctionOnSet(f, A)
      BY <2>1
    <3> QED
      BY <1>2, <1>4, <3>1
  <2>2. CASE S = A \cup {x}
    <3>1. SumFunctionOnSet(f, S) = SumFunctionOnSet(f, A \cup {x})
      BY <2>2
    <3> QED
      BY <1>2, <1>4, <3>1
  <2> QED
    BY <1>3, <2>1, <2>2
<1>8. SumFunctionOnSet(f, S) \in Nat
  BY SumOf
<1>9. SumFunctionOnSet(g, S \cup {x}) = g[x] + SumFunctionOnSet(g, A)
  BY <1>1, <1>5
<1>10. f[x] \in Nat /\ g[x] \in Nat
  BY <1>2
<1> QED
  BY <1>4, <1>5, <1>6, <1>7, <1>8, <1>9, <1>10

LEMMA SumSame ==
    ASSUME NEW S, IsFiniteSet(S), NEW f, NEW g,
           \A x \in S : f[x] \in Nat,
           \A x \in S : f[x] = g[x]
    PROVE  SumFunctionOnSet(f, S) = SumFunctionOnSet(g, S)
<1>1. S \in SUBSET S /\ \A x \in S : g[x] \in Nat /\ f[x] <= g[x] /\ g[x] <= f[x]
  OBVIOUS
<1>2. /\ SumFunctionOnSet(f, S) <= SumFunctionOnSet(g, S)
      /\ SumFunctionOnSet(g, S) <= SumFunctionOnSet(f, S)
  BY <1>1, SumMonotone
<1>3. SumFunctionOnSet(f, S) \in Nat /\ SumFunctionOnSet(g, S) \in Nat
  BY <1>1, SumOf
<1> QED
  BY <1>2, <1>3

LEMMA SumOfBoth ==
    ASSUME NEW A, IsFiniteSet(A), NEW B, IsFiniteSet(B), A \cap B = {},
           NEW f, \A x \in A \cup B : f[x] \in Nat
    PROVE  SumFunctionOnSet(f, A \cup B) = SumFunctionOnSet(f, A) + SumFunctionOnSet(f, B)
<1> DEFINE G == {U \in SUBSET B : SumFunctionOnSet(f, A \cup U)
                                  = SumFunctionOnSet(f, A) + SumFunctionOnSet(f, U)}
<1>1. SumFunctionOnSet(f, A) \in Nat
  BY SumOf
<1>2. {} \in G
  <2>1. A \cup {} = A
    OBVIOUS
  <2>2. SumFunctionOnSet(f, A \cup {}) = SumFunctionOnSet(f, A) + SumFunctionOnSet(f, {})
    BY <1>1, <2>1, SumOfNone
  <2> QED
    BY <2>2
<1>3. ASSUME NEW U \in SUBSET B, NEW x \in B \ U, U \in G
      PROVE  U \cup {x} \in G
  <2>1. IsFiniteSet(U) /\ IsFiniteSet(A \cup U)
    BY FS_Subset, FS_Union
  <2>2. x \notin U /\ x \notin A \cup U /\ A \cup (U \cup {x}) = (A \cup U) \cup {x}
    OBVIOUS
  <2>3. SumFunctionOnSet(f, A \cup U) = SumFunctionOnSet(f, A) + SumFunctionOnSet(f, U)
    BY <1>3
  <2>4. /\ SumFunctionOnSet(f, U) \in Nat
        /\ SumFunctionOnSet(f, U \cup {x}) = f[x] + SumFunctionOnSet(f, U)
    BY <2>1, <2>2, SumAdd
  <2>5. SumFunctionOnSet(f, (A \cup U) \cup {x}) = f[x] + SumFunctionOnSet(f, A \cup U)
    <3>1. \A y \in (A \cup U) \cup {x} : f[y] \in Nat
      OBVIOUS
    <3> QED
      BY <2>1, <2>2, <3>1, SumAdd
  <2>6. SumFunctionOnSet(f, A \cup (U \cup {x})) = f[x] + SumFunctionOnSet(f, A \cup U)
    BY <2>2, <2>5
  <2>7. f[x] \in Nat
    OBVIOUS
  <2>8. SumFunctionOnSet(f, A \cup (U \cup {x}))
        = SumFunctionOnSet(f, A) + SumFunctionOnSet(f, U \cup {x})
    BY <1>1, <2>3, <2>4, <2>6, <2>7
  <2> QED
    BY <2>8
<1>4. B \in G
  <2> HIDE DEF G
  <2>1. \A U \in SUBSET B : U \in G
    BY <1>2, <1>3, Subsets
  <2> QED
    BY <2>1
<1> QED
  BY <1>4

LEMMA KeysFinite ==
    ASSUME NEW S, IsFiniteSet(S), NEW key PROVE IsFiniteSet({key[x] : x \in S})
<1> DEFINE G == {U \in SUBSET S : IsFiniteSet({key[x] : x \in U})}
<1>1. {} \in G
  <2>1. {key[x] : x \in {}} = {}
    OBVIOUS
  <2> QED
    BY <2>1, FS_EmptySet
<1>2. ASSUME NEW U \in SUBSET S, NEW y \in S \ U, U \in G
      PROVE  U \cup {y} \in G
  <2>1. {key[x] : x \in U \cup {y}} = {key[x] : x \in U} \cup {key[y]}
    OBVIOUS
  <2>2. IsFiniteSet({key[x] : x \in U} \cup {key[y]})
    BY <1>2, FS_AddElement
  <2> QED
    BY <2>1, <2>2
<1>3. S \in G
  <2> HIDE DEF G
  <2>1. \A U \in SUBSET S : U \in G
    BY <1>1, <1>2, Subsets
  <2> QED
    BY <2>1
<1> QED
  BY <1>3

\* Those whose key is one of L
Group(S, key, L) == {x \in S : key[x] \in L}

SumsGroups(h, L, f, S, key) ==
    \A k \in L : h[k] = SumFunctionOnSet(f, Group(S, key, {k}))

CountsGroups(h, L, S, key) == \A k \in L : h[k] = Cardinality(Group(S, key, {k}))

\* The sums of the groups make up the sum of all that is in them.
LEMMA SumOfGroups ==
    ASSUME NEW S, IsFiniteSet(S), NEW f, \A x \in S : f[x] \in Nat, NEW key,
           NEW L, IsFiniteSet(L), NEW h, SumsGroups(h, L, f, S, key)
    PROVE  SumFunctionOnSet(h, L) = SumFunctionOnSet(f, Group(S, key, L))
<1> DEFINE in(U) == Group(S, key, U)
           G == {U \in SUBSET L : SumFunctionOnSet(h, U) = SumFunctionOnSet(f, in(U))}
<1>1. \A U : IsFiniteSet(in(U)) /\ in(U) \in SUBSET S
  BY FS_Subset DEF Group
<1>2. {} \in G
  <2>1. in({}) = {}
    BY DEF Group
  <2>2. SumFunctionOnSet(h, {}) = SumFunctionOnSet(f, in({}))
    BY <2>1, SumOfNone
  <2> QED
    BY <2>2
<1>3. \A k \in L : h[k] \in Nat /\ h[k] = SumFunctionOnSet(f, in({k}))
  <2> TAKE k \in L
  <2>1. \A x \in in({k}) : f[x] \in Nat
    BY DEF Group
  <2> HIDE DEF in
  <2>2. SumFunctionOnSet(f, in({k})) \in Nat
    BY <1>1, <2>1, SumOf
  <2>3. h[k] = SumFunctionOnSet(f, in({k}))
    BY DEF in, SumsGroups
  <2> QED
    BY <2>2, <2>3
<1>4. ASSUME NEW U \in SUBSET L, NEW k \in L \ U, U \in G
      PROVE  U \cup {k} \in G
  <2>1. IsFiniteSet(U)
    BY FS_Subset
  <2>2. SumFunctionOnSet(h, U \cup {k}) = h[k] + SumFunctionOnSet(h, U)
    BY <1>3, <2>1, SumAdd
  <2>3. SumFunctionOnSet(h, U) = SumFunctionOnSet(f, in(U))
    BY <1>4
  <2>4. in(U \cup {k}) = in(U) \cup in({k}) /\ in(U) \cap in({k}) = {}
    BY DEF Group
  <2>5. \A x \in in(U) \cup in({k}) : f[x] \in Nat
    BY DEF Group
  <2> HIDE DEF in
  <2>6. SumFunctionOnSet(f, in(U) \cup in({k}))
        = SumFunctionOnSet(f, in(U)) + SumFunctionOnSet(f, in({k}))
    BY <1>1, <2>4, <2>5, SumOfBoth
  <2>7. SumFunctionOnSet(f, in(U)) \in Nat
    BY <1>1, <2>5, SumOf
  <2>8. SumFunctionOnSet(f, in(U \cup {k})) = SumFunctionOnSet(f, in(U) \cup in({k}))
    BY <2>4
  <2>9. h[k] \in Nat /\ h[k] = SumFunctionOnSet(f, in({k}))
    BY <1>3
  <2>10. SumFunctionOnSet(h, U \cup {k}) = SumFunctionOnSet(f, in(U \cup {k}))
    BY <2>2, <2>3, <2>6, <2>7, <2>8, <2>9
  <2> QED
    BY <2>10
<1>5. L \in G
  <2> HIDE DEF G
  <2>1. \A U \in SUBSET L : U \in G
    BY <1>2, <1>4, Subsets
  <2> QED
    BY <2>1
<1> QED
  BY <1>5

LEMMA CountIsSum ==
    ASSUME NEW S, IsFiniteSet(S), NEW one, \A x \in S : one[x] = 1
    PROVE  Cardinality(S) = SumFunctionOnSet(one, S)
<1> DEFINE G == {U \in SUBSET S : Cardinality(U) = SumFunctionOnSet(one, U)}
<1>1. {} \in G
  BY SumOfNone, FS_EmptySet
<1>2. ASSUME NEW U \in SUBSET S, NEW x \in S \ U, U \in G
      PROVE  U \cup {x} \in G
  <2>1. IsFiniteSet(U)
    BY FS_Subset
  <2>2. /\ SumFunctionOnSet(one, U) \in Nat
        /\ SumFunctionOnSet(one, U \cup {x}) = one[x] + SumFunctionOnSet(one, U)
    BY <2>1, SumAdd
  <2>3. Cardinality(U \cup {x}) = Cardinality(U) + 1
    BY <2>1, FS_AddElement
  <2> QED
    BY <1>2, <2>2, <2>3
<1>3. S \in G
  <2> HIDE DEF G
  <2>1. \A U \in SUBSET S : U \in G
    BY <1>1, <1>2, Subsets
  <2> QED
    BY <2>1
<1> QED
  BY <1>3

LEMMA CountOfGroups ==
    ASSUME NEW S, IsFiniteSet(S), NEW key, NEW L, IsFiniteSet(L), NEW h,
           CountsGroups(h, L, S, key)
    PROVE  SumFunctionOnSet(h, L) = Cardinality(Group(S, key, L))
<1>1. \A U : Group(S, key, U) \in SUBSET S
  BY DEF Group
<1>2. PICK one : \A x \in S : one[x] = 1
  <2>1. \A x \in S : [y \in S |-> 1][x] = 1
    OBVIOUS
  <2> QED
    BY <2>1
<1>3. \A T \in SUBSET S : Cardinality(T) = SumFunctionOnSet(one, T)
  <2> TAKE T \in SUBSET S
  <2>1. IsFiniteSet(T) /\ \A x \in T : one[x] = 1
    BY <1>2, FS_Subset
  <2> QED
    BY <2>1, CountIsSum
<1>4. \A x \in S : one[x] \in Nat
  BY <1>2
<1>5. SumsGroups(h, L, one, S, key)
  BY <1>1, <1>3 DEF CountsGroups, SumsGroups
<1>6. SumFunctionOnSet(h, L) = SumFunctionOnSet(one, Group(S, key, L))
  BY <1>4, <1>5, SumOfGroups
<1> QED
  BY <1>1, <1>3, <1>6

-----------------------------------------------------------------------------
(* The queries, over the rows there are.                                   *)

\* Rows are of the past, as they are stored and as time goes on.
Sound ==
    /\ Ids \subseteq LogIds /\ rows \in [Ids -> Rows]
    /\ now \in Nat
    /\ \A id \in Ids : rows[id].ts <= now

LEMMA RowTypes ==
    Rows \subseteq {r \in Rows : r.tokens \in Nat /\ r.ts \in Nat}
<1> SUFFICES ASSUME NEW r \in Rows PROVE r.tokens \in Nat /\ r.ts \in Nat
  OBVIOUS
<1>1. PICK kind \in Kinds, ts \in Times : r = Row(kind, ts)
  BY DEF Rows
<1>2. ts \in Nat
  BY QueriesAssumption
<1> QED
  BY <1>1, <1>2, KindsAssumption DEF Row

LEMMA IdTypes ==
    Sound => /\ IsFiniteSet(Ids)
             /\ \A id \in Ids : /\ rows[id] \in Rows
                                /\ rows[id].tokens \in Nat /\ rows[id].ts \in Nat
                                /\ Tokens[id] = rows[id].tokens
<1> SUFFICES ASSUME Sound
             PROVE  /\ IsFiniteSet(Ids)
                    /\ \A id \in Ids : /\ rows[id] \in Rows
                                       /\ rows[id].tokens \in Nat /\ rows[id].ts \in Nat
                                       /\ Tokens[id] = rows[id].tokens
  OBVIOUS
<1>1. \A id \in Ids : rows[id] \in Rows
  BY DEF Sound
<1>2. IsFiniteSet(Ids)
  <2>1. IsFiniteSet(LogIds)
    BY QueriesAssumption, FS_Interval DEF LogIds
  <2> QED
    BY <2>1, FS_Subset DEF Sound
<1>3. \A id \in Ids : Tokens[id] = rows[id].tokens
  BY DEF Tokens
<1> QED
  BY <1>1, <1>2, <1>3, RowTypes

GroupsOf(ids, key, L) == [k \in L |-> Totals(Group(ids, key, {k}))]

\* Whatever they are grouped by, the groups add up to all that is in them.
LEMMA GroupsAddUp ==
    ASSUME Sound, NEW ids \in SUBSET Ids, NEW key, NEW L, IsFiniteSet(L)
    PROVE  AddUp(GroupsOf(ids, key, L)) = Totals(Group(ids, key, L))
<1> DEFINE groups == GroupsOf(ids, key, L)
<1>1. IsFiniteSet(ids) /\ \A id \in ids : Tokens[id] \in Nat
  BY IdTypes, FS_Subset
<1>2. PICK h : h = [k \in L |-> groups[k].calls]
  OBVIOUS
<1>3. PICK t : t = [k \in L |-> groups[k].tokens]
  OBVIOUS
<1>4. CountsGroups(h, L, ids, key)
  BY <1>2 DEF CountsGroups, GroupsOf, Totals
<1>5. SumsGroups(t, L, Tokens, ids, key)
  BY <1>3 DEF SumsGroups, GroupsOf, Totals
<1>6. SumFunctionOnSet(h, L) = Cardinality(Group(ids, key, L))
  BY <1>1, <1>4, CountOfGroups
<1>7. SumFunctionOnSet(t, L) = SumFunctionOnSet(Tokens, Group(ids, key, L))
  BY <1>1, <1>5, SumOfGroups
<1>8. DOMAIN groups = L /\ DOMAIN h = L /\ DOMAIN t = L
  BY <1>2, <1>3 DEF GroupsOf
<1>9. AddUp(groups) = [calls |-> SumFunctionOnSet(h, L), tokens |-> SumFunctionOnSet(t, L)]
  BY <1>2, <1>3, <1>8 DEF AddUp, SumFunction
<1> QED
  BY <1>6, <1>7, <1>9 DEF Totals

LEMMA GroupByAddsUp ==
    ASSUME Sound, NEW ids \in SUBSET Ids, NEW key
    PROVE  AddUp(GroupBy(key, ids)) = Totals(ids)
<1> DEFINE L == {key[id] : id \in ids}
<1>1. IsFiniteSet(ids)
  BY IdTypes, FS_Subset
<1>2. IsFiniteSet(L)
  BY <1>1, KeysFinite
<1>3. GroupBy(key, ids) = GroupsOf(ids, key, L)
  <2>1. \A k \in L : {id \in ids : key[id] = k} = Group(ids, key, {k})
    BY DEF Group
  <2> QED
    BY <2>1 DEF GroupBy, GroupsOf
<1>4. Group(ids, key, L) = ids
  BY DEF Group
<1> HIDE DEF L
<1> QED
  BY <1>2, <1>3, <1>4, GroupsAddUp

\* The usage clause refuses what shows nothing, and nothing is of the future.
LEMMA SelectedIsUsage ==
    ASSUME Sound, NEW source
    PROVE  /\ Selected(source) = Usage(source)
           /\ {id \in Scoped(source) : HasUsage(id)} = Usage(source)
           /\ Usage(source) \in SUBSET Ids
<1>1. RangeLength \in Nat
  BY QueriesAssumption DEF RangeLength
<1>2. \A id \in Ids : /\ rows[id].tokens \in Nat /\ rows[id].ts \in Nat
                      /\ rows[id].ts <= now /\ now \in Nat
  BY IdTypes DEF Sound
<1>3. \A id \in Ids : (rows[id].tokens > 0 <=> rows[id].tokens # 0)
                      /\ (rows[id].ts >= now - RangeLength
                          <=> rows[id].ts \in now - RangeLength .. now)
  BY <1>1, <1>2
<1> QED
  BY <1>3 DEF Selected, Scoped, HasUsage, ShowsUsage, Usage

LEMMA Periods ==
    ASSUME NEW s \in Nat, NEW t \in Nat, s <= t
    PROVE  Period(s) \in Int /\ Period(t) \in Int /\ Period(s) <= Period(t)
  BY QueriesAssumption DEF Period

\* The periods of the chart hold what is in the range, but for the rest of a
\* period with which the range begins.
LEMMA ChartAddsUp ==
    ASSUME Sound, NEW source
    PROVE  AddUp(Daily(source)) = Totals(Usage(source) \ BeforeChart(Usage(source)))
<1> DEFINE ids == Selected(source)
<1>1. ids = Usage(source) /\ ids \in SUBSET Ids
  BY SelectedIsUsage
<1>2. \A id \in Ids : /\ Period(rows[id].ts) \in Int
                      /\ Period(rows[id].ts) <= Period(now)
                      /\ Period(now) \in Int
                      /\ PeriodOf[id] = Period(rows[id].ts)
  <2> TAKE id \in Ids
  <2>1. rows[id].ts \in Nat /\ now \in Nat /\ rows[id].ts <= now
    BY IdTypes DEF Sound
  <2> QED
    BY <2>1, Periods DEF PeriodOf
<1>3. Period(now) \in Int /\ MaxBuckets \in Nat
  <2>1. now \in Nat /\ now <= now
    BY DEF Sound
  <2> QED
    BY <2>1, Periods, QueriesAssumption
<1>4. IsFiniteSet(ExpectedPeriods)
  BY <1>3, FS_Interval DEF ExpectedPeriods
<1>5. Group(ids, PeriodOf, ExpectedPeriods) = ids \ BeforeChart(ids)
  <2>1. ASSUME NEW id \in ids
        PROVE  PeriodOf[id] \in ExpectedPeriods
               <=> ~ Period(rows[id].ts) <= Period(now) - MaxBuckets
    <3>1. /\ Period(rows[id].ts) \in Int /\ Period(rows[id].ts) <= Period(now)
          /\ PeriodOf[id] = Period(rows[id].ts)
      BY <1>1, <1>2
    <3> HIDE DEF ids
    <3> QED
      BY <1>3, <3>1 DEF ExpectedPeriods
  <2> HIDE DEF ids
  <2> QED
    BY <2>1 DEF Group, BeforeChart
<1>6. Daily(source) = GroupsOf(ids, PeriodOf, ExpectedPeriods)
  <2> DEFINE groups == GroupBy(PeriodOf, ids)
             K == {PeriodOf[id] : id \in ids}
  <2> HIDE DEF ids
  <2>1. DOMAIN groups = K /\ \A p \in K : groups[p] = Totals({id \in ids : PeriodOf[id] = p})
    BY DEF GroupBy
  <2>2. \A p : {id \in ids : PeriodOf[id] = p} = Group(ids, PeriodOf, {p})
    BY DEF Group
  <2>3. \A p : p \notin K => Group(ids, PeriodOf, {p}) = {}
    BY DEF Group
  <2>4. ASSUME NEW p \in ExpectedPeriods
        PROVE  (IF p \in DOMAIN groups THEN groups[p] ELSE Totals({}))
               = Totals(Group(ids, PeriodOf, {p}))
    <3>1. CASE p \in K
      BY <2>1, <2>2, <3>1
    <3>2. CASE p \notin K
      <4>1. Group(ids, PeriodOf, {p}) = {}
        BY <2>3, <3>2
      <4> HIDE DEF K, groups
      <4> QED
        BY <2>1, <3>2, <4>1
    <3> QED
      BY <3>1, <3>2
  <2>5. Daily(source) = [p \in ExpectedPeriods |->
                            IF p \in DOMAIN groups THEN groups[p] ELSE Totals({})]
    BY DEF Daily, ids
  <2> HIDE DEF groups
  <2> QED
    BY <2>4, <2>5 DEF GroupsOf
<1> HIDE DEF ids
<1>7. AddUp(Daily(source)) = Totals(Group(ids, PeriodOf, ExpectedPeriods))
  BY <1>1, <1>4, <1>6, GroupsAddUp
<1> QED
  BY <1>1, <1>5, <1>7
-----------------------------------------------------------------------------
(* What a request has read.                                                *)

Elapsed == now <= Noon + steps /\ steps <= MaxSteps

\* Raw-only tasks are read of Codex, after the tasks.
Asked ==
    /\ DOMAIN request = {"pc", "source", "separate", "state", "summary", "daily", "tasks",
                         "rawOnly", "models"}
    /\ request.pc \in {"state", "summary", "daily", "tasks"} => request.rawOnly = {}
    /\ request.pc = "rawOnly" => request.source = "codex"

UsageIds == {id \in Ids : HasUsage(id)}

\* The counters of data_state do not fall but by rewriting.
StateBehind ==
    request.pc # "state" /\ ~rewritten =>
        /\ request.state.turns \in Nat /\ request.state.turns <= Cardinality(UsageIds)
        /\ request.state.tokens \in Nat
        /\ request.state.tokens <= SumFunctionOnSet(Tokens, UsageIds)

\* The two that tell whether there was other usage when the version was read
Current ==
    /\ request.state.turns = Cardinality(UsageIds)
    /\ request.state.tokens = SumFunctionOnSet(Tokens, UsageIds)
    /\ ~ticked /\ ~rewritten

InPeriod(ids, p) == {id \in ids : Period(rows[id].ts) = p}

\* TasksAgree, as long as rows that show nothing are stored, and a row of each
\* thread that is listed, for which it is no raw-only task
TasksCounted ==
    /\ AddUp(request.tasks) = Totals(Usage(request.source))
    /\ \A key \in DOMAIN request.tasks :
        IF request.separate
        THEN /\ request.tasks[key].tokens \in Nat
             /\ TaskDetail(key).tokens >= request.tasks[key].tokens
             /\ \E id \in Ids : rows[id].source = request.source /\ rows[id].thread = key
        ELSE request.tasks[key] = Totals(InPeriod(Usage(request.source), key))
    /\ request.separate => request.rawOnly \cap DOMAIN request.tasks = {}

HasRead(part) ==
    CASE part = "summary" -> request.pc \in {"daily", "tasks", "rawOnly", "models", "done"}
      [] part = "daily"   -> request.pc \in {"tasks", "rawOnly", "models", "done"}
      [] part = "tasks"   -> request.pc \in {"rawOnly", "models", "done"}
      [] part = "models"  -> request.pc = "done"

PartsAgree ==
    /\ HasRead("summary") => SummaryAgrees
    /\ HasRead("daily") => ChartAgrees
    /\ HasRead("tasks") => TasksCounted
    /\ HasRead("models") => ModelsAgree

QueriesInv ==
    /\ QueriesTypeOK /\ Sound /\ Elapsed /\ Asked /\ StateBehind
    /\ Current => PartsAgree

-----------------------------------------------------------------------------
(* Each query tells the truth when it is read.                             *)

LEMMA SummaryTrue ==
    ASSUME Sound, NEW source PROVE Summary(source) = Totals(Usage(source))
  BY SelectedIsUsage, GroupByAddsUp DEF Summary

LEMMA ModelsTrue ==
    ASSUME Sound, NEW source PROVE AddUp(Models(source)) = Totals(Usage(source))
  BY SelectedIsUsage, GroupByAddsUp DEF Models

LEMMA TotalsType ==
    ASSUME Sound, NEW ids \in SUBSET Ids PROVE Totals(ids).tokens \in Nat
<1>1. IsFiniteSet(ids) /\ \A id \in ids : Tokens[id] \in Nat
  BY IdTypes, FS_Subset
<1>2. SumFunctionOnSet(Tokens, ids) \in Nat
  BY <1>1, SumOf
<1> QED
  BY <1>2 DEF Totals

\* A thread's rows of all times have at least the tokens of some of them.
LEMMA ThreadsTrue ==
    ASSUME Sound, NEW source
    PROVE  /\ AddUp(UsageTasks(source)) = Totals(Usage(source))
           /\ \A key \in DOMAIN UsageTasks(source) :
                /\ UsageTasks(source)[key].tokens \in Nat
                /\ TaskDetail(key).tokens >= UsageTasks(source)[key].tokens
                /\ \E id \in Ids : rows[id].source = source /\ rows[id].thread = key
<1>1. Selected(source) = Usage(source) /\ Selected(source) \in SUBSET Ids
  BY SelectedIsUsage
<1>2. AddUp(UsageTasks(source)) = Totals(Usage(source))
  BY <1>1, GroupByAddsUp DEF UsageTasks
<1>3. DOMAIN UsageTasks(source) = {ThreadOf[id] : id \in Selected(source)}
  BY DEF UsageTasks, GroupBy
<1>4. ASSUME NEW key \in DOMAIN UsageTasks(source)
      PROVE  /\ UsageTasks(source)[key].tokens \in Nat
             /\ TaskDetail(key).tokens >= UsageTasks(source)[key].tokens
  <2> DEFINE some == {id \in Selected(source) : ThreadOf[id] = key}
             all == {id \in Ids : rows[id].thread = key}
  <2>1. UsageTasks(source)[key] = Totals(some) /\ TaskDetail(key) = Totals(all)
    BY <1>3 DEF UsageTasks, GroupBy, TaskDetail
  <2>2. some \in SUBSET all /\ all \in SUBSET Ids /\ some \in SUBSET Ids
    BY <1>1 DEF ThreadOf
  <2> HIDE DEF some, all
  <2>3. IsFiniteSet(all) /\ \A id \in all : Tokens[id] \in Nat
    BY <2>2, IdTypes, FS_Subset
  <2>4. \A id \in some : Tokens[id] \in Nat /\ Tokens[id] <= Tokens[id]
    BY <2>2, <2>3
  <2>5. SumFunctionOnSet(Tokens, some) <= SumFunctionOnSet(Tokens, all)
    BY <2>2, <2>3, <2>4, SumMonotone
  <2>6. Totals(some).tokens \in Nat /\ Totals(all).tokens \in Nat
    BY <2>2, TotalsType
  <2>7. Totals(some).tokens <= Totals(all).tokens
    BY <2>5 DEF Totals
  <2> QED
    BY <2>1, <2>6, <2>7
<1>5. ASSUME NEW key \in DOMAIN UsageTasks(source)
      PROVE  \E id \in Ids : rows[id].source = source /\ rows[id].thread = key
  <2>1. PICK id \in Selected(source) : ThreadOf[id] = key
    BY <1>3
  <2> QED
    BY <1>1, <2>1 DEF Usage, ThreadOf
<1> QED
  BY <1>2, <1>4, <1>5

\* A chat of which there is a row is none without usage.
LEMMA RawOnlyHaveNoRows ==
    \A thread \in RawOnlyTasks : \A id \in Ids : Codex(id) => rows[id].thread # thread
  BY DEF RawOnlyTasks, RawOnlyTask

LEMMA BucketsTrue ==
    ASSUME Sound, NEW source
    PROVE  /\ AddUp(TaskBuckets(source)) = Totals(Usage(source))
           /\ \A p \in DOMAIN TaskBuckets(source) :
                TaskBuckets(source)[p] = Totals(InPeriod(Usage(source), p))
<1> DEFINE ids == Selected(source)
           L == {PeriodOf[id] : id \in ids}
           in(p) == {id \in ids : PeriodOf[id] = p}
<1>1. ids = Usage(source) /\ ids \in SUBSET Ids
  BY SelectedIsUsage
<1>2. \A p : /\ in(p) \in SUBSET Ids
             /\ in(p) = Group(ids, PeriodOf, {p})
             /\ in(p) = InPeriod(Usage(source), p)
  BY <1>1 DEF Group, InPeriod, PeriodOf
<1>3. IsFiniteSet(ids)
  BY <1>1, IdTypes, FS_Subset
<1>4. IsFiniteSet(L) /\ Group(ids, PeriodOf, L) = ids
  <2> HIDE DEF ids
  <2>1. IsFiniteSet(L)
    BY <1>3, KeysFinite
  <2> QED
    BY <2>1 DEF Group
<1>5. TaskBuckets(source) = [p \in L |-> IF source = "codex" THEN AddUp(GroupBy(ThreadOf, in(p)))
                                        ELSE Totals(in(p))]
  BY DEF TaskBuckets
<1> HIDE DEF in, L, ids
<1>6. \A p : AddUp(GroupBy(ThreadOf, in(p))) = Totals(in(p))
  BY <1>2, GroupByAddsUp
<1>7. TaskBuckets(source) = [p \in L |-> Totals(in(p))]
  BY <1>5, <1>6
<1>8. TaskBuckets(source) = GroupsOf(ids, PeriodOf, L)
  BY <1>2, <1>7 DEF GroupsOf
<1>9. AddUp(TaskBuckets(source)) = Totals(Usage(source))
  BY <1>1, <1>4, <1>8, GroupsAddUp
<1>10. \A p \in DOMAIN TaskBuckets(source) :
           TaskBuckets(source)[p] = Totals(InPeriod(Usage(source), p))
  BY <1>2, <1>7
<1> QED
  BY <1>9, <1>10

\* What a bucket opens to adds up to what the table says of it.
LEMMA CountedAgree ==
    ASSUME Sound, TasksCounted PROVE TasksAgree
<1> DEFINE source == request.source
<1>1. Selected(source) = Usage(source) /\ Usage(source) \in SUBSET Ids
  BY SelectedIsUsage
<1>2. ASSUME NEW p PROVE AddUp(BucketTasks(source, p)) = Totals(InPeriod(Usage(source), p))
  <2> DEFINE in == {id \in Selected(source) : PeriodOf[id] = p}
  <2>1. in = InPeriod(Usage(source), p) /\ in \in SUBSET Ids
    BY <1>1 DEF InPeriod, PeriodOf
  <2>2. BucketTasks(source, p) = GroupBy(ThreadOf, in)
    BY DEF BucketTasks
  <2> HIDE DEF in
  <2> QED
    BY <2>1, <2>2, GroupByAddsUp
<1> QED
  BY <1>2 DEF TasksCounted, TasksAgree

-----------------------------------------------------------------------------
(* The invariant.                                                          *)

LEMMA InitQueries == QueriesInit => QueriesInv
<1> SUFFICES ASSUME QueriesInit PROVE QueriesInv
  OBVIOUS
<1>1. PICK ids \in SUBSET LogIds : rows \in [ids -> {r \in Rows : r.ts <= Noon}]
  BY DEF QueriesInit
<1>2. Noon \in Nat /\ MaxSteps \in Nat
  BY QueriesAssumption
<1>3. Ids \subseteq LogIds /\ rows \in [Ids -> Rows] /\ \A id \in Ids : rows[id].ts <= Noon
  BY <1>1 DEF Ids
<1>4. Sound
  BY <1>2, <1>3 DEF Sound, QueriesInit
<1>5. PICK s \in CodexAndOpenCode, mode \in BOOLEAN : request = Request(s, mode)
  BY DEF QueriesInit
<1>6. Asked /\ request.pc = "state" /\ request.source \in CodexAndOpenCode
  BY <1>5 DEF Asked, Request
<1>7. QueriesTypeOK /\ Elapsed
  <2>1. now = Noon /\ steps = 0 /\ ticked = FALSE /\ rewritten = FALSE /\ rawLog = RawLog
    BY DEF QueriesInit
  <2>2. now \in Noon .. Noon + MaxSteps /\ steps \in 0 .. MaxSteps
    BY <1>2, <2>1
  <2>3. Elapsed
    BY <1>2, <2>1 DEF Elapsed
  <2> QED
    BY <1>3, <1>6, <2>1, <2>2, <2>3, QueriesAssumption DEF QueriesTypeOK
<1>8. StateBehind /\ PartsAgree
  BY <1>6 DEF StateBehind, PartsAgree, HasRead
<1> QED
  BY <1>4, <1>6, <1>7, <1>8 DEF QueriesInv

\* A part that is read leaves the rows, the time and the other parts.
LEMMA ReadLeaves ==
    ASSUME QueriesInv, UNCHANGED <<rows, rawLog, now, ticked, rewritten, steps>>, Asked',
           request'.pc \in {"state", "summary", "daily", "tasks", "rawOnly", "models", "done"},
           request'.source = request.source, StateBehind', Current' => PartsAgree'
    PROVE  QueriesInv'
<1>1. QueriesTypeOK'
  <2>1. UNCHANGED Ids
    BY DEF Ids
  <2> QED
    BY <2>1 DEF QueriesInv, QueriesTypeOK
<1>2. Sound' /\ Elapsed'
  BY DEF QueriesInv, Sound, Elapsed, Ids
<1> QED
  BY <1>1, <1>2 DEF QueriesInv

LEMMA ReadsKeep ==
    QueriesInv /\ (\/ ReadDataState \/ ReadSummary \/ ReadDaily \/ ReadTasks
                   \/ ReadRawOnlyTasks \/ ReadModels)
        => QueriesInv'
<1> SUFFICES ASSUME QueriesInv,
                    \/ ReadDataState \/ ReadSummary \/ ReadDaily \/ ReadTasks
                    \/ ReadRawOnlyTasks \/ ReadModels
             PROVE  QueriesInv'
  OBVIOUS
<1>1. Sound /\ Asked /\ StateBehind /\ (Current => PartsAgree)
  BY DEF QueriesInv
<1>2. UNCHANGED <<rows, rawLog, now, ticked, rewritten, steps>>
  BY DEF ReadDataState, ReadSummary, ReadDaily, ReadTasks, ReadRawOnlyTasks, ReadModels, Reads
<1>3. UNCHANGED <<Ids, Tokens, UsageIds>>
  BY <1>2 DEF Ids, Tokens, UsageIds, HasUsage
<1>4. \A source : UNCHANGED Usage(source)
  BY <1>2 DEF Usage, Ids
<1>5. \A ids : UNCHANGED Totals(ids) /\ UNCHANGED BeforeChart(ids)
  BY <1>2, <1>3 DEF Totals, BeforeChart
<1>6. \A key : UNCHANGED TaskDetail(key)
  BY <1>2, <1>3, <1>5 DEF TaskDetail
<1>7. CASE ReadDataState
  <2>1. /\ request'.pc = "summary" /\ request'.state = DataState
        /\ request'.source = request.source /\ Asked'
    BY <1>1, <1>7 DEF ReadDataState, Reads, Asked
  <2>2. /\ DataState.turns = Cardinality(UsageIds)
        /\ DataState.tokens = SumFunctionOnSet(Tokens, UsageIds)
    BY DEF DataState, UsageIds
  <2>3. IsFiniteSet(UsageIds) /\ \A id \in UsageIds : Tokens[id] \in Nat
    <3>1. UsageIds \in SUBSET Ids
      BY DEF UsageIds
    <3> QED
      BY <1>1, <3>1, IdTypes, FS_Subset
  <2>4. Cardinality(UsageIds) \in Nat /\ SumFunctionOnSet(Tokens, UsageIds) \in Nat
    BY <2>3, SumOf, FS_CardinalityType
  <2>5. StateBehind'
    BY <1>3, <2>1, <2>2, <2>4 DEF StateBehind
  <2>6. PartsAgree'
    BY <2>1 DEF PartsAgree, HasRead
  <2> QED
    BY <1>2, <2>1, <2>5, <2>6, ReadLeaves
<1>8. ASSUME request'.state = request.state, request'.source = request.source,
             request.pc # "state", PartsAgree => PartsAgree'
      PROVE  StateBehind' /\ (Current' => PartsAgree')
  <2>1. /\ Cardinality(UsageIds)' = Cardinality(UsageIds)
        /\ SumFunctionOnSet(Tokens, UsageIds)' = SumFunctionOnSet(Tokens, UsageIds)
    BY <1>3
  <2>2. rewritten' = rewritten /\ ticked' = ticked
    BY <1>2
  <2>3. StateBehind'
    BY ONLY <1>1, <1>8, <2>1, <2>2, Zenon DEF StateBehind
  <2>4. Current' => Current
    BY ONLY <1>8, <2>1, <2>2, Zenon DEF Current
  <2> QED
    BY <1>1, <1>8, <2>3, <2>4
<1>9. CASE ReadSummary
  <2>1. /\ request.pc = "summary" /\ request'.pc = "daily"
        /\ request'.summary = Summary(request.source)
        /\ request'.source = request.source /\ request'.state = request.state /\ Asked'
    BY <1>1, <1>9 DEF ReadSummary, Reads, Asked
  <2>2. Summary(request.source) = Totals(Usage(request.source))
    BY <1>1, SummaryTrue
  <2>3. SummaryAgrees'
    BY <1>4, <1>5, <2>1, <2>2 DEF SummaryAgrees
  <2>4. PartsAgree'
    BY <2>1, <2>3 DEF PartsAgree, HasRead
  <2> QED
    BY <1>2, <1>8, <2>1, <2>4, ReadLeaves
<1>10. CASE ReadDaily
  <2>1. /\ request.pc = "daily" /\ request'.pc = "tasks"
        /\ request'.daily = Daily(request.source) /\ request'.summary = request.summary
        /\ request'.source = request.source /\ request'.state = request.state /\ Asked'
    BY <1>1, <1>10 DEF ReadDaily, Reads, Asked
  <2>2. AddUp(Daily(request.source))
        = Totals(Usage(request.source) \ BeforeChart(Usage(request.source)))
    BY <1>1, ChartAddsUp
  <2>3. ChartAgrees'
    BY <1>4, <1>5, <2>1, <2>2 DEF ChartAgrees, AddUp
  <2>4. PartsAgree => SummaryAgrees'
    BY <1>4, <1>5, <2>1 DEF PartsAgree, HasRead, SummaryAgrees
  <2>5. PartsAgree => PartsAgree'
    BY <2>1, <2>3, <2>4 DEF PartsAgree, HasRead
  <2> QED
    BY <1>2, <1>8, <2>1, <2>5, ReadLeaves
<1>11. ASSUME PartsAgree, request.pc \in {"tasks", "rawOnly", "models"},
              request'.source = request.source, request'.summary = request.summary,
              request'.daily = request.daily
       PROVE  SummaryAgrees' /\ ChartAgrees'
  BY <1>4, <1>5, <1>11 DEF PartsAgree, HasRead, SummaryAgrees, ChartAgrees, AddUp
<1>12. CASE ReadTasks
  <2> DEFINE source == request.source
  <2>1. /\ request.pc = "tasks" /\ request'.pc \in {"rawOnly", "models"}
        /\ request'.tasks = IF request.separate THEN UsageTasks(source) ELSE TaskBuckets(source)
        /\ request'.rawOnly = {}
        /\ request'.separate = request.separate
        /\ request'.summary = request.summary /\ request'.daily = request.daily
        /\ request'.source = source /\ request'.state = request.state /\ Asked'
    BY <1>1, <1>12 DEF ReadTasks, Reads, Asked
  <2>2. \A ids, p : UNCHANGED InPeriod(ids, p)
    BY <1>2 DEF InPeriod
  <2>3. TasksCounted'
    <3>1. CASE request.separate
      <4>1. /\ AddUp(UsageTasks(source)) = Totals(Usage(source))
            /\ \A key \in DOMAIN UsageTasks(source) :
                /\ UsageTasks(source)[key].tokens \in Nat
                /\ TaskDetail(key).tokens >= UsageTasks(source)[key].tokens
                /\ \E id \in Ids : rows[id].source = source /\ rows[id].thread = key
        BY <1>1, ThreadsTrue
      <4>2. \A key : (\E id \in Ids : rows[id].source = source /\ rows[id].thread = key)'
                    <=> \E id \in Ids : rows[id].source = source /\ rows[id].thread = key
        BY <1>2, <1>3, <2>1
      <4> QED
        BY <1>4, <1>5, <1>6, <2>1, <3>1, <4>1, <4>2 DEF TasksCounted, AddUp
    <3>2. CASE ~ request.separate
      <4>1. /\ AddUp(TaskBuckets(source)) = Totals(Usage(source))
            /\ \A p \in DOMAIN TaskBuckets(source) :
                TaskBuckets(source)[p] = Totals(InPeriod(Usage(source), p))
        BY <1>1, BucketsTrue
      <4> QED
        BY <1>4, <1>5, <2>1, <2>2, <3>2, <4>1 DEF TasksCounted, AddUp
    <3> QED
      BY <3>1, <3>2
  <2>4. PartsAgree => PartsAgree'
    BY <1>11, <2>1, <2>3 DEF PartsAgree, HasRead
  <2> QED
    BY <1>2, <1>8, <2>1, <2>4, ReadLeaves
<1>13. CASE ReadRawOnlyTasks
  <2>1. /\ request.pc = "rawOnly" /\ request'.pc = "models"
        /\ request'.rawOnly = RawOnlyTasks
        /\ UNCHANGED <<request.tasks, request.models, request.separate, request.summary,
                       request.daily, request.source, request.state>>
        /\ request.source = "codex" /\ Asked'
    BY <1>1, <1>13 DEF ReadRawOnlyTasks, Reads, Asked
  <2>2. \A ids, p : UNCHANGED InPeriod(ids, p)
    BY <1>2 DEF InPeriod
  <2>3. TasksCounted => TasksCounted'
    <3>1. TasksCounted /\ request.separate => RawOnlyTasks \cap DOMAIN request.tasks = {}
      BY <2>1, RawOnlyHaveNoRows DEF TasksCounted, Codex
    <3> QED
      BY <1>2, <1>3, <1>4, <1>5, <1>6, <2>1, <2>2, <3>1 DEF TasksCounted, AddUp
  <2>4. PartsAgree => PartsAgree'
    BY <1>11, <2>1, <2>3 DEF PartsAgree, HasRead
  <2> QED
    BY <1>2, <1>8, <2>1, <2>4, ReadLeaves
<1>14. CASE ReadModels
  <2>1. /\ request.pc = "models" /\ request'.pc = "done"
        /\ request'.models = Models(request.source)
        /\ UNCHANGED <<request.tasks, request.rawOnly, request.separate, request.summary,
                       request.daily, request.source, request.state>>
        /\ Asked'
    BY <1>1, <1>14 DEF ReadModels, Reads, Asked
  <2>2. AddUp(Models(request.source)) = Totals(Usage(request.source))
    BY <1>1, ModelsTrue
  <2>3. ModelsAgree'
    BY <1>4, <1>5, <2>1, <2>2 DEF ModelsAgree, AddUp
  <2>4. \A ids, p : UNCHANGED InPeriod(ids, p)
    BY <1>2 DEF InPeriod
  <2>5. TasksCounted => TasksCounted'
    BY <1>2, <1>3, <1>4, <1>5, <1>6, <2>1, <2>4 DEF TasksCounted, AddUp
  <2>6. PartsAgree => PartsAgree'
    BY <1>11, <2>1, <2>3, <2>5 DEF PartsAgree, HasRead
  <2> QED
    BY <1>2, <1>8, <2>1, <2>6, ReadLeaves
<1> QED
  BY <1>7, <1>9, <1>10, <1>12, <1>13, <1>14

LEMMA TickKeeps == QueriesInv /\ Tick => QueriesInv'
<1> SUFFICES ASSUME QueriesInv, Tick PROVE QueriesInv'
  OBVIOUS
<1>1. /\ now' = now + 1 /\ UNCHANGED <<rows, rawLog, request, rewritten>>
      /\ steps < MaxSteps /\ steps' = steps + 1
  BY DEF Tick, Step
<1>2. ticked' \in BOOLEAN /\ (request.pc = "state" \/ ticked')
  BY DEF Tick
<1>3. Noon \in Nat /\ MaxSteps \in Nat
  BY QueriesAssumption
<1>4. Elapsed' /\ QueriesTypeOK'
  <2>1. UNCHANGED Ids
    BY <1>1 DEF Ids
  <2> QED
    BY <1>1, <1>2, <1>3, <2>1 DEF QueriesInv, QueriesTypeOK, Elapsed
<1>5. Sound'
  <2>1. \A id \in Ids : rows[id].ts \in Nat /\ rows[id].ts <= now /\ now \in Nat
    BY IdTypes DEF QueriesInv, Sound
  <2>2. \A id \in Ids : rows[id].ts <= now + 1
    BY <2>1
  <2> QED
    BY <1>1, <2>2 DEF QueriesInv, Sound, Ids
<1>6. Asked' /\ StateBehind'
  BY <1>1 DEF QueriesInv, Asked, StateBehind, Tokens, UsageIds, HasUsage, Ids
<1>7. Current' => PartsAgree'
  BY <1>1, <1>2 DEF Current, PartsAgree, HasRead
<1> QED
  BY <1>4, <1>5, <1>6, <1>7 DEF QueriesInv

\* What was read agrees with the same rows as before.
LEMMA SamePicture ==
    ASSUME UNCHANGED <<rows, now, request>>, PartsAgree PROVE PartsAgree'
<1>1. UNCHANGED <<Tokens, Ids>>
  BY DEF Tokens, Ids
<1>2. /\ SummaryAgrees => SummaryAgrees'
      /\ ChartAgrees => ChartAgrees'
      /\ ModelsAgree => ModelsAgree'
  BY <1>1 DEF SummaryAgrees, ChartAgrees, ModelsAgree, AddUp, Totals, Usage, BeforeChart
<1>3. TasksCounted => TasksCounted'
  <2>1. \A source : UNCHANGED Usage(source)
    BY <1>1 DEF Usage
  <2>2. \A ids : UNCHANGED Totals(ids)
    BY <1>1 DEF Totals
  <2>3. \A ids, p : UNCHANGED InPeriod(ids, p)
    BY DEF InPeriod
  <2>4. \A key : UNCHANGED TaskDetail(key)
    BY <1>1, <2>2 DEF TaskDetail
  <2> QED
    BY <1>1, <2>1, <2>2, <2>3, <2>4 DEF TasksCounted, AddUp
<1> QED
  BY <1>2, <1>3 DEF PartsAgree, HasRead

LEMMA UsageCounts ==
    Sound => /\ IsFiniteSet(UsageIds) /\ UsageIds \in SUBSET Ids
             /\ Cardinality(UsageIds) \in Nat
             /\ SumFunctionOnSet(Tokens, UsageIds) \in Nat
<1> SUFFICES ASSUME Sound
             PROVE  /\ IsFiniteSet(UsageIds) /\ UsageIds \in SUBSET Ids
                    /\ Cardinality(UsageIds) \in Nat
                    /\ SumFunctionOnSet(Tokens, UsageIds) \in Nat
  OBVIOUS
<1>1. UsageIds \in SUBSET Ids
  BY DEF UsageIds
<1>2. IsFiniteSet(UsageIds) /\ \A id \in UsageIds : Tokens[id] \in Nat
  BY <1>1, IdTypes, FS_Subset
<1> QED
  BY <1>1, <1>2, SumOf, FS_CardinalityType

\* Whatever becomes of the rows, the rest of the model stays well.
LEMMA RowsChange ==
    ASSUME QueriesInv, Step, UNCHANGED <<rawLog, now, request, ticked>>,
           rewritten' \in BOOLEAN, Sound', StateBehind', Current' => PartsAgree'
    PROVE  QueriesInv'
<1>1. steps < MaxSteps /\ steps' = steps + 1 /\ MaxSteps \in Nat /\ Noon \in Nat
  BY QueriesAssumption DEF Step
<1>2. Elapsed'
  BY <1>1 DEF QueriesInv, QueriesTypeOK, Elapsed
<1>3. QueriesTypeOK'
  BY <1>1 DEF QueriesInv, QueriesTypeOK, Sound
<1>4. Asked'
  BY DEF QueriesInv, Asked
<1> QED
  BY <1>2, <1>3, <1>4 DEF QueriesInv

\* Before the version is read, and once rows were rewritten after it, nothing is
\* promised.
LEMMA RewritingKeeps ==
    ASSUME QueriesInv, Step, UNCHANGED <<rawLog, now, request, ticked>>,
           rewritten' \in BOOLEAN, Sound', request.pc = "state" \/ rewritten'
    PROVE  QueriesInv'
<1>1. StateBehind'
  BY DEF StateBehind
<1>2. Current' => PartsAgree'
  BY DEF Current, PartsAgree, HasRead
<1> QED
  BY <1>1, <1>2, RowsChange

LEMMA DeletingKeeps == QueriesInv /\ DeleteRows => QueriesInv'
<1> SUFFICES ASSUME QueriesInv, DeleteRows PROVE QueriesInv'
  OBVIOUS
<1>1. Step /\ UNCHANGED <<rawLog, now, request, ticked>>
  BY DEF DeleteRows
<1>2. rewritten' \in BOOLEAN /\ (request.pc = "state" \/ rewritten')
  BY DEF DeleteRows, Counted
<1>3. PICK ids : rows' = [i \in Ids \ ids |-> rows[i]]
  BY DEF DeleteRows
<1>4. Sound'
  <2>1. Ids' = Ids \ ids /\ \A i \in Ids \ ids : rows'[i] = rows[i]
    BY <1>3 DEF Ids
  <2> QED
    BY <1>1, <1>3, <2>1 DEF QueriesInv, Sound
<1> QED
  BY <1>1, <1>2, <1>4, RewritingKeeps

\* The raw log is no part of what the version and the usage speak of.
LEMMA ArchivingKeeps == QueriesInv /\ ArchiveRow => QueriesInv'
<1> SUFFICES ASSUME QueriesInv, ArchiveRow PROVE QueriesInv'
  OBVIOUS
<1>1. /\ steps < MaxSteps /\ steps' = steps + 1
      /\ UNCHANGED <<rows, now, request, ticked, rewritten>>
      /\ MaxSteps \in Nat /\ Noon \in Nat
  BY QueriesAssumption DEF ArchiveRow, Step
<1>2. rawLog' \in Seq(RawRows)
  <2>1. PICK entry \in RawRows : rawLog' = Append(rawLog, entry)
    BY DEF ArchiveRow
  <2> QED
    BY <2>1 DEF QueriesInv, QueriesTypeOK
<1>3. UNCHANGED <<UsageIds, Tokens, Ids>>
  BY <1>1 DEF UsageIds, HasUsage, Tokens, Ids
<1>4. Elapsed' /\ QueriesTypeOK'
  BY <1>1, <1>2, <1>3 DEF QueriesInv, QueriesTypeOK, Elapsed
<1>5. Sound' /\ Asked' /\ StateBehind'
  BY <1>1, <1>3 DEF QueriesInv, Sound, Asked, StateBehind
<1>6. Current' => PartsAgree'
  BY <1>1, <1>3, SamePicture DEF QueriesInv, Current
<1> QED
  BY <1>4, <1>5, <1>6 DEF QueriesInv

\* A row whose usage is more than it was raises the sum.
LEMMA CompletionKeeps ==
    ASSUME QueriesInv, Step, UNCHANGED <<rawLog, now, request, ticked>>,
           rewritten' \in BOOLEAN, rewritten => rewritten', Sound',
           NEW id \in Ids, Ids' = Ids, \A i \in Ids \ {id} : rows'[i] = rows[i],
           rows[id].tokens < rows'[id].tokens, ShowsUsage(rows'[id])
    PROVE  QueriesInv'
<1>1. Sound /\ StateBehind
  BY DEF QueriesInv
<1>2. \A i \in Ids : /\ rows[i].tokens \in Nat /\ Tokens[i] = rows[i].tokens
                     /\ rows'[i].tokens \in Nat /\ Tokens'[i] = rows'[i].tokens
  <2>1. \A i \in Ids : rows[i] \in Rows /\ rows'[i] \in Rows
    BY <1>1 DEF Sound
  <2> QED
    BY <2>1, RowTypes DEF Tokens
<1>3. /\ \A i \in Ids : Tokens[i] \in Nat /\ Tokens'[i] \in Nat /\ Tokens[i] <= Tokens'[i]
      /\ Tokens[id] < Tokens'[id]
  BY <1>2
<1>4. UsageIds' = UsageIds \cup {id}
  BY DEF UsageIds, HasUsage
<1>5. /\ IsFiniteSet(UsageIds) /\ UsageIds \in SUBSET Ids
       /\ Cardinality(UsageIds) \in Nat
       /\ SumFunctionOnSet(Tokens, UsageIds) \in Nat
  BY <1>1, UsageCounts
<1>6. SumFunctionOnSet(Tokens, UsageIds) < SumFunctionOnSet(Tokens', UsageIds \cup {id})
  BY <1>3, <1>5, SumRises
<1>7. IsFiniteSet(UsageIds \cup {id}) /\ UsageIds \cup {id} \in SUBSET Ids
  BY <1>5, FS_AddElement
<1>8. /\ Cardinality(UsageIds) <= Cardinality(UsageIds \cup {id})
       /\ Cardinality(UsageIds \cup {id}) \in Nat
       /\ SumFunctionOnSet(Tokens', UsageIds \cup {id}) \in Nat
  <2>1. UsageIds \in SUBSET (UsageIds \cup {id})
    OBVIOUS
  <2>2. \A i \in UsageIds \cup {id} : Tokens'[i] \in Nat
    BY <1>3, <1>7
  <2> QED
    BY <1>7, <2>1, <2>2, FS_Subset, FS_CardinalityType, SumOf
<1>9. StateBehind' /\ (Current' => PartsAgree')
  <2>1. /\ Cardinality(UsageIds)' = Cardinality(UsageIds \cup {id})
        /\ SumFunctionOnSet(Tokens, UsageIds)' = SumFunctionOnSet(Tokens', UsageIds \cup {id})
    BY <1>4
  <2>2. StateBehind'
    BY <1>1, <1>5, <1>6, <1>8, <2>1 DEF StateBehind
  <2>3. Current' => PartsAgree'
    <3>1. CASE request.pc = "state"
      BY <3>1 DEF PartsAgree, HasRead
    <3>2. CASE rewritten
      BY <3>2 DEF Current
    <3>3. CASE request.pc # "state" /\ ~rewritten
      BY <1>1, <1>5, <1>6, <1>8, <2>1, <3>3 DEF StateBehind, Current
    <3> QED
      BY <3>1, <3>2, <3>3
  <2> QED
    BY <2>2, <2>3
<1> QED
  BY <1>9, RowsChange

\* A new row that shows nothing changes nothing that was read, one that shows
\* something is counted by the version.
LEMMA StoringKeeps ==
    ASSUME QueriesInv, Step, UNCHANGED <<rawLog, now, request, ticked>>,
           rewritten' \in BOOLEAN, rewritten => rewritten', Sound',
           NEW n, n \notin Ids, Ids' = Ids \cup {n}, \A i \in Ids : rows'[i] = rows[i]
    PROVE  QueriesInv'
<1>1. UNCHANGED <<now, request, ticked>>
  OBVIOUS
<1>2. Sound /\ StateBehind
  BY DEF QueriesInv
<1>3. \A i \in Ids : rows[i].tokens \in Nat /\ Tokens[i] = rows[i].tokens
  BY <1>2, IdTypes
<1>4. /\ \A i \in Ids : Tokens'[i] = Tokens[i] /\ Tokens[i] \in Nat
      /\ Tokens'[n] = rows'[n].tokens /\ rows'[n].tokens \in Nat
  <2>1. \A i \in Ids' : Tokens'[i] = rows'[i].tokens
    BY DEF Tokens
  <2>2. rows'[n] \in Rows
    BY DEF Sound
  <2>3. rows'[n].tokens \in Nat
    BY <2>2, RowTypes
  <2> QED
    BY <1>3, <2>1, <2>3
<1>5. /\ IsFiniteSet(UsageIds) /\ UsageIds \in SUBSET Ids
       /\ Cardinality(UsageIds) \in Nat
       /\ SumFunctionOnSet(Tokens, UsageIds) \in Nat
  BY <1>2, UsageCounts
<1>6. \A ids \in SUBSET Ids :
           /\ SumFunctionOnSet(Tokens', ids) = SumFunctionOnSet(Tokens, ids)
           /\ Totals(ids)' = Totals(ids)
  <2> TAKE ids \in SUBSET Ids
  <2>1. IsFiniteSet(ids)
    BY <1>2, IdTypes, FS_Subset
  <2>2. \A i \in ids : Tokens[i] \in Nat /\ Tokens[i] = Tokens'[i]
    BY <1>4
  <2>3. SumFunctionOnSet(Tokens, ids) = SumFunctionOnSet(Tokens', ids)
    BY <2>1, <2>2, SumSame
  <2> QED
    BY <2>3 DEF Totals
<1>7. CASE ~ ShowsUsage(rows'[n])
  <2>1. UsageIds' = UsageIds
    BY <1>7 DEF UsageIds, HasUsage
  <2>2. SumFunctionOnSet(Tokens', UsageIds) = SumFunctionOnSet(Tokens, UsageIds)
    BY <1>5, <1>6
  <2>3. StateBehind' /\ (Current' => Current)
    <3>1. /\ Cardinality(UsageIds)' = Cardinality(UsageIds)
          /\ SumFunctionOnSet(Tokens, UsageIds)' = SumFunctionOnSet(Tokens, UsageIds)
      BY <2>1, <2>2
    <3> QED
      BY <1>1, <1>2, <3>1 DEF StateBehind, Current
  <2>4. \A source : Usage(source)' = Usage(source) /\ Usage(source) \in SUBSET Ids
    <3>1. rows'[n].source = "codex" /\ (rows'[n].tokens = 0 \/ rows'[n].broken)
      BY <1>4, <1>7 DEF ShowsUsage
    <3> QED
      BY <1>1, <3>1 DEF Usage
  <2>5. \A ids \in SUBSET Ids : BeforeChart(ids)' = BeforeChart(ids)
    BY <1>1 DEF BeforeChart
  <2>6. \A ids \in SUBSET Ids : \A p : /\ InPeriod(ids, p)' = InPeriod(ids, p)
                                        /\ InPeriod(ids, p) \in SUBSET Ids
    BY DEF InPeriod
  <2>7. \A key : /\ TaskDetail(key).tokens \in Nat /\ TaskDetail(key)'.tokens \in Nat
                 /\ TaskDetail(key).tokens <= TaskDetail(key)'.tokens
    <3> TAKE key
    <3>1. PICK old : old = {id \in Ids : rows[id].thread = key}
      OBVIOUS
    <3>2. PICK new : new = {id \in Ids' : rows'[id].thread = key}
      OBVIOUS
    <3>3. old \in SUBSET new /\ old \in SUBSET Ids /\ new \in SUBSET Ids'
      BY <3>1, <3>2
    <3>4. IsFiniteSet(new) /\ IsFiniteSet(old)
      <4>1. IsFiniteSet(Ids')
        BY <1>2, IdTypes, FS_AddElement
      <4> QED
        BY <3>3, <4>1, FS_Subset
    <3>5. /\ \A i \in old : Tokens[i] \in Nat /\ Tokens[i] <= Tokens'[i]
          /\ \A i \in new : Tokens'[i] \in Nat
      BY <1>4, <3>3
    <3>6. SumFunctionOnSet(Tokens, old) <= SumFunctionOnSet(Tokens', new)
      BY <3>3, <3>4, <3>5, SumMonotone
    <3>7. SumFunctionOnSet(Tokens, old) \in Nat /\ SumFunctionOnSet(Tokens', new) \in Nat
      BY <3>4, <3>5, SumOf
    <3>8. /\ TaskDetail(key).tokens = SumFunctionOnSet(Tokens, old)
          /\ TaskDetail(key)'.tokens = SumFunctionOnSet(Tokens', new)
      BY <3>1, <3>2 DEF TaskDetail, Totals
    <3> QED
      BY <3>6, <3>7, <3>8
  <2>8. PartsAgree => PartsAgree'
    <3> DEFINE ids == Usage(request.source)
    <3>1. /\ ids' = ids /\ ids \in SUBSET Ids
          /\ Totals(ids)' = Totals(ids)
      BY <1>1, <1>6, <2>4
    <3>2. (SummaryAgrees => SummaryAgrees') /\ (ModelsAgree => ModelsAgree')
      BY <1>1, <3>1 DEF SummaryAgrees, ModelsAgree, AddUp
    <3>3. ChartAgrees => ChartAgrees'
      <4>1. BeforeChart(ids)' = BeforeChart(ids)
        BY <2>5, <3>1
      <4>2. Totals(ids \ BeforeChart(ids))' = Totals(ids \ BeforeChart(ids))
        BY <1>6, <3>1, <4>1
      <4> QED
        BY <1>1, <4>2 DEF ChartAgrees, AddUp
    <3>4. TasksCounted => TasksCounted'
      <4> SUFFICES ASSUME TasksCounted PROVE TasksCounted'
        OBVIOUS
      <4>1. AddUp(request.tasks)' = Totals(ids)'
        BY <1>1, <3>1 DEF TasksCounted, AddUp
      <4>2. ASSUME NEW key \in DOMAIN request.tasks
            PROVE  IF request.separate
                   THEN /\ request.tasks[key].tokens \in Nat
                        /\ TaskDetail(key)'.tokens >= request.tasks[key].tokens
                        /\ \E id \in Ids' : /\ rows'[id].source = request.source
                                            /\ rows'[id].thread = key
                   ELSE request.tasks[key] = Totals(InPeriod(ids, key))'
        <5>1. CASE request.separate
          <6>1. /\ request.tasks[key].tokens \in Nat
                /\ TaskDetail(key).tokens >= request.tasks[key].tokens
                /\ \E id \in Ids : rows[id].source = request.source /\ rows[id].thread = key
            BY <5>1 DEF TasksCounted
          <6>2. /\ TaskDetail(key).tokens \in Nat /\ TaskDetail(key)'.tokens \in Nat
                /\ TaskDetail(key).tokens <= TaskDetail(key)'.tokens
            BY <2>7
          <6> QED
            BY <5>1, <6>1, <6>2
        <5>2. CASE ~ request.separate
          <6>1. request.tasks[key] = Totals(InPeriod(ids, key))
            BY <5>2 DEF TasksCounted
          <6>2. InPeriod(ids, key)' = InPeriod(ids, key) /\ InPeriod(ids, key) \in SUBSET Ids
            BY <2>6, <3>1
          <6>3. Totals(InPeriod(ids, key))' = Totals(InPeriod(ids, key))
            BY <1>6, <6>2
          <6> QED
            BY <5>2, <6>1, <6>3
        <5> QED
          BY <5>1, <5>2
      <4>3. (request.separate => request.rawOnly \cap DOMAIN request.tasks = {})'
        BY <1>1 DEF TasksCounted
      <4> QED
        BY <1>1, <4>1, <4>2, <4>3 DEF TasksCounted
    <3> QED
      BY <1>1, <3>2, <3>3, <3>4 DEF PartsAgree, HasRead
  <2>9. Current' => PartsAgree'
    BY <2>3, <2>8 DEF QueriesInv
  <2> QED
    BY <2>3, <2>9, RowsChange
<1>8. CASE ShowsUsage(rows'[n])
  <2>1. UsageIds' = UsageIds \cup {n} /\ n \notin UsageIds
    BY <1>5, <1>8 DEF UsageIds, HasUsage
  <2>2. Cardinality(UsageIds \cup {n}) = Cardinality(UsageIds) + 1
    BY <1>5, <2>1, FS_AddElement
  <2>3. SumFunctionOnSet(Tokens', UsageIds) = SumFunctionOnSet(Tokens, UsageIds)
    BY <1>5, <1>6
  <2>4. SumFunctionOnSet(Tokens', UsageIds \cup {n})
        = Tokens'[n] + SumFunctionOnSet(Tokens', UsageIds)
    <3>1. \A i \in UsageIds \cup {n} : Tokens'[i] \in Nat
      BY <1>4, <1>5
    <3> QED
      BY <1>5, <2>1, <3>1, SumAdd
  <2>5. /\ Cardinality(UsageIds)' = Cardinality(UsageIds \cup {n})
        /\ SumFunctionOnSet(Tokens, UsageIds)' = SumFunctionOnSet(Tokens', UsageIds \cup {n})
    BY <2>1
  <2>6. StateBehind'
    BY <1>1, <1>2, <1>4, <1>5, <2>2, <2>3, <2>4, <2>5 DEF StateBehind
  <2>7. Current' => PartsAgree'
    <3>1. CASE request.pc = "state"
      BY <1>1, <3>1 DEF PartsAgree, HasRead
    <3>2. CASE rewritten
      BY <3>2 DEF Current
    <3>3. CASE request.pc # "state" /\ ~rewritten
      BY <1>1, <1>2, <1>5, <2>2, <2>5, <3>3 DEF StateBehind, Current
    <3> QED
      BY <3>1, <3>2, <3>3
  <2> QED
    BY <2>6, <2>7, RowsChange
<1> QED
  BY <1>7, <1>8

LEMMA UpsertKeeps == QueriesInv /\ UpsertRow => QueriesInv'
<1> SUFFICES ASSUME QueriesInv, UpsertRow PROVE QueriesInv'
  OBVIOUS
<1>1. Step /\ UNCHANGED <<rawLog, now, request, ticked>>
  BY DEF UpsertRow
<1>0. PICK id \in LogIds, row \in {r \in Rows : r.ts <= now} :
          \E from \in Ids \cup {id} :
              /\ from # id => id \notin Ids
              /\ rows' = [i \in (Ids \ {from}) \cup {id} |-> IF i = id THEN row ELSE rows[i]]
              /\ Counted(Adds(id, from, row))
  BY DEF UpsertRow
<1>2. PICK from \in Ids \cup {id} :
          /\ from # id => id \notin Ids
          /\ rows' = [i \in (Ids \ {from}) \cup {id} |-> IF i = id THEN row ELSE rows[i]]
          /\ Counted(Adds(id, from, row))
  BY <1>0
<1>3. /\ rewritten' \in BOOLEAN /\ (rewritten => rewritten')
      /\ request.pc = "state" \/ rewritten' \/ Adds(id, from, row)
  BY <1>2 DEF Counted
<1>4. /\ Ids' = (Ids \ {from}) \cup {id} /\ rows'[id] = row
      /\ \A i \in Ids \ {from} : i # id => rows'[i] = rows[i]
  BY <1>2 DEF Ids
<1>5. Sound'
  <2>1. Ids' \subseteq LogIds
    BY <1>4 DEF QueriesInv, Sound
  <2>2. \A i \in Ids' : rows'[i] \in Rows /\ rows'[i].ts <= now
    BY <1>2, <1>4 DEF QueriesInv, Sound
  <2>3. rows' \in [Ids' -> Rows]
    BY <1>2, <1>4, <2>2
  <2> QED
    BY <1>1, <2>1, <2>2, <2>3 DEF QueriesInv, Sound
<1>6. CASE request.pc = "state" \/ rewritten'
  BY <1>1, <1>3, <1>5, <1>6, RewritingKeeps
<1>7. CASE Adds(id, from, row)
  <2>1. CASE id \in Ids
    <3>1. Ids' = Ids /\ \A i \in Ids \ {id} : rows'[i] = rows[i]
      BY <1>4, <1>7, <2>1 DEF Adds
    <3>2. rows[id].tokens < rows'[id].tokens /\ ShowsUsage(rows'[id])
      <4>1. rows[id] \in Rows /\ row \in Rows
        BY <2>1 DEF QueriesInv, Sound
      <4>2. rows[id].tokens \in Nat /\ row.tokens \in Nat
        BY <4>1, RowTypes
      <4> QED
        BY <1>4, <1>7, <2>1, <4>2 DEF Adds
    <3> QED
      BY <1>1, <1>3, <1>5, <2>1, <3>1, <3>2, CompletionKeeps
  <2>2. CASE id \notin Ids
    <3>1. Ids' = Ids \cup {id} /\ \A i \in Ids : rows'[i] = rows[i]
      BY <1>4, <1>7, <2>2 DEF Adds
    <3> QED
      BY <1>1, <1>3, <1>5, <2>2, <3>1, StoringKeeps
  <2> QED
    BY <2>1, <2>2
<1> QED
  BY <1>3, <1>6, <1>7

LEMMA NextQueries == QueriesInv /\ [QueriesNext]_queryVars => QueriesInv'
<1> SUFFICES ASSUME QueriesInv, [QueriesNext]_queryVars PROVE QueriesInv'
  OBVIOUS
<1>1. CASE \/ ReadDataState \/ ReadSummary \/ ReadDaily \/ ReadTasks
           \/ ReadRawOnlyTasks \/ ReadModels
  BY <1>1, ReadsKeep
<1>2. CASE UpsertRow
  BY <1>2, UpsertKeeps
<1>3. CASE DeleteRows
  BY <1>3, DeletingKeeps
<1>4. CASE ArchiveRow
  BY <1>4, ArchivingKeeps
<1>5. CASE Tick
  BY <1>5, TickKeeps
<1>6. CASE UNCHANGED queryVars
  <2>1. UNCHANGED <<rows, rawLog, now, request, ticked, rewritten, steps>>
    BY <1>6 DEF queryVars
  <2>2. UNCHANGED <<UsageIds, Tokens, Ids>>
    BY <2>1 DEF UsageIds, HasUsage, Tokens, Ids
  <2>3. Asked' /\ StateBehind' /\ (Current' => Current)
    BY <2>1, <2>2 DEF QueriesInv, Asked, StateBehind, Current
  <2>4. request'.pc \in {"state", "summary", "daily", "tasks", "rawOnly", "models", "done"}
    BY <2>1 DEF QueriesInv, QueriesTypeOK
  <2>5. Current' => PartsAgree'
    BY <2>1, <2>3, SamePicture DEF QueriesInv
  <2> QED
    BY <2>1, <2>3, <2>4, <2>5, ReadLeaves
<1> QED
  BY <1>1, <1>2, <1>3, <1>4, <1>5, <1>6 DEF QueriesNext

LEMMA QueriesInvariance == QueriesSpec => []QueriesInv
  BY InitQueries, NextQueries, PTL DEF QueriesSpec

(***************************************************************************)
(* The model's variables of the queries keep their types (storage/          *)
(* queries.py and the turns table).                                         *)
(***************************************************************************)
THEOREM QueryTypes == QueriesSpec => []QueriesTypeOK
<1>1. QueriesInv => QueriesTypeOK
  BY DEF QueriesInv
<1> QED
  BY <1>1, QueriesInvariance, PTL

(***************************************************************************)
(* For any rows, period, range and order of imports between the reads of a  *)
(* dashboard request, rows being added, rewritten in any direction and       *)
(* deleted: if the version that was read first is still the present one, no  *)
(* time went by and no row of turns was rewritten or deleted since but to    *)
(* show more usage, then the summary, the chart, the tasks with the details  *)
(* behind them and the models are sums over the same usage rows, those there *)
(* are (storage/queries.py, api_dashboard).                                  *)
(***************************************************************************)
THEOREM DashboardIsOnePicture == QueriesSpec => []DashboardAgrees
<1>1. QueriesInv => DashboardAgrees
  <2> SUFFICES ASSUME QueriesInv, request.pc = "done", request.state = DataState,
                      ~ticked, ~rewritten
               PROVE  SummaryAgrees /\ ChartAgrees /\ TasksAgree /\ ModelsAgree
    BY DEF DashboardAgrees
  <2>1. Current
    BY DEF Current, DataState, UsageIds
  <2>2. SummaryAgrees /\ ChartAgrees /\ TasksCounted /\ ModelsAgree /\ Sound
    BY <2>1 DEF QueriesInv, PartsAgree, HasRead
  <2> QED
    BY <2>2, CountedAgree
<1> QED
  BY <1>1, QueriesInvariance, PTL
=============================================================================
