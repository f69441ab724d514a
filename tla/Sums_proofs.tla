----------------------------- MODULE Sums_proofs -----------------------------
(***************************************************************************)
(* Facts about SumFunctionOnSet, the sum of the values of a function over  *)
(* a finite set, which Total and Principal are defined by. The sum picks   *)
(* its elements in an arbitrary but fixed order; the lemmas below show     *)
(* that the order does not matter. Induction over a finite set is done by  *)
(* taking a smallest subset for which the claim is wrong.                  *)
(***************************************************************************)
EXTENDS Integers, FiniteSets, Functions, FiniteSetTheorems, WellFoundedInduction, TLAPS

\* The element the sum takes next.
Pick(s) == CHOOSE x \in s : TRUE
\* g gives the sum of f over each subset of S.
IsSum(g, S, f) ==
    g = [s \in SUBSET S |-> IF s = {} THEN 0 ELSE f[Pick(s)] + g[s \ {Pick(s)}]]

\* A set of subsets of a finite set has a smallest member.
LEMMA MinimalSubset ==
    ASSUME NEW S, IsFiniteSet(S), NEW Bad \in SUBSET (SUBSET S), Bad # {}
    PROVE  \E T \in Bad : \A U \in SUBSET T : U # T => U \notin Bad
<1>1. IsWellFoundedOn(StrictSubsetOrdering(S), SUBSET S)
  BY FS_StrictSubsetOrderingWellFounded, FS_FiniteSubsetsOfFinite
<1>2. PICK T \in Bad : \A U \in Bad : <<U, T>> \notin StrictSubsetOrdering(S)
  BY <1>1, WFMin
<1>3. ASSUME NEW U \in SUBSET T, U # T, U \in Bad PROVE FALSE
  <2>1. <<U, T>> \in StrictSubsetOrdering(S)
    BY <1>3 DEF StrictSubsetOrdering
  <2> QED BY <2>1, <1>2, <1>3
<1> QED BY <1>2, <1>3

\* Two sums agree wherever both are defined.
LEMMA SumAgree ==
    ASSUME NEW A, NEW B, NEW f, NEW g, NEW h,
           IsSum(g, A, f), IsSum(h, B, f),
           NEW C \in SUBSET A, C \in SUBSET B, IsFiniteSet(C)
    PROVE  g[C] = h[C]
<1> DEFINE Bad == {s \in SUBSET C : g[s] # h[s]}
<1> SUFFICES ASSUME Bad # {} PROVE FALSE
  OBVIOUS
<1>0. Bad \in SUBSET (SUBSET C)
  OBVIOUS
<1>1. PICK T \in Bad : \A U \in SUBSET T : U # T => U \notin Bad
  <2> HIDE DEF Bad
  <2> QED BY <1>0, MinimalSubset
<1>2. T # {}
  BY <1>1 DEF IsSum
<1>3. Pick(T) \in T
  BY <1>2 DEF Pick
<1>4. g[T \ {Pick(T)}] = h[T \ {Pick(T)}]
  BY <1>1, <1>3
<1>5. g[T] = f[Pick(T)] + g[T \ {Pick(T)}] /\ h[T] = f[Pick(T)] + h[T \ {Pick(T)}]
  <2>1. T \in SUBSET A /\ T \in SUBSET B
    OBVIOUS
  <2> QED BY <2>1, <1>2 DEF IsSum
<1> QED BY <1>1, <1>4, <1>5

\* The recursion that defines a sum has a solution on every finite set.
LEMMA SumExists ==
    ASSUME NEW S, IsFiniteSet(S), NEW f
    PROVE  \E g : IsSum(g, S, f)
<1> DEFINE Bad == {T \in SUBSET S : ~ \E g : IsSum(g, T, f)}
<1> SUFFICES ASSUME Bad # {} PROVE FALSE
  BY DEF IsSum
<1>0. Bad \in SUBSET (SUBSET S)
  OBVIOUS
<1>1. PICK T \in Bad : \A U \in SUBSET T : U # T => U \notin Bad
  <2> HIDE DEF Bad
  <2> QED BY <1>0, MinimalSubset
<1> DEFINE H(s) == CHOOSE h : IsSum(h, s, f)
           x == Pick(T)
           g == [s \in SUBSET T |-> IF s = {} THEN 0 ELSE f[Pick(s)] + H(s \ {Pick(s)})[s \ {Pick(s)}]]
<1>2. \A U \in SUBSET T : U # T => IsSum(H(U), U, f)
  BY <1>1
<1>3. \A s \in SUBSET T : s # {} => Pick(s) \in s
  BY DEF Pick
<1>4. ASSUME NEW s \in SUBSET T, s # {}
      PROVE  g[s \ {Pick(s)}] = H(s \ {Pick(s)})[s \ {Pick(s)}]
  <2> DEFINE u == s \ {Pick(s)}
  <2>0. u \in SUBSET T /\ u # T
    BY <1>3, <1>4
  <2>1. IsSum(H(u), u, f)
    BY <2>0, <1>2
  <2>2. CASE u = {}
    BY <2>1, <2>2, <2>0 DEF IsSum
  <2>3. CASE u # {}
    <3> DEFINE v == u \ {Pick(u)}
    <3>1. v \in SUBSET T /\ v # T /\ v \in SUBSET u
      BY <2>0
    <3>2. H(u)[u] = f[Pick(u)] + H(u)[v]
      BY <2>1, <2>3 DEF IsSum
    <3>3. IsSum(H(v), v, f)
      BY <3>1, <1>2
    <3>4. IsFiniteSet(v)
      BY <3>1, FS_Subset
    <3>5. H(u)[v] = H(v)[v]
      <4> HIDE DEF H, v, u
      <4> QED BY <2>1, <3>1, <3>3, <3>4, SumAgree
    <3>6. g[u] = f[Pick(u)] + H(v)[v]
      BY <2>0, <2>3
    <3> QED BY <3>2, <3>5, <3>6
  <2> QED BY <2>2, <2>3
<1>5. IsSum(g, T, f)
  <2> HIDE DEF H
  <2> QED BY <1>4 DEF IsSum
<1> QED BY <1>1, <1>5

\* SumFunctionOnSet is that solution.
LEMMA SumUnfold ==
    ASSUME NEW S, IsFiniteSet(S), NEW f
    PROVE  \E g : IsSum(g, S, f) /\ SumFunctionOnSet(f, S) = g[S]
<1> DEFINE iter == CHOOSE g : g = [s \in SUBSET S |-> IF s = {} THEN 0 ELSE f[CHOOSE y \in s : TRUE] + g[s \ {CHOOSE y \in s : TRUE}]]
<1>0. \E g : g = [s \in SUBSET S |-> IF s = {} THEN 0 ELSE f[CHOOSE y \in s : TRUE] + g[s \ {CHOOSE y \in s : TRUE}]]
  <2>1. PICK g : IsSum(g, S, f)
    BY SumExists
  <2>2. g = [s \in SUBSET S |-> IF s = {} THEN 0 ELSE f[CHOOSE y \in s : TRUE] + g[s \ {CHOOSE y \in s : TRUE}]]
    BY <2>1 DEF IsSum, Pick
  <2> QED BY <2>2
<1>1. IsSum(iter, S, f)
  BY <1>0 DEF IsSum, Pick
<1>2. SumFunctionOnSet(f, S) = iter[S]
  BY DEF SumFunctionOnSet, FoldFunctionOnSet, MapThenFoldSet
<1> QED BY <1>1, <1>2

\* Nothing sums to zero.
LEMMA SumEmpty ==
    \A f : SumFunctionOnSet(f, {}) = 0
<1> TAKE f
<1>1. PICK g : IsSum(g, {}, f) /\ SumFunctionOnSet(f, {}) = g[{}]
  BY SumUnfold, FS_EmptySet
<1> QED BY <1>1 DEF IsSum

\* One step of the sum, in the order it picks elements in.
LEMMA SumPick ==
    ASSUME NEW S, IsFiniteSet(S), S # {}, NEW f
    PROVE  /\ Pick(S) \in S
           /\ SumFunctionOnSet(f, S) = f[Pick(S)] + SumFunctionOnSet(f, S \ {Pick(S)})
<1> DEFINE T == S \ {Pick(S)}
<1>1. PICK g : IsSum(g, S, f) /\ SumFunctionOnSet(f, S) = g[S]
  BY SumUnfold
<1>2. IsFiniteSet(T)
  BY FS_Subset
<1>3. PICK h : IsSum(h, T, f) /\ SumFunctionOnSet(f, T) = h[T]
  <2> HIDE DEF T
  <2> QED BY <1>2, SumUnfold
<1>4. g[T] = h[T]
  <2>1. T \in SUBSET S
    OBVIOUS
  <2> HIDE DEF T
  <2> QED BY <1>1, <1>2, <1>3, <2>1, SumAgree
<1>5. g[S] = f[Pick(S)] + g[T]
  BY <1>1 DEF IsSum
<1>6. Pick(S) \in S
  BY DEF Pick
<1> QED BY <1>1, <1>3, <1>4, <1>5, <1>6

\* A sum of integers is an integer.
LEMMA SumType ==
    ASSUME NEW S, IsFiniteSet(S), NEW f, \A x \in S : f[x] \in Int
    PROVE  SumFunctionOnSet(f, S) \in Int
<1> DEFINE Bad == {T \in SUBSET S : SumFunctionOnSet(f, T) \notin Int}
<1> SUFFICES ASSUME Bad # {} PROVE FALSE
  OBVIOUS
<1>0. Bad \in SUBSET (SUBSET S)
  OBVIOUS
<1>1. PICK T \in Bad : \A U \in SUBSET T : U # T => U \notin Bad
  <2> HIDE DEF Bad
  <2> QED BY <1>0, MinimalSubset
<1>2. IsFiniteSet(T) /\ T # {}
  <2>1. IsFiniteSet(T)
    BY FS_Subset
  <2>2. T # {}
    BY SumEmpty
  <2> QED BY <2>1, <2>2
<1>3. Pick(T) \in T /\ SumFunctionOnSet(f, T) = f[Pick(T)] + SumFunctionOnSet(f, T \ {Pick(T)})
  BY <1>2, SumPick
<1>4. SumFunctionOnSet(f, T \ {Pick(T)}) \in Int
  BY <1>1, <1>3
<1> QED BY <1>1, <1>3, <1>4

\* A sum of natural numbers is a natural number.
LEMMA SumNat ==
    ASSUME NEW S, IsFiniteSet(S), NEW f, \A x \in S : f[x] \in Nat
    PROVE  SumFunctionOnSet(f, S) \in Nat
<1> DEFINE Bad == {T \in SUBSET S : SumFunctionOnSet(f, T) \notin Nat}
<1> SUFFICES ASSUME Bad # {} PROVE FALSE
  OBVIOUS
<1>0. Bad \in SUBSET (SUBSET S)
  OBVIOUS
<1>1. PICK T \in Bad : \A U \in SUBSET T : U # T => U \notin Bad
  <2> HIDE DEF Bad
  <2> QED BY <1>0, MinimalSubset
<1>2. IsFiniteSet(T) /\ T # {}
  <2>1. IsFiniteSet(T)
    BY FS_Subset
  <2>2. T # {}
    BY SumEmpty
  <2> QED BY <2>1, <2>2
<1>3. Pick(T) \in T /\ SumFunctionOnSet(f, T) = f[Pick(T)] + SumFunctionOnSet(f, T \ {Pick(T)})
  BY <1>2, SumPick
<1>4. SumFunctionOnSet(f, T \ {Pick(T)}) \in Nat
  BY <1>1, <1>3
<1> QED BY <1>1, <1>3, <1>4

\* Any element can be taken out of a sum first.
LEMMA SumRemove ==
    ASSUME NEW S, IsFiniteSet(S), NEW f, \A x \in S : f[x] \in Int, NEW e \in S
    PROVE  SumFunctionOnSet(f, S) = f[e] + SumFunctionOnSet(f, S \ {e})
<1> DEFINE Sum(T) == SumFunctionOnSet(f, T)
           Bad == {T \in SUBSET S : \E x \in T : Sum(T) # f[x] + Sum(T \ {x})}
<1> SUFFICES ASSUME Bad # {} PROVE FALSE
  OBVIOUS
<1>0. Bad \in SUBSET (SUBSET S)
  OBVIOUS
<1>1. PICK T \in Bad : \A U \in SUBSET T : U # T => U \notin Bad
  <2> HIDE DEF Bad
  <2> QED BY <1>0, MinimalSubset
<1>2. PICK x \in T : Sum(T) # f[x] + Sum(T \ {x})
  BY <1>1
<1> DEFINE p == Pick(T)
<1>3. /\ p \in T
      /\ Sum(T) = f[p] + Sum(T \ {p})
  BY FS_Subset, SumPick
<1>4. p # x
  BY <1>2, <1>3
<1>5. Sum(T \ {p}) = f[x] + Sum((T \ {p}) \ {x})
  <2>1. T \ {p} \notin Bad
    BY <1>1, <1>3
  <2> QED BY <2>1, <1>4
<1>6. Sum(T \ {x}) = f[p] + Sum((T \ {x}) \ {p})
  <2>1. T \ {x} \notin Bad
    BY <1>1, <1>2
  <2> QED BY <2>1, <1>4, <1>3
<1>7. (T \ {x}) \ {p} = (T \ {p}) \ {x}
  OBVIOUS
<1>8. Sum((T \ {p}) \ {x}) \in Int
  <2>1. IsFiniteSet((T \ {p}) \ {x})
    BY FS_Subset
  <2> QED BY <2>1, SumType
<1>9. f[p] \in Int /\ f[x] \in Int
  BY <1>3
<1> HIDE DEF Sum, p
<1> QED BY <1>2, <1>3, <1>5, <1>6, <1>7, <1>8, <1>9

\* The sum only depends on the values on the set.
LEMMA SumCongruent ==
    ASSUME NEW S, IsFiniteSet(S), NEW f, NEW g, \A x \in S : f[x] = g[x]
    PROVE  SumFunctionOnSet(f, S) = SumFunctionOnSet(g, S)
<1> DEFINE Bad == {T \in SUBSET S : SumFunctionOnSet(f, T) # SumFunctionOnSet(g, T)}
<1> SUFFICES ASSUME Bad # {} PROVE FALSE
  OBVIOUS
<1>0. Bad \in SUBSET (SUBSET S)
  OBVIOUS
<1>1. PICK T \in Bad : \A U \in SUBSET T : U # T => U \notin Bad
  <2> HIDE DEF Bad
  <2> QED BY <1>0, MinimalSubset
<1>2. IsFiniteSet(T) /\ T # {}
  <2>1. IsFiniteSet(T)
    BY FS_Subset
  <2>2. T # {}
    BY SumEmpty
  <2> QED BY <2>1, <2>2
<1>3. /\ Pick(T) \in T
      /\ SumFunctionOnSet(f, T) = f[Pick(T)] + SumFunctionOnSet(f, T \ {Pick(T)})
      /\ SumFunctionOnSet(g, T) = g[Pick(T)] + SumFunctionOnSet(g, T \ {Pick(T)})
  BY <1>2, SumPick
<1>4. SumFunctionOnSet(f, T \ {Pick(T)}) = SumFunctionOnSet(g, T \ {Pick(T)})
  BY <1>1, <1>3
<1> QED BY <1>1, <1>3, <1>4

\* Two sums over sets that differ in one element differ by its values.
LEMMA SumChange ==
    ASSUME NEW S, IsFiniteSet(S), NEW f, \A y \in S : f[y] \in Int,
           NEW R, NEW g, \A y \in R : g[y] \in Int,
           NEW x, S \ {x} = R \ {x}, \A y \in S \ {x} : f[y] = g[y]
    PROVE  /\ IsFiniteSet(R)
           /\ SumFunctionOnSet(f, S) \in Int /\ SumFunctionOnSet(g, R) \in Int
           /\ SumFunctionOnSet(g, R) = SumFunctionOnSet(f, S)
                - (IF x \in S THEN f[x] ELSE 0) + (IF x \in R THEN g[x] ELSE 0)
<1> DEFINE K == S \ {x}
<1>1. IsFiniteSet(K) /\ IsFiniteSet(R)
  <2>1. IsFiniteSet(K)
    BY FS_RemoveElement
  <2>2. IsFiniteSet(K \cup {x}) /\ R \in SUBSET (K \cup {x})
    BY <2>1, FS_AddElement
  <2> QED BY <2>1, <2>2, FS_Subset
<1>2. SumFunctionOnSet(f, K) = SumFunctionOnSet(g, K) /\ SumFunctionOnSet(f, K) \in Int
  <2> HIDE DEF K
  <2>1. \A y \in K : f[y] = g[y] /\ f[y] \in Int
    BY DEF K
  <2> QED BY <1>1, <2>1, SumCongruent, SumType
<1>3. SumFunctionOnSet(f, S) = (IF x \in S THEN f[x] ELSE 0) + SumFunctionOnSet(f, K)
  <2>1. CASE x \in S
    BY <2>1, SumRemove
  <2>2. CASE x \notin S
    <3>1. K = S
      BY <2>2
    <3> HIDE DEF K
    <3> QED BY <1>2, <2>2, <3>1
  <2> QED BY <2>1, <2>2
<1>4. SumFunctionOnSet(g, R) = (IF x \in R THEN g[x] ELSE 0) + SumFunctionOnSet(g, K)
  <2>1. CASE x \in R
    <3>1. SumFunctionOnSet(g, R) = g[x] + SumFunctionOnSet(g, R \ {x})
      BY <1>1, <2>1, SumRemove
    <3> QED BY <2>1, <3>1
  <2>2. CASE x \notin R
    <3>1. K = R
      BY <2>2
    <3> HIDE DEF K
    <3> QED BY <1>2, <2>2, <3>1
  <2> QED BY <2>1, <2>2
<1> HIDE DEF K
<1> QED BY <1>1, <1>2, <1>3, <1>4

\* The sum over two sets that share nothing.
LEMMA SumUnion ==
    ASSUME NEW A, IsFiniteSet(A), NEW B, IsFiniteSet(B), A \cap B = {},
           NEW f, \A x \in A \cup B : f[x] \in Int
    PROVE  SumFunctionOnSet(f, A \cup B) = SumFunctionOnSet(f, A) + SumFunctionOnSet(f, B)
<1> DEFINE Sum(T) == SumFunctionOnSet(f, T)
           Bad == {T \in SUBSET A : Sum(T \cup B) # Sum(T) + Sum(B)}
<1> SUFFICES ASSUME Bad # {} PROVE FALSE
  OBVIOUS
<1>0. Bad \in SUBSET (SUBSET A)
  OBVIOUS
<1>1. PICK T \in Bad : \A U \in SUBSET T : U # T => U \notin Bad
  <2> HIDE DEF Bad
  <2> QED BY <1>0, MinimalSubset
<1>2. Sum(B) \in Int
  BY SumType
<1>10. Sum(T \cup B) # Sum(T) + Sum(B)
  BY <1>1
<1>3. ASSUME T = {} PROVE FALSE
  <2>1. Sum(T) = 0
    BY <1>3, SumEmpty
  <2>2. T \cup B = B
    BY <1>3
  <2>3. Sum(T \cup B) = Sum(B)
    BY <2>2
  <2> HIDE DEF Sum, Bad
  <2> QED BY <1>2, <1>10, <2>1, <2>3
<1>4. PICK x \in T : TRUE
  BY <1>3
<1>5. IsFiniteSet(T) /\ IsFiniteSet(T \cup B) /\ IsFiniteSet(T \ {x})
  BY FS_Subset, FS_Union
<1>6. Sum(T) = f[x] + Sum(T \ {x}) /\ Sum(T \ {x}) \in Int /\ f[x] \in Int
  BY <1>5, SumRemove, SumType
<1>7. Sum(T \cup B) = f[x] + Sum((T \cup B) \ {x})
  <2>1. \A y \in T \cup B : f[y] \in Int
    OBVIOUS
  <2> QED BY <1>5, <2>1, SumRemove
<1>8. Sum((T \cup B) \ {x}) = Sum((T \ {x}) \cup B)
  <2>1. (T \cup B) \ {x} = (T \ {x}) \cup B
    OBVIOUS
  <2> QED BY <2>1
<1>9. Sum((T \ {x}) \cup B) = Sum(T \ {x}) + Sum(B)
  <2>1. T \ {x} \notin Bad
    BY <1>1
  <2> QED BY <2>1
<1> HIDE DEF Sum, Bad
<1> QED BY <1>2, <1>6, <1>7, <1>8, <1>9, <1>10

\* A part of a sum of natural numbers.
LEMMA SumPart ==
    ASSUME NEW B, IsFiniteSet(B), NEW A \in SUBSET B, NEW f, \A x \in B : f[x] \in Nat
    PROVE  SumFunctionOnSet(f, A) <= SumFunctionOnSet(f, B)
<1> DEFINE C == B \ A
<1>1. IsFiniteSet(A) /\ IsFiniteSet(C) /\ A \cap C = {} /\ A \cup C = B
  BY FS_Subset
<1>2. SumFunctionOnSet(f, A) \in Nat /\ SumFunctionOnSet(f, C) \in Nat
  <2>1. \A x \in C : f[x] \in Nat
    OBVIOUS
  <2> HIDE DEF C
  <2> QED BY <1>1, <2>1, SumNat
<1> HIDE DEF C
<1>3. SumFunctionOnSet(f, B) = SumFunctionOnSet(f, A) + SumFunctionOnSet(f, C)
  <2>1. \A x \in A \cup C : f[x] \in Int
    BY <1>1
  <2>2. SumFunctionOnSet(f, A \cup C) = SumFunctionOnSet(f, A) + SumFunctionOnSet(f, C)
    BY <1>1, <2>1, SumUnion
  <2> QED BY <1>1, <2>2
<1>4. SumFunctionOnSet(f, A) \in Int /\ SumFunctionOnSet(f, C) \in Nat
  BY <1>2
<1> QED BY <1>3, <1>4

\* No term of a sum of natural numbers exceeds it.
LEMMA SumTerm ==
    ASSUME NEW S, IsFiniteSet(S), NEW f, \A x \in S : f[x] \in Nat, NEW x \in S
    PROVE  f[x] <= SumFunctionOnSet(f, S)
<1>1. SumFunctionOnSet(f, S) = f[x] + SumFunctionOnSet(f, S \ {x})
  BY SumRemove
<1>2. SumFunctionOnSet(f, S \ {x}) \in Nat
  <2>1. IsFiniteSet(S \ {x})
    BY FS_Subset
  <2> QED BY <2>1, SumNat
<1> QED BY <1>1, <1>2

\* The sum over one element.
LEMMA SumSingle ==
    ASSUME NEW x, NEW f, f[x] \in Int
    PROVE  SumFunctionOnSet(f, {x}) = f[x]
<1>1. SumFunctionOnSet(f, {x}) = f[x] + SumFunctionOnSet(f, {x} \ {x})
  BY FS_Singleton, SumRemove
<1>2. {x} \ {x} = {}
  OBVIOUS
<1> QED BY <1>1, <1>2, SumEmpty

\* The sum of sums.
LEMMA SumPlus ==
    ASSUME NEW S, IsFiniteSet(S), NEW f, NEW g, NEW h,
           \A x \in S : f[x] \in Int /\ g[x] \in Int /\ h[x] = f[x] + g[x]
    PROVE  SumFunctionOnSet(h, S) = SumFunctionOnSet(f, S) + SumFunctionOnSet(g, S)
<1> DEFINE Wrong(T) == SumFunctionOnSet(h, T)
                        # SumFunctionOnSet(f, T) + SumFunctionOnSet(g, T)
           Bad == {T \in SUBSET S : Wrong(T)}
<1> SUFFICES ASSUME Bad # {} PROVE FALSE
  OBVIOUS
<1>0. Bad \in SUBSET (SUBSET S)
  OBVIOUS
<1>1. PICK T \in Bad : \A U \in SUBSET T : U # T => U \notin Bad
  <2> HIDE DEF Bad
  <2> QED BY <1>0, MinimalSubset
<1>2. IsFiniteSet(T) /\ T # {}
  <2>1. IsFiniteSet(T)
    BY FS_Subset
  <2>2. ASSUME T = {} PROVE FALSE
    <3>1. Wrong({})
      BY <1>1, <2>2
    <3> QED BY <3>1, SumEmpty
  <2> QED BY <2>1, <2>2
<1>3. PICK x \in T : TRUE
  BY <1>2
<1>4. /\ SumFunctionOnSet(f, T) = f[x] + SumFunctionOnSet(f, T \ {x})
      /\ SumFunctionOnSet(g, T) = g[x] + SumFunctionOnSet(g, T \ {x})
      /\ SumFunctionOnSet(h, T) = h[x] + SumFunctionOnSet(h, T \ {x})
  BY <1>2, SumRemove
<1>5. SumFunctionOnSet(f, T \ {x}) \in Int /\ SumFunctionOnSet(g, T \ {x}) \in Int
  <2>1. IsFiniteSet(T \ {x})
    BY <1>2, FS_Subset
  <2> QED BY <2>1, SumType
<1>6. ~Wrong(T \ {x}) /\ Wrong(T)
  BY <1>1, <1>3
<1>7. f[x] \in Int /\ g[x] \in Int /\ h[x] = f[x] + g[x]
  BY <1>3
<1> QED BY <1>4, <1>5, <1>6, <1>7

\* Parts that share nothing add up to no more than the whole.
LEMMA SumOfParts ==
    ASSUME NEW S, IsFiniteSet(S), NEW P, IsFiniteSet(P),
           NEW J, \A s \in S : J[s] \subseteq P,
           \A s, t \in S : s # t => J[s] \cap J[t] = {},
           NEW h, \A p \in P : h[p] \in Nat,
           NEW v, \A s \in S : v[s] \in Nat /\ v[s] <= SumFunctionOnSet(h, J[s])
    PROVE  SumFunctionOnSet(v, S) <= SumFunctionOnSet(h, P)
<1> DEFINE All(T) == UNION {J[s] : s \in T}
           Fine(T) == SumFunctionOnSet(v, T) <= SumFunctionOnSet(h, All(T))
<1>1. \A T \in SUBSET S : All(T) \in SUBSET P /\ IsFiniteSet(All(T))
  <2>1. \A T \in SUBSET S : All(T) \in SUBSET P
    OBVIOUS
  <2> HIDE DEF All
  <2> QED BY <2>1, FS_Subset
<1>2. \A T \in SUBSET S : Fine(T)
  <2> DEFINE Bad == {T \in SUBSET S : ~Fine(T)}
  <2> SUFFICES ASSUME Bad # {} PROVE FALSE
    OBVIOUS
  <2>0. Bad \in SUBSET (SUBSET S)
    OBVIOUS
  <2>1. PICK T \in Bad : \A U \in SUBSET T : U # T => U \notin Bad
    <3> HIDE DEF Bad
    <3> QED BY <2>0, MinimalSubset
  <2>2. IsFiniteSet(T) /\ T # {}
    <3>1. IsFiniteSet(T)
      BY FS_Subset
    <3>2. T # {}
      <4>1. All({}) = {}
        OBVIOUS
      <4>2. Fine({})
        <5>1. SumFunctionOnSet(v, {}) = 0 /\ SumFunctionOnSet(h, {}) = 0
          BY SumEmpty
        <5>2. SumFunctionOnSet(h, All({})) = 0
          BY <4>1, <5>1
        <5> HIDE DEF All
        <5> QED BY <5>1, <5>2
      <4> HIDE DEF Fine
      <4> QED BY <2>1, <4>2
    <3> QED BY <3>1, <3>2
  <2>3. PICK x \in T : TRUE
    BY <2>2
  <2> DEFINE U == T \ {x}
  <2>4. SumFunctionOnSet(v, T) = v[x] + SumFunctionOnSet(v, U)
    BY <2>2, SumRemove
  <2>5. SumFunctionOnSet(v, U) \in Nat /\ IsFiniteSet(U) /\ U \in SUBSET S
    <3>1. IsFiniteSet(U)
      BY <2>2, FS_Subset
    <3> QED BY <3>1, SumNat
  <2>6. Fine(U)
    <3>1. U \notin Bad
      BY <2>1, <2>3
    <3> HIDE DEF Fine
    <3> QED BY <2>5, <3>1
  <2>7. J[x] \cap All(U) = {} /\ J[x] \cup All(U) = All(T)
    OBVIOUS
  <2>8. IsFiniteSet(J[x]) /\ J[x] \subseteq P /\ All(U) \subseteq P /\ IsFiniteSet(All(U))
    <3> HIDE DEF All, U
    <3> QED BY <1>1, <2>5, FS_Subset
  <2>9. /\ SumFunctionOnSet(h, All(T)) = SumFunctionOnSet(h, J[x]) + SumFunctionOnSet(h, All(U))
        /\ SumFunctionOnSet(h, J[x]) \in Nat /\ SumFunctionOnSet(h, All(U)) \in Nat
    <3> HIDE DEF All, U
    <3> QED BY <2>7, <2>8, SumUnion, SumNat
  <2>10. v[x] \in Nat /\ v[x] <= SumFunctionOnSet(h, J[x])
    BY <2>3
  <2>11. Fine(T)
    <3> HIDE DEF All, U
    <3> QED BY <2>4, <2>5, <2>6, <2>9, <2>10
  <2> HIDE DEF Fine
  <2> QED BY <2>1, <2>11
<1>3. SumFunctionOnSet(h, All(S)) <= SumFunctionOnSet(h, P)
  <2>1. All(S) \in SUBSET P
    BY <1>1
  <2> HIDE DEF All
  <2> QED BY <2>1, SumPart
<1>4. Fine(S)
  BY <1>2
<1>5. /\ SumFunctionOnSet(v, S) \in Nat /\ SumFunctionOnSet(h, All(S)) \in Nat
      /\ SumFunctionOnSet(h, P) \in Nat
  <2>1. IsFiniteSet(All(S)) /\ \A p \in All(S) : h[p] \in Nat
    BY <1>1
  <2> HIDE DEF All
  <2> QED BY <2>1, SumNat
<1> HIDE DEF All
<1> QED BY <1>3, <1>4, <1>5

\* The last term of a sum over an interval.
LEMMA SumLast ==
    ASSUME NEW k \in Nat \ {0}, NEW f, \A i \in 1 .. k : f[i] \in Int
    PROVE  SumFunctionOnSet(f, 1 .. k) = f[k] + SumFunctionOnSet(f, 1 .. k - 1)
<1>1. IsFiniteSet(1 .. k)
  BY FS_Interval
<1>2. (1 .. k) \ {k} = 1 .. k - 1
  OBVIOUS
<1>3. SumFunctionOnSet(f, 1 .. k) = f[k] + SumFunctionOnSet(f, (1 .. k) \ {k})
  BY <1>1, SumRemove
<1> QED BY <1>2, <1>3

\* A sum over an interval is that of its front and of the rest, counted from
\* one again.
LEMMA SumRest ==
    ASSUME NEW n \in Nat, NEW m \in Nat, n <= m,
           NEW f, \A i \in 1 .. m : f[i] \in Int,
           NEW g, \A i \in 1 .. m - n : g[i] = f[n + i]
    PROVE  SumFunctionOnSet(f, 1 .. m)
                = SumFunctionOnSet(f, 1 .. n) + SumFunctionOnSet(g, 1 .. m - n)
<1> DEFINE Front(k) == SumFunctionOnSet(f, 1 .. k)
           Rest(k) == SumFunctionOnSet(g, 1 .. k)
           Right(k) == Front(n + k) = Front(n) + Rest(k)
<1>1. \A i \in 1 .. m - n : n + i \in 1 .. m /\ g[i] \in Int
  OBVIOUS
<1>2. Front(n) \in Int
  <2>1. IsFiniteSet(1 .. n) /\ \A i \in 1 .. n : f[i] \in Int
    BY FS_Interval
  <2> QED BY <2>1, SumType
<1>3. ASSUME NEW k \in 0 .. m - n PROVE Rest(k) \in Int
  <2>1. IsFiniteSet(1 .. k)
    BY FS_Interval
  <2>2. \A i \in 1 .. k : g[i] \in Int
    BY <1>1
  <2> QED BY <2>1, <2>2, SumType
<1>4. Right(0)
  <2>1. Rest(0) = 0
    <3>1. 1 .. 0 = {}
      OBVIOUS
    <3> QED BY <3>1, SumEmpty
  <2>2. n + 0 = n
    OBVIOUS
  <2> HIDE DEF Front, Rest
  <2> QED BY <1>2, <2>1, <2>2
<1>5. ASSUME NEW k \in 1 .. m - n, Right(k - 1) PROVE Right(k)
  <2>1. Rest(k) = g[k] + Rest(k - 1)
    <3>1. k \in Nat \ {0} /\ \A i \in 1 .. k : g[i] \in Int
      BY <1>1
    <3> QED BY <3>1, SumLast
  <2>2. Front(n + k) = f[n + k] + Front(n + k - 1)
    <3> DEFINE q == n + k
    <3>1. q \in Nat \ {0} /\ \A i \in 1 .. q : f[i] \in Int
      OBVIOUS
    <3> HIDE DEF q
    <3>2. SumFunctionOnSet(f, 1 .. q) = f[q] + SumFunctionOnSet(f, 1 .. q - 1)
      BY <3>1, SumLast
    <3> QED BY <3>2 DEF q
  <2>3. g[k] = f[n + k] /\ g[k] \in Int /\ n + (k - 1) = n + k - 1
    BY <1>1
  <2>4. Rest(k - 1) \in Int
    <3>1. k - 1 \in 0 .. m - n
      OBVIOUS
    <3> HIDE DEF Rest
    <3> QED BY <1>3, <3>1
  <2>5. Front(n + (k - 1)) = Front(n) + Rest(k - 1)
    BY <1>5
  <2> HIDE DEF Front, Rest
  <2> QED BY <1>2, <2>1, <2>2, <2>3, <2>4, <2>5
<1>6. Right(m - n)
  <2> HIDE DEF Right
  <2> DEFINE Bad == {1 .. k : k \in {j \in 0 .. m - n : ~Right(j)}}
  <2> SUFFICES ASSUME Bad # {} PROVE FALSE
    <3>1. m - n \in 0 .. m - n
      OBVIOUS
    <3>2. ~Right(m - n) => 1 .. m - n \in Bad
      BY <3>1
    <3> QED BY <3>2
  <2>1. Bad \in SUBSET (SUBSET (1 .. m - n))
    OBVIOUS
  <2>2. PICK T \in Bad : \A U \in SUBSET T : U # T => U \notin Bad
    <3>1. IsFiniteSet(1 .. m - n)
      BY FS_Interval
    <3> HIDE DEF Bad
    <3> QED BY <2>1, <3>1, MinimalSubset
  <2>3. PICK k \in 0 .. m - n : T = 1 .. k /\ ~Right(k)
    BY <2>2
  <2>4. k \in 1 .. m - n /\ k - 1 \in 0 .. m - n
    <3>1. k # 0
      BY <1>4, <2>3
    <3> QED BY <3>1
  <2>5. Right(k - 1)
    <3>1. 1 .. k - 1 \subseteq T /\ 1 .. k - 1 # T
      BY <2>3, <2>4
    <3>2. 1 .. k - 1 \notin Bad
      BY <2>2, <3>1
    <3> QED BY <2>4, <3>2
  <2> QED BY <1>5, <2>3, <2>4, <2>5
<1>7. n + (m - n) = m
  OBVIOUS
<1> QED BY <1>6, <1>7
==============================================================================
