----------------------------- MODULE Worth_proofs -----------------------------
(***************************************************************************)
(* What the methods of an account do to the principal in it: only a        *)
(* deposit adds to it and only draining deposits takes from it.            *)
(***************************************************************************)
EXTENDS Account_proofs

\* The principal in all the jars of an account.
Worth(account) == Total([p \in DOMAIN account.jars |-> TotalPrincipal(account.jars[p])])

\* The deposits after a method that only changes what else the jars keep.
SameDeposits(account, after) ==
    /\ DOMAIN after.jars = DOMAIN account.jars
    /\ \A p \in DOMAIN account.jars : after.jars[p].deposits = account.jars[p].deposits

\* What is taken when partition[p] deposits leave each jar p.
TakenFrom(account, partition) ==
    Total([p \in DOMAIN partition |-> Principal(account.jars[p].deposits, partition[p])])

-----------------------------------------------------------------------------
(* Sums of parts that are zero. *)

\* A sum of zeros.
LEMMA SumZero ==
    ASSUME NEW S, IsFiniteSet(S), NEW f, \A x \in S : f[x] = 0
    PROVE  SumFunctionOnSet(f, S) = 0
<1> DEFINE n == SumFunctionOnSet(f, S)
<1>1. n \in Int
  BY SumType
<1>2. n = n + n
  BY SumPlus
<1> HIDE DEF n
<1>3. n = 0
  BY <1>1, <1>2
<1> QED BY <1>3 DEF n

\* What adds nothing can be left out of a sum.
LEMMA SumSupport ==
    ASSUME NEW S, IsFiniteSet(S), NEW T \in SUBSET S, NEW f, NEW g,
           \A x \in T : f[x] \in Int /\ g[x] = f[x], \A x \in S \ T : f[x] = 0
    PROVE  SumFunctionOnSet(f, S) = SumFunctionOnSet(g, T)
<1> DEFINE whole == SumFunctionOnSet(f, S)
           part == SumFunctionOnSet(f, T)
<1>1. IsFiniteSet(T) /\ IsFiniteSet(S \ T)
  BY FS_Subset
<1>2. SumFunctionOnSet(f, T \cup (S \ T))
        = SumFunctionOnSet(f, T) + SumFunctionOnSet(f, S \ T)
  BY <1>1, SumUnion
<1>3. T \cup (S \ T) = S
  OBVIOUS
<1>4. SumFunctionOnSet(f, S \ T) = 0
  BY <1>1, SumZero
<1>5. part = SumFunctionOnSet(g, T)
  BY <1>1, SumCongruent
<1>6. part \in Int
  BY <1>1, SumType
<1>7. whole = part + 0
  BY <1>2, <1>3, <1>4
<1> HIDE DEF whole, part
<1>8. whole = part
  BY <1>6, <1>7
<1> QED BY <1>5, <1>8 DEF whole

\* The total of a map is a sum over its keys.
LEMMA TotalOver ==
    ASSUME NEW S, NEW f, DOMAIN f = S
    PROVE  Total(f) = SumFunctionOnSet(f, S)
BY DEF Total

\* The total of a map with one value that counts.
LEMMA TotalSingle ==
    ASSUME NEW S, IsFiniteSet(S), NEW x \in S, NEW n \in Int
    PROVE  Total([y \in S |-> IF y = x THEN n ELSE 0]) = n
<1> DEFINE f == [y \in S |-> IF y = x THEN n ELSE 0]
<1>1. SumFunctionOnSet(f, S) = SumFunctionOnSet(f, {x})
  BY SumSupport
<1>2. SumFunctionOnSet(f, {x}) = n
  BY SumSingle
<1> QED BY <1>1, <1>2, TotalOver

-----------------------------------------------------------------------------
(* One jar. *)

\* The deposits of a jar are naturals, one by one and in total.
LEMMA DepositsNat ==
    ASSUME NEW t \in Nat, NEW jar \in JarBy(t)
    PROVE  /\ Len(jar.deposits) \in Nat
           /\ \A i \in 1 .. Len(jar.deposits) : jar.deposits[i].principal \in Nat
           /\ TotalPrincipal(jar) \in Nat
<1>1. jar.deposits \in Seq(DepositBy(t))
  BY DEF JarBy, DepositsBy
<1>2. \A i \in 1 .. Len(jar.deposits) : jar.deposits[i] \in DepositBy(t)
  BY <1>1
<1>3. TotalPrincipal(jar) \in Nat
  BY <1>1, PrincipalNat DEF TotalPrincipal
<1> QED BY <1>1, <1>2, <1>3 DEF DepositBy

\* A jar without deposits holds nothing.
LEMMA NoDeposits ==
    ASSUME NEW jar, jar.deposits = <<>>
    PROVE  TotalPrincipal(jar) = 0
<1>1. Len(jar.deposits) = 0 /\ 1 .. 0 = {}
  OBVIOUS
<1> QED BY <1>1, SumEmpty DEF TotalPrincipal, Principal

\* A deposit adds its principal to the jar.
LEMMA AddDepositWorth ==
    ASSUME NEW t \in Nat, NEW jar \in JarBy(t), NEW principal \in Nat
    PROVE  TotalPrincipal(AddDeposit(jar, principal, t)) = TotalPrincipal(jar) + principal
<1> DEFINE d == jar.deposits
           m == Len(d)
           e == Append(d, [created_at |-> t, principal |-> principal])
           f == [i \in 1 .. m |-> d[i].principal]
           g == [i \in 1 .. m + 1 |-> e[i].principal]
<1>1. d \in Seq(DepositBy(t)) /\ m \in Nat
  BY DEF JarBy, DepositsBy
<1>2. Len(e) = m + 1 /\ e[m + 1].principal = principal
  BY <1>1
<1>3. \A i \in 1 .. m : e[i] = d[i] /\ i \in 1 .. m + 1
  BY <1>1
<1>4. AddDeposit(jar, principal, t).deposits = e
  BY DEF AddDeposit, JarBy
<1>5. \A i \in 1 .. m : d[i].principal \in Nat
  BY DepositsNat
<1> HIDE DEF d, e
<1>6. \A i \in 1 .. m + 1 : g[i] \in Int
  <2> SUFFICES ASSUME NEW i \in 1 .. m + 1 PROVE e[i].principal \in Int
    OBVIOUS
  <2>1. i \in 1 .. m \/ i = m + 1
    BY <1>1
  <2> QED BY <2>1, <1>2, <1>3, <1>5
<1>7. m + 1 \in Nat \ {0} /\ m + 1 - 1 = m /\ m + 1 \in 1 .. m + 1
  BY <1>1
<1>8. SumFunctionOnSet(g, 1 .. m + 1) = g[m + 1] + SumFunctionOnSet(g, 1 .. m + 1 - 1)
  BY <1>6, <1>7, SumLast
<1>9. \A i \in 1 .. m : g[i] = f[i] /\ f[i] \in Int
  BY <1>3, <1>5
<1>10. IsFiniteSet(1 .. m)
  BY <1>1, FS_Interval
<1> HIDE DEF f, g
<1>14. SumFunctionOnSet(g, 1 .. m) = SumFunctionOnSet(f, 1 .. m)
       /\ SumFunctionOnSet(f, 1 .. m) \in Int
  BY <1>9, <1>10, SumCongruent, SumType
<1>11. SumFunctionOnSet(g, 1 .. m + 1) = principal + SumFunctionOnSet(f, 1 .. m)
  <2>1. g[m + 1] = principal
    BY <1>2, <1>7 DEF g
  <2> QED BY <2>1, <1>7, <1>8, <1>14
<1>12. TotalPrincipal(AddDeposit(jar, principal, t)) = SumFunctionOnSet(g, 1 .. m + 1)
  BY <1>2, <1>4 DEF TotalPrincipal, Principal, g
<1>13. TotalPrincipal(jar) = SumFunctionOnSet(f, 1 .. m)
  BY DEF TotalPrincipal, Principal, d, f
<1> DEFINE n == SumFunctionOnSet(f, 1 .. m)
           k == SumFunctionOnSet(g, 1 .. m + 1)
<1>15. n \in Int /\ k = principal + n
  BY <1>11, <1>14
<1> HIDE DEF n, k
<1>16. k = n + principal
  BY <1>15
<1> QED BY <1>12, <1>13, <1>16 DEF n, k

\* Draining the oldest deposits takes their principal from the jar.
LEMMA CleanUpWorth ==
    ASSUME NEW t \in Nat, NEW jar \in JarBy(t), NEW n \in Nat, CanCleanUp(jar, n)
    PROVE  /\ Principal(jar.deposits, n) \in Nat
           /\ TotalPrincipal(CleanUpDeposits(jar, n)) \in Nat
           /\ TotalPrincipal(jar)
                = Principal(jar.deposits, n) + TotalPrincipal(CleanUpDeposits(jar, n))
<1> DEFINE d == jar.deposits
           m == Len(d)
           e == SubSeq(d, n + 1, m)
           f == [i \in 1 .. m |-> d[i].principal]
           g == [i \in 1 .. m - n |-> e[i].principal]
<1>1. d \in Seq(DepositBy(t)) /\ m \in Nat /\ n <= m
  BY DEF JarBy, DepositsBy, CanCleanUp
<1>2. Len(e) = m - n /\ \A i \in 1 .. m - n : e[i] = d[n + i]
  BY <1>1
<1>3. CleanUpDeposits(jar, n).deposits = e
  BY DEF CleanUpDeposits, JarBy
<1>4. \A i \in 1 .. m : d[i].principal \in Nat
  BY DepositsNat
<1>5. Principal(d, n) \in Nat
  BY <1>1, PrincipalNat
<1>6. TotalPrincipal(CleanUpDeposits(jar, n)) \in Nat
  BY CleanUpDepositsType, DepositsNat
<1> HIDE DEF d, e
<1>7. \A i \in 1 .. m - n : g[i] = f[n + i]
  BY <1>1, <1>2
<1>8. SumFunctionOnSet(f, 1 .. m) = SumFunctionOnSet(f, 1 .. n) + SumFunctionOnSet(g, 1 .. m - n)
  <2>1. \A i \in 1 .. m : f[i] \in Int
    BY <1>4
  <2> HIDE DEF f, g
  <2> QED BY <1>1, <1>7, <2>1, SumRest
<1>9. IsFiniteSet(1 .. n) /\ \A i \in 1 .. n : i \in 1 .. m
  BY <1>1, FS_Interval
<1>10. SumFunctionOnSet(f, 1 .. n) = Principal(d, n)
  BY <1>9, SumCongruent DEF Principal
<1>11. TotalPrincipal(jar) = SumFunctionOnSet(f, 1 .. m)
  BY DEF TotalPrincipal, Principal, d
<1>12. TotalPrincipal(CleanUpDeposits(jar, n)) = SumFunctionOnSet(g, 1 .. m - n)
  BY <1>2, <1>3 DEF TotalPrincipal, Principal
<1>13. TotalPrincipal(jar) = Principal(d, n) + TotalPrincipal(CleanUpDeposits(jar, n))
  BY <1>8, <1>10, <1>11, <1>12
<1> QED BY <1>5, <1>6, <1>13 DEF d

-----------------------------------------------------------------------------
(* All the jars of an account.                                              *)

\* The keys of an account's jars are finitely many, and each jar has a worth.
LEMMA JarsFinite ==
    ASSUME NEW t \in Nat, NEW account, AccountBy(account, t)
    PROVE  /\ IsFiniteSet(DOMAIN account.jars) /\ DOMAIN account.jars \subseteq ProductIds
           /\ \A p \in DOMAIN account.jars :
                account.jars[p] \in JarBy(t) /\ TotalPrincipal(account.jars[p]) \in Nat
<1>1. DOMAIN account.jars \subseteq ProductIds
  BY DEF AccountBy, IsMap
<1>2. IsFiniteSet(DOMAIN account.jars)
  BY <1>1, AccountAssumption, FS_Subset
<1>3. \A p \in DOMAIN account.jars : account.jars[p] \in JarBy(t)
  BY DEF AccountBy, JarsBy
<1> QED BY <1>1, <1>2, <1>3, DepositsNat

\* The worth of an account is a natural number.
LEMMA WorthNat ==
    ASSUME NEW t \in Nat, NEW account, AccountBy(account, t)
    PROVE  Worth(account) \in Nat
<1> DEFINE f == [p \in DOMAIN account.jars |-> TotalPrincipal(account.jars[p])]
<1>1. DOMAIN f \subseteq ProductIds /\ \A p \in DOMAIN f : f[p] \in Nat
  BY JarsFinite
<1> HIDE DEF f
<1>2. Total(f) \in Nat
  BY <1>1, TotalNat
<1> QED BY <1>2 DEF Worth, f

\* A new account holds nothing.
LEMMA EmptyWorth == \A t : Worth(EmptyAccount(t)) = 0
<1> SUFFICES ASSUME NEW t PROVE Worth(EmptyAccount(t)) = 0
  OBVIOUS
<1> DEFINE f == [p \in DOMAIN EmptyMap |-> TotalPrincipal(EmptyMap[p])]
<1>1. EmptyAccount(t).jars = EmptyMap
  BY DEF EmptyAccount
<1>2. DOMAIN f = {}
  BY DEF EmptyMap
<1>3. Total(f) = 0
  BY <1>2, SumEmpty DEF Total
<1> QED BY <1>1, <1>3 DEF Worth

\* What leaves the deposits alone keeps the worth.
LEMMA SameWorth ==
    ASSUME NEW account, NEW after, SameDeposits(account, after)
    PROVE  Worth(after) = Worth(account)
<1>1. \A p \in DOMAIN account.jars :
        TotalPrincipal(after.jars[p]) = TotalPrincipal(account.jars[p])
  BY DEF SameDeposits, TotalPrincipal
<1>2. [p \in DOMAIN after.jars |-> TotalPrincipal(after.jars[p])]
        = [p \in DOMAIN account.jars |-> TotalPrincipal(account.jars[p])]
  BY <1>1 DEF SameDeposits
<1> QED BY <1>2 DEF Worth

\* Locks and caches are no deposits.
LEMMA LocksWorth ==
    ASSUME NEW account, NEW after,
           \/ SameJars(account, after)
           \/ \E ps, b : LocksSet(account, after, ps, b)
           \/ after.jars = account.jars
    PROVE  Worth(after) = Worth(account)
<1>1. SameDeposits(account, after)
  BY DEF SameJars, LocksSet, SameDeposits
<1> QED BY <1>1, SameWorth

\* The same can be taken from the same deposits.
LEMMA TakenSame ==
    ASSUME NEW account, NEW after, SameDeposits(account, after),
           NEW partition, DOMAIN partition \subseteq DOMAIN account.jars
    PROVE  TakenFrom(after, partition) = TakenFrom(account, partition)
<1>1. [p \in DOMAIN partition |-> Principal(after.jars[p].deposits, partition[p])]
        = [p \in DOMAIN partition |-> Principal(account.jars[p].deposits, partition[p])]
  BY DEF SameDeposits
<1> QED BY <1>1 DEF TakenFrom

\* A deposit adds its principal to the account.
LEMMA DepositWorth ==
    ASSUME NEW t \in Nat, NEW account, AccountBy(account, t), NEW q \in ProductIds,
           NEW principal \in Nat
    PROVE  Worth(DepositTo(account, q, principal, t)) = Worth(account) + principal
<1> DEFINE old == JarOrNew(account, q)
           new == AddDeposit(old, principal, t)
           after == DepositTo(account, q, principal, t)
           D == DOMAIN account.jars
           f == [p \in D |-> TotalPrincipal(account.jars[p])]
           g == [p \in D \cup {q} |-> TotalPrincipal(after.jars[p])]
<1>1. /\ IsFiniteSet(D) /\ D \subseteq ProductIds
      /\ \A p \in D : account.jars[p] \in JarBy(t) /\ f[p] \in Nat
  BY JarsFinite
<1>2. old \in JarBy(t) /\ TotalPrincipal(old) = IF q \in D THEN f[q] ELSE 0
  <2>1. EmptyJar \in JarBy(t)
    <3>1. <<>> \in DepositsBy(t)
      BY DEF DepositsBy, OldestFirst
    <3> QED BY <3>1 DEF EmptyJar, JarBy, CacheBy, NoCache
  <2>2. TotalPrincipal(EmptyJar) = 0
    BY NoDeposits DEF EmptyJar
  <2> QED BY <1>1, <2>1, <2>2 DEF JarOrNew
<1>3. TotalPrincipal(new) = TotalPrincipal(old) + principal
  BY <1>2, AddDepositWorth
<1>4. after.jars = Put(account.jars, q, new)
  BY DEF DepositTo, AccountBy
<1>5. DOMAIN after.jars = D \cup {q} /\ \A p \in D \cup {q} :
        after.jars[p] = IF p = q THEN new ELSE account.jars[p]
  BY <1>4 DEF Put
<1> HIDE DEF old, new, after, D
<1>6. \A p \in D \cup {q} : g[p] = IF p = q THEN TotalPrincipal(new) ELSE f[p]
  BY <1>5
<1>7. TotalPrincipal(new) \in Nat /\ TotalPrincipal(new)
        = (IF q \in D THEN f[q] ELSE 0) + principal
  BY <1>1, <1>2, <1>3
<1>8. Worth(account) = SumFunctionOnSet(f, D)
  BY DEF Worth, Total, D
<1>9. Worth(after) = SumFunctionOnSet(g, D \cup {q})
  BY <1>5 DEF Worth, Total
<1> HIDE DEF f, g
<1>10. /\ SumFunctionOnSet(f, D) \in Int
       /\ SumFunctionOnSet(g, D \cup {q}) = SumFunctionOnSet(f, D)
            - (IF q \in D THEN f[q] ELSE 0) + (IF q \in D \cup {q} THEN g[q] ELSE 0)
  <2>1. \A p \in D : f[p] \in Int
    BY <1>1
  <2>2. \A p \in D \cup {q} : g[p] \in Int
    BY <1>6, <1>7, <2>1
  <2>3. D \ {q} = (D \cup {q}) \ {q} /\ \A p \in D \ {q} : f[p] = g[p]
    BY <1>6
  <2> QED BY <1>1, <2>1, <2>2, <2>3, SumChange
<1>11. g[q] = (IF q \in D THEN f[q] ELSE 0) + principal /\ q \in D \cup {q}
  BY <1>6, <1>7
<1> DEFINE n == Worth(account)
           k == Worth(after)
           x == IF q \in D THEN f[q] ELSE 0
<1>12. n \in Int /\ x \in Int /\ k = n - x + (x + principal)
  BY <1>1, <1>8, <1>9, <1>10, <1>11
<1> HIDE DEF n, k, x
<1>13. k = n + principal
  BY <1>12
<1> QED BY <1>13 DEF n, k, after

\* Draining deposits takes their principal from the account.
LEMMA DrainWorth ==
    ASSUME NEW t \in Nat, NEW account, AccountBy(account, t), NEW partition,
           CanCleanUpJars(account, partition),
           \A p \in DOMAIN partition : partition[p] \in Nat
    PROVE  /\ TakenFrom(account, partition) \in Nat
           /\ Worth(CleanUpJars(account, partition))
                = Worth(account) - TakenFrom(account, partition)
<1> DEFINE after == CleanUpJars(account, partition)
           D == DOMAIN account.jars
           P == DOMAIN partition
           f == [p \in D |-> TotalPrincipal(account.jars[p])]
           g == [p \in D |-> TotalPrincipal(after.jars[p])]
           taken == [p \in P |-> Principal(account.jars[p].deposits, partition[p])]
           h == [p \in D |-> IF p \in P THEN taken[p] ELSE 0]
<1>1. /\ IsFiniteSet(D) /\ D \subseteq ProductIds
      /\ \A p \in D : account.jars[p] \in JarBy(t) /\ f[p] \in Nat
  BY JarsFinite
<1>2. P \subseteq D /\ \A p \in P : CanCleanUp(account.jars[p], partition[p])
  BY DEF CanCleanUpJars
<1>3. DOMAIN after.jars = D /\ \A p \in D : after.jars[p] =
        IF p \in P THEN CleanUpDeposits(account.jars[p], partition[p]) ELSE account.jars[p]
  BY DEF CleanUpJars, AccountBy
<1> HIDE DEF after, D, P
<1>4. ASSUME NEW p \in D
      PROVE  h[p] \in Nat /\ g[p] \in Nat /\ f[p] = h[p] + g[p]
  <2>1. CASE p \in P
    <3>1. /\ taken[p] \in Nat /\ g[p] \in Nat
          /\ f[p] = taken[p] + g[p]
      BY <1>1, <1>2, <1>3, <2>1, CleanUpWorth DEF P
    <3> QED BY <2>1, <3>1
  <2>2. CASE p \notin P
    <3>1. g[p] = f[p] /\ h[p] = 0 /\ f[p] \in Nat
      BY <1>1, <1>3, <2>2
    <3> QED BY <3>1
  <2> QED BY <2>1, <2>2
<1>5. \A p \in P : h[p] = taken[p] /\ h[p] \in Int
  BY <1>2, <1>4
<1>6. \A p \in D \ P : h[p] = 0
  OBVIOUS
<1>7. Worth(account) = SumFunctionOnSet(f, D)
  BY DEF Worth, Total, D
<1>8. Worth(after) = SumFunctionOnSet(g, D)
  BY <1>3 DEF Worth, Total
<1>9. TakenFrom(account, partition) = SumFunctionOnSet(taken, P)
  BY DEF TakenFrom, Total, P
<1>10. \A p \in D : h[p] \in Nat /\ g[p] \in Nat /\ f[p] = h[p] + g[p]
  BY <1>4
<1> HIDE DEF f, g, h, taken
<1>11. SumFunctionOnSet(h, D) = SumFunctionOnSet(taken, P)
  BY <1>1, <1>2, <1>5, <1>6, SumSupport
<1>12. SumFunctionOnSet(f, D) = SumFunctionOnSet(h, D) + SumFunctionOnSet(g, D)
  BY <1>1, <1>10, SumPlus
<1>13. SumFunctionOnSet(h, D) \in Nat /\ SumFunctionOnSet(g, D) \in Nat
  BY <1>1, <1>10, SumNat
<1> DEFINE n == Worth(account)
           k == Worth(after)
           x == TakenFrom(account, partition)
<1>14. k \in Nat /\ x \in Nat /\ n = x + k
  BY <1>7, <1>8, <1>9, <1>11, <1>12, <1>13
<1> HIDE DEF n, k, x
<1>15. k = n - x
  BY <1>14
<1> QED BY <1>14, <1>15 DEF n, k, x, after

\* What is drained from some jars was in them.
LEMMA TakenPart ==
    ASSUME NEW t \in Nat, NEW account, AccountBy(account, t), NEW partition,
           CanCleanUpJars(account, partition),
           \A p \in DOMAIN partition : partition[p] \in Nat
    PROVE  TakenFrom(account, partition) <= SumFunctionOnSet(
                [p \in DOMAIN account.jars |-> TotalPrincipal(account.jars[p])],
                DOMAIN partition)
<1> DEFINE P == DOMAIN partition
           f == [p \in DOMAIN account.jars |-> TotalPrincipal(account.jars[p])]
           taken == [p \in P |-> Principal(account.jars[p].deposits, partition[p])]
           rest == [p \in P |-> f[p] - taken[p]]
<1>1. /\ IsFiniteSet(DOMAIN account.jars)
      /\ \A p \in DOMAIN account.jars :
            account.jars[p] \in JarBy(t) /\ TotalPrincipal(account.jars[p]) \in Nat
  BY JarsFinite
<1>2. P \subseteq DOMAIN account.jars
      /\ \A p \in P : CanCleanUp(account.jars[p], partition[p])
  BY DEF CanCleanUpJars
<1>3. IsFiniteSet(P)
  BY <1>1, <1>2, FS_Subset
<1>4. \A p \in P : taken[p] \in Nat /\ f[p] \in Nat /\ rest[p] \in Nat
                   /\ f[p] = taken[p] + rest[p]
  <2> SUFFICES ASSUME NEW p \in P
               PROVE  taken[p] \in Nat /\ f[p] \in Nat /\ rest[p] \in Nat
                      /\ f[p] = taken[p] + rest[p]
    OBVIOUS
  <2> DEFINE left == TotalPrincipal(CleanUpDeposits(account.jars[p], partition[p]))
  <2>1. partition[p] \in Nat /\ account.jars[p] \in JarBy(t)
    BY <1>1, <1>2
  <2>2. taken[p] \in Nat /\ left \in Nat /\ f[p] = taken[p] + left
    BY <1>2, <2>1, CleanUpWorth
  <2>3. rest[p] = f[p] - taken[p]
    OBVIOUS
  <2> HIDE DEF left, f, taken, rest
  <2> QED BY <2>2, <2>3
<1>5. TakenFrom(account, partition) = SumFunctionOnSet(taken, P)
  BY DEF TakenFrom, Total
<1> HIDE DEF f, taken, rest, P
<1>6. SumFunctionOnSet(f, P) = SumFunctionOnSet(taken, P) + SumFunctionOnSet(rest, P)
  BY <1>3, <1>4, SumPlus
<1>7. SumFunctionOnSet(taken, P) \in Nat /\ SumFunctionOnSet(rest, P) \in Nat
  BY <1>3, <1>4, SumNat
<1> DEFINE n == SumFunctionOnSet(taken, P)
           k == SumFunctionOnSet(rest, P)
           x == SumFunctionOnSet(f, P)
<1>8. n \in Nat /\ k \in Nat /\ x = n + k
  BY <1>6, <1>7
<1> HIDE DEF n, k, x
<1>9. n <= x
  BY <1>8
<1> QED BY <1>5, <1>9 DEF n, x, f, P

\* A jar that is closed held nothing.
LEMMA CloseWorth ==
    ASSUME NEW t \in Nat, NEW account, AccountBy(account, t), NEW ps
    PROVE  Worth(CloseJars(account, ps)) = Worth(account)
<1> DEFINE after == CloseJars(account, ps)
           D == DOMAIN account.jars
           gone == {p \in ps \cap D : ShouldClose(account.jars[p])}
           f == [p \in D |-> TotalPrincipal(account.jars[p])]
           g == [p \in D \ gone |-> TotalPrincipal(after.jars[p])]
<1>1. IsFiniteSet(D) /\ \A p \in D : f[p] \in Nat
  BY JarsFinite
<1>2. after.jars = Drop(account.jars, gone)
  BY DEF CloseJars, AccountBy
<1>3. \A p \in gone : f[p] = 0 /\ p \in D
  BY NoDeposits DEF ShouldClose
<1>4. IsMap(account.jars, ProductIds)
  BY DEF AccountBy
<1> HIDE DEF gone, after
<1>5. DOMAIN after.jars = D \ gone /\ \A p \in D \ gone : after.jars[p] = account.jars[p]
  BY <1>2, <1>4, DropMap
<1>6. \A p \in D \ gone : f[p] \in Int /\ g[p] = f[p]
  BY <1>1, <1>5
<1>7. Worth(account) = SumFunctionOnSet(f, D)
  BY DEF Worth, Total
<1>8. Worth(after) = SumFunctionOnSet(g, D \ gone)
  BY <1>5 DEF Worth, Total
<1> HIDE DEF f, g, D
<1>9. SumFunctionOnSet(f, D) = SumFunctionOnSet(g, D \ gone)
  BY <1>1, <1>3, <1>6, SumSupport
<1> QED BY <1>7, <1>8, <1>9 DEF after
=============================================================================
