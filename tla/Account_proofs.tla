---------------------------- MODULE Account_proofs ----------------------------
(***************************************************************************)
(* Type lemmas about the operators on jars and accounts. They carry two    *)
(* facts more than the types of the model: no time stamp lies in the       *)
(* future (JarBy(t), AccountBy(t)), which is what keeps the time a deposit *)
(* earned interest for from being negative, and deposits are kept oldest   *)
(* first, so that the ones that matured are the first ones.                *)
(***************************************************************************)
EXTENDS Account, Sums_proofs, SequenceTheorems

\* Deposits, jars and accounts whose time stamps are at most t.
DepositBy(t) == [created_at : 0 .. t, principal : Nat]

CacheBy(t) == [updated_at : 0 .. t, interest : Nat]

\* The order partition_point relies on.
OldestFirst(deposits) ==
    \A i, j \in DOMAIN deposits :
        i <= j => deposits[i].created_at <= deposits[j].created_at

DepositsBy(t) == {deposits \in Seq(DepositBy(t)) : OldestFirst(deposits)}

JarBy(t) == [deposits : DepositsBy(t), cache : CacheBy(t),
             is_locked : BOOLEAN, claim_remainder : Nat]

JarsBy(jars, t) == \A p \in DOMAIN jars : jars[p] \in JarBy(t)

AccountBy(account, t) ==
    /\ account \in [jars : {account.jars}, timezone : Timezones \cup {InvalidTimezone},
                    score : AccountScore, features : SUBSET Features]
    /\ IsMap(account.jars, ProductIds)
    /\ JarsBy(account.jars, t)

\* The jars of the account after a method that leaves the deposits alone: the
\* locks of the jars ps are set to b, or all locks are what they were.
LocksSet(account, after, ps, b) ==
    /\ DOMAIN after.jars = DOMAIN account.jars
    /\ \A p \in DOMAIN account.jars :
        /\ after.jars[p].deposits = account.jars[p].deposits
        /\ after.jars[p].is_locked = IF p \in ps THEN b ELSE account.jars[p].is_locked

SameJars(account, after) ==
    /\ DOMAIN after.jars = DOMAIN account.jars
    /\ \A p \in DOMAIN account.jars :
        /\ after.jars[p].deposits = account.jars[p].deposits
        /\ after.jars[p].is_locked = account.jars[p].is_locked

\* The same locks, and perhaps an unlocked jar q that was not there.
JarAdded(account, after, q) ==
    /\ DOMAIN after.jars = DOMAIN account.jars \cup {q}
    /\ \A p \in DOMAIN account.jars :
        after.jars[p].is_locked = account.jars[p].is_locked
    /\ q \notin DOMAIN account.jars => after.jars[q].is_locked = FALSE

\* Some of the jars ps are gone, and the others are what they were.
JarsClosed(account, after, ps) ==
    /\ DOMAIN after.jars \subseteq DOMAIN account.jars
    /\ DOMAIN account.jars \ ps \subseteq DOMAIN after.jars
    /\ \A p \in DOMAIN after.jars : after.jars[p] = account.jars[p]

Accrual == [interest : Nat, remainder : Nat]

-----------------------------------------------------------------------------
(* Maps and arithmetic. *)

\* Adding an entry to a map.
LEMMA PutMap ==
    ASSUME NEW f, NEW S, IsMap(f, S), NEW k \in S, NEW v
    PROVE  /\ IsMap(Put(f, k, v), S)
           /\ DOMAIN Put(f, k, v) = DOMAIN f \cup {k}
           /\ \A x \in DOMAIN f \cup {k} : Put(f, k, v)[x] = IF x = k THEN v ELSE f[x]
BY DEF IsMap, Put

\* Removing entries from a map.
LEMMA DropMap ==
    ASSUME NEW f, NEW S, IsMap(f, S), NEW K
    PROVE  /\ IsMap(Drop(f, K), S)
           /\ DOMAIN Drop(f, K) = DOMAIN f \ K
           /\ \A x \in DOMAIN f \ K : Drop(f, K)[x] = f[x]
BY DEF IsMap, Drop, Restrict

\* A map over products has finitely many entries, and numbers in it add up to
\* a number.
LEMMA TotalNat ==
    ASSUME NEW f, DOMAIN f \subseteq ProductIds, \A x \in DOMAIN f : f[x] \in Nat
    PROVE  Total(f) \in Nat
<1>1. IsFiniteSet(DOMAIN f)
  BY AccountAssumption, FS_Subset
<1> QED BY <1>1, SumNat DEF Total

\* Products and quotients of numbers are numbers; so are remainders.
LEMMA TimesNat == \A x, y \in Nat : x * y \in Nat
OBVIOUS

\* Quotients of naturals are naturals.
LEMMA DivNat ==
    ASSUME NEW x \in Nat, NEW y \in Nat \ {0}
    PROVE  x \div y \in Nat /\ x % y \in Nat
OBVIOUS

\* A rate of a number is a number.
LEMMA RateNat ==
    ASSUME NEW rate \in Nat, NEW x \in Nat
    PROVE  Rate(rate, x) \in Nat
<1>1. rate * x \in Nat
  BY TimesNat
<1> QED BY <1>1, DivNat, RateScaleAssumption DEF Rate

\* A withdrawal fee is a number.
LEMMA FeeNat ==
    ASSUME NEW p \in ProductIds, NEW amount \in Nat
    PROVE  CalculateFee(Products[p], amount) \in Nat
<1>1. Products[p] \in Product
  BY AccountAssumption
<1>2. Products[p].withdrawal_fee.value \in Nat
      /\ Products[p].withdrawal_fee.kind \in {"none", "fix", "percent"}
  BY <1>1 DEF Product, WithdrawalFee
<1>3. Rate(Products[p].withdrawal_fee.value, amount) \in Nat
  BY <1>2, RateNat
<1> QED BY <1>2, <1>3 DEF CalculateFee

-----------------------------------------------------------------------------
(* Jars. *)

\* What was true by time t is true by any later time.
LEMMA Later ==
    ASSUME NEW t \in Nat, NEW u \in Nat, t <= u, NEW jar \in JarBy(t)
    PROVE  jar \in JarBy(u)
<1>1. jar.deposits \in DepositsBy(u)
  <2>1. jar.deposits \in Seq(DepositBy(t)) /\ OldestFirst(jar.deposits)
    BY DEF JarBy, DepositsBy
  <2>2. DepositBy(t) \subseteq DepositBy(u)
    BY DEF DepositBy
  <2>3. jar.deposits \in Seq(DepositBy(u))
    BY <2>1, <2>2, SeqDef
  <2> QED BY <2>1, <2>3 DEF DepositsBy
<1>2. jar.cache \in CacheBy(u)
  BY DEF JarBy, CacheBy
<1> QED BY <1>1, <1>2 DEF JarBy

\* The principal of some of the deposits.
LEMMA PrincipalNat ==
    ASSUME NEW t \in Nat, NEW jar \in JarBy(t), NEW n \in 0 .. Len(jar.deposits)
    PROVE  Principal(jar.deposits, n) \in Nat
<1> DEFINE f == [i \in 1 .. n |-> jar.deposits[i].principal]
<1>1. jar.deposits \in Seq(DepositBy(t))
  BY DEF JarBy, DepositsBy
<1>2. \A i \in 1 .. n : f[i] \in Nat
  <2> TAKE i \in 1 .. n
  <2>1. jar.deposits[i] \in DepositBy(t)
    BY <1>1
  <2> QED BY <2>1 DEF DepositBy
<1>3. IsFiniteSet(1 .. n)
  BY <1>1, FS_Interval
<1>4. SumFunctionOnSet(f, 1 .. n) \in Nat
  <2> HIDE DEF f
  <2> QED BY <1>2, <1>3, SumNat
<1> QED BY <1>4 DEF Principal

\* A partition index is one of the jar.
LEMMA PartitionIndexType ==
    ASSUME NEW t \in Nat, NEW jar \in JarBy(t), NEW terms, NEW now
    PROVE  PartitionIndex(jar, terms, now) \in 0 .. Len(jar.deposits)
<1> DEFINE D == DOMAIN jar.deposits
           L == {i \in D : IsLiquid(terms, jar.deposits[i], now)}
<1>1. jar.deposits \in Seq(DepositBy(t))
  BY DEF JarBy, DepositsBy
<1>2. D = 1 .. Len(jar.deposits) /\ Len(jar.deposits) \in Nat
  BY <1>1
<1>3. IsFiniteSet(D) /\ Cardinality(D) = Len(jar.deposits)
  BY <1>2, FS_Interval
<1>4. Cardinality(L) \in Nat /\ Cardinality(L) <= Cardinality(D)
  <2>1. L \subseteq D
    OBVIOUS
  <2> HIDE DEF L, D
  <2> QED BY <1>3, <2>1, FS_Subset, FS_CardinalityType
<1> QED BY <1>2, <1>3, <1>4 DEF PartitionIndex

\* What can be withdrawn from a jar.
LEMMA LiquidBalanceNat ==
    ASSUME NEW t \in Nat, NEW jar \in JarBy(t), NEW terms, NEW now
    PROVE  LiquidBalance(jar, terms, now) \in Nat
BY PartitionIndexType, PrincipalNat DEF LiquidBalance

\* The methods of a jar keep its type.
LEMMA JarMethods ==
    ASSUME NEW t \in Nat, NEW jar \in JarBy(t)
    PROVE  /\ Lock(jar) \in JarBy(t) /\ Unlock(jar) \in JarBy(t)
           /\ \A accrual \in Accrual, at \in 0 .. t : UpdateCache(jar, accrual, at) \in JarBy(t)
           /\ \A rollback \in [claim_remainder : Nat, cache : CacheBy(t)] :
                ApplyRollback(jar, rollback) \in JarBy(t)
           /\ ToRollback(jar) \in [claim_remainder : Nat, cache : CacheBy(t)]
<1>1. Lock(jar) \in JarBy(t) /\ Unlock(jar) \in JarBy(t)
  BY DEF Lock, Unlock, JarBy
<1>2. ASSUME NEW accrual \in Accrual, NEW at \in 0 .. t
      PROVE  UpdateCache(jar, accrual, at) \in JarBy(t)
  BY DEF UpdateCache, JarBy, CacheBy, Accrual
<1>3. ASSUME NEW rollback \in [claim_remainder : Nat, cache : CacheBy(t)]
      PROVE  ApplyRollback(jar, rollback) \in JarBy(t)
  BY DEF ApplyRollback, JarBy
<1>4. ToRollback(jar) \in [claim_remainder : Nat, cache : CacheBy(t)]
  BY DEF ToRollback, JarBy
<1> QED BY <1>1, <1>2, <1>3, <1>4

\* So do a deposit and the removal of deposits.
LEMMA AddDepositType ==
    ASSUME NEW t \in Nat, NEW jar \in JarBy(t), NEW principal \in Nat
    PROVE  AddDeposit(jar, principal, t) \in JarBy(t)
<1>1. [created_at |-> t, principal |-> principal] \in DepositBy(t)
  BY DEF DepositBy
<1>2. jar.deposits \in Seq(DepositBy(t))
  BY DEF JarBy, DepositsBy
<1> DEFINE d == jar.deposits
           e == Append(d, [created_at |-> t, principal |-> principal])
<1>3. /\ e \in Seq(DepositBy(t)) /\ DOMAIN e = 1 .. Len(d) + 1 /\ Len(d) \in Nat
      /\ \A i \in 1 .. Len(d) : e[i] = d[i] /\ d[i] \in DepositBy(t)
      /\ e[Len(d) + 1].created_at = t
  BY <1>1, <1>2, AppendProperties
<1>4. OldestFirst(d)
  BY DEF JarBy, DepositsBy
<1>5. OldestFirst(e)
  <2> SUFFICES ASSUME NEW i \in DOMAIN e, NEW j \in DOMAIN e, i <= j
               PROVE  e[i].created_at <= e[j].created_at
    BY DEF OldestFirst
  <2> HIDE DEF d, e
  <2>1. CASE j = Len(d) + 1
    BY <1>3, <2>1 DEF DepositBy
  <2>2. CASE j # Len(d) + 1
    <3>1. i \in 1 .. Len(d) /\ j \in 1 .. Len(d)
      BY <1>3, <2>2
    <3>2. DOMAIN d = 1 .. Len(d)
      BY <1>2, LenProperties DEF d
    <3> QED BY <1>3, <1>4, <3>1, <3>2 DEF OldestFirst
  <2> QED BY <2>1, <2>2
<1>6. e \in DepositsBy(t)
  <2> HIDE DEF e
  <2> QED BY <1>3, <1>5 DEF DepositsBy
<1> QED BY <1>6 DEF AddDeposit, JarBy

\* Draining the oldest deposits leaves a jar.
LEMMA CleanUpDepositsType ==
    ASSUME NEW t \in Nat, NEW jar \in JarBy(t), NEW n \in Nat, CanCleanUp(jar, n)
    PROVE  CleanUpDeposits(jar, n) \in JarBy(t)
<1>1. jar.deposits \in Seq(DepositBy(t)) /\ Len(jar.deposits) \in Nat
  BY DEF JarBy, DepositsBy
<1> DEFINE d == jar.deposits
           e == SubSeq(d, n + 1, Len(d))
<1>2. /\ e \in Seq(DepositBy(t)) /\ DOMAIN e = 1 .. Len(d) - n
      /\ \A i \in 1 .. Len(d) - n : e[i] = d[n + i]
  BY <1>1, SubSeqProperties DEF CanCleanUp
<1>3. OldestFirst(d) /\ DOMAIN d = 1 .. Len(d)
  BY <1>1, LenProperties DEF JarBy, DepositsBy
<1>4. OldestFirst(e)
  <2> SUFFICES ASSUME NEW i \in DOMAIN e, NEW j \in DOMAIN e, i <= j
               PROVE  e[i].created_at <= e[j].created_at
    BY DEF OldestFirst
  <2> HIDE DEF e
  <2>1. n + i \in DOMAIN d /\ n + j \in DOMAIN d /\ n + i <= n + j
    BY <1>1, <1>2, <1>3
  <2> QED BY <1>2, <1>3, <2>1 DEF OldestFirst
<1>5. e \in DepositsBy(t)
  <2> HIDE DEF e
  <2> QED BY <1>2, <1>4 DEF DepositsBy
<1> QED BY <1>5 DEF CleanUpDeposits, JarBy

-----------------------------------------------------------------------------
(* Interest. *)

\* The terms of a product.
LEMMA TermsType ==
    ASSUME NEW p \in ProductIds
    PROVE  TermsOf(p) \in Terms
BY AccountAssumption DEF TermsOf, Product

\* A set of positions that goes down to the first is an interval.
LEMMA Prefix ==
    ASSUME NEW n \in Nat, NEW L \in SUBSET (1 .. n), \A i \in L : 1 .. i \subseteq L
    PROVE  L = 1 .. Cardinality(L)
<1>1. CASE L = 1 .. n
  <2>1. Cardinality(1 .. n) = n
    BY FS_Interval
  <2> QED BY <1>1, <2>1
<1>2. CASE L # 1 .. n
  <2> DEFINE Bad == {1 .. k : k \in (1 .. n) \ L}
  <2>1. Bad \in SUBSET (SUBSET (1 .. n)) /\ Bad # {}
    <3>1. \A k \in 1 .. n : 1 .. k \subseteq 1 .. n
      OBVIOUS
    <3>2. PICK k \in 1 .. n : k \notin L
      BY <1>2
    <3>3. 1 .. k \in Bad
      BY <3>2
    <3> QED BY <3>1, <3>3
  <2>2. IsFiniteSet(1 .. n)
    BY FS_Interval
  <2>3. PICK T \in Bad : \A U \in SUBSET T : U # T => U \notin Bad
    <3> HIDE DEF Bad
    <3> QED BY <2>1, <2>2, MinimalSubset
  <2>4. PICK k \in (1 .. n) \ L : T = 1 .. k
    BY <2>3
  <2>5. \A j \in 1 .. k - 1 : j \in L
    <3> SUFFICES ASSUME NEW j \in 1 .. k - 1, j \notin L PROVE FALSE
      OBVIOUS
    <3>1. 1 .. j \in Bad
      OBVIOUS
    <3>2. 1 .. j \subseteq T /\ 1 .. j # T
      BY <2>4
    <3> QED BY <2>3, <3>1, <3>2
  <2>6. L = 1 .. k - 1
    <3>1. ASSUME NEW i \in L PROVE i \in 1 .. k - 1
      <4>1. i \in 1 .. n /\ k \in 1 .. n /\ k \notin 1 .. i
        OBVIOUS
      <4> QED BY <4>1
    <3> QED BY <2>5, <3>1
  <2>7. Cardinality(1 .. k - 1) = k - 1
    BY FS_Interval
  <2> QED BY <2>6, <2>7
<1> QED BY <1>1, <1>2

\* The liquid deposits are the first ones, as partition_point has it.
LEMMA LiquidFirst ==
    ASSUME NEW t \in Nat, NEW jar \in JarBy(t), NEW p \in ProductIds
    PROVE  \A i \in 1 .. PartitionIndex(jar, TermsOf(p), t) :
                IsLiquid(TermsOf(p), jar.deposits[i], t)
<1> DEFINE n == Len(jar.deposits)
           terms == TermsOf(p)
           L == {i \in DOMAIN jar.deposits : IsLiquid(terms, jar.deposits[i], t)}
<1>1. /\ jar.deposits \in Seq(DepositBy(t)) /\ OldestFirst(jar.deposits)
      /\ DOMAIN jar.deposits = 1 .. n /\ n \in Nat
  BY DEF JarBy, DepositsBy
<1>2. L \in SUBSET (1 .. n)
  BY <1>1
<1>3. ASSUME NEW i \in L, NEW j \in 1 .. i PROVE j \in L
  <2>1. jar.deposits[i] \in DepositBy(t) /\ jar.deposits[j] \in DepositBy(t)
    BY <1>1
  <2>2. jar.deposits[j].created_at <= jar.deposits[i].created_at
    BY <1>1 DEF OldestFirst
  <2>3. terms.lockup_term \in Nat
    BY TermsType DEF Terms
  <2>4. jar.deposits[i].created_at \in Nat /\ jar.deposits[j].created_at \in Nat
    BY <2>1 DEF DepositBy
  <2>5. IsLiquid(terms, jar.deposits[i], t) /\ j \in DOMAIN jar.deposits
    BY <1>1
  <2>6. IsLiquid(terms, jar.deposits[j], t)
    <3> HIDE DEF terms
    <3> QED BY <2>2, <2>3, <2>4, <2>5 DEF IsLiquid
  <2> QED BY <2>5, <2>6
<1>4. L = 1 .. Cardinality(L)
  <2> HIDE DEF L, n
  <2> QED BY <1>1, <1>2, <1>3, Prefix
<1> QED BY <1>4 DEF PartitionIndex

\* Yields split into whole units and remainders.
LEMMA YieldNat ==
    ASSUME NEW yield, IsFiniteSet(DOMAIN yield), \A i \in DOMAIN yield : yield[i] \in Nat
    PROVE  WholeUnits(yield) \in Nat /\ Remainders(yield) \in Nat
<1>1. \A i \in DOMAIN yield : yield[i] \div MsInYear \in Nat /\ yield[i] % MsInYear \in Nat
  BY InterestAssumption, DivNat
<1>2. Total([i \in DOMAIN yield |-> yield[i] \div MsInYear]) \in Nat
  BY <1>1, SumNat DEF Total
<1>3. Total([i \in DOMAIN yield |-> yield[i] % MsInYear]) \in Nat
  BY <1>1, SumNat DEF Total
<1> QED BY <1>2, <1>3 DEF WholeUnits, Remainders

\* The score of one day.
LEMMA DailyScoreNat ==
    ASSUME NEW daily \in DailyScore, NEW cap \in Nat, NEW b \in BOOLEAN
    PROVE  ToCappedApy(daily, cap, b) \in Nat
BY RateScaleAssumption, ScoreAssumption DEF ToCappedApy, DailyScore, Smaller

\* The value of a function of known type.
LEMMA FunctionValue ==
    ASSUME NEW S, NEW T, NEW f \in [S -> T], NEW x \in S
    PROVE  f[x] \in T
OBVIOUS

\* The cap on a score.
LEMMA ScoreCapNat ==
    ASSUME NEW p \in ProductIds, NEW account
    PROVE  ScoreCap(account, TermsOf(p)) \in Nat
<1>1. TermsOf(p).score_cap \in [BOOLEAN -> Nat]
  BY TermsType DEF Terms
<1>2. ("IncreasedScoreCap" \in account.features) \in BOOLEAN
  OBVIOUS
<1>3. TermsOf(p).score_cap["IncreasedScoreCap" \in account.features] \in Nat
  BY <1>1, <1>2, FunctionValue
<1> QED BY <1>3, Zenon DEF ScoreCap

\* The annual rate of a jar.
LEMMA EffectiveApyNat ==
    ASSUME NEW t \in Nat, NEW account, AccountBy(account, t), NEW p \in ProductIds
    PROVE  EffectiveApy(account, TermsOf(p), t) \in Nat
<1> DEFINE daily == LastFinalized(account.score, account.timezone, t)
           cap == ScoreCap(account, TermsOf(p))
           tiered == TermsOf(p).kind = "tiered"
<1>1. daily \in DailyScore
  <2>1. account.score.history[0] \in DailyScore /\ account.score.history[1] \in DailyScore
    BY DEF AccountBy, AccountScore, DaysStored
  <2>2. NoScore \in DailyScore
    BY ScoreAssumption DEF NoScore, DailyScore
  <2> QED BY <2>1, <2>2 DEF LastFinalized
<1>2. cap \in Nat /\ TermsOf(p).apy["IncreasedApy" \in account.features] \in Nat
  <2>1. TermsOf(p).apy \in [BOOLEAN -> Nat]
    BY TermsType DEF Terms
  <2> HIDE DEF daily, cap, tiered
  <2>2. ("IncreasedApy" \in account.features) \in BOOLEAN
    OBVIOUS
  <2>3. TermsOf(p).apy["IncreasedApy" \in account.features] \in Nat
    BY <2>1, <2>2, FunctionValue
  <2>4. cap \in Nat
    BY ScoreCapNat DEF cap
  <2> QED BY <2>3, <2>4
<1>3. tiered \in BOOLEAN
  OBVIOUS
<1>4. ToCappedApy(daily, cap, tiered) \in Nat
  <2> HIDE DEF daily, cap, tiered
  <2> QED BY <1>1, <1>2, <1>3, DailyScoreNat
<1> QED BY <1>2, <1>4 DEF EffectiveApy

\* How long a deposit has earned for: never a negative time, because neither
\* the deposit nor the cache is from the future.
LEMMA InterestTermNat ==
    ASSUME NEW t \in Nat, NEW account, AccountBy(account, t), NEW p \in ProductIds,
           NEW jar \in JarBy(t), NEW deposit \in DepositBy(t)
    PROVE  InterestTerm(account, TermsOf(p), jar, deposit, t) \in Nat
<1>1. /\ jar.cache.updated_at \in 0 .. t /\ deposit.created_at \in 0 .. t
      /\ TermsOf(p).lockup_term \in Nat
      /\ account.timezone \in Int
  BY TermsType, AccountAssumption, ScoreAssumption
     DEF JarBy, CacheBy, DepositBy, Terms, AccountBy
<1>2. StartOfTheDay(t) \in Int
  BY ScoreAssumption, DivNat DEF StartOfTheDay
<1>3. Larger(jar.cache.updated_at, deposit.created_at) \in 0 .. t
  BY <1>1 DEF Larger
<1>4. Smaller(t, deposit.created_at + TermsOf(p).lockup_term) \in Int
  BY <1>1 DEF Smaller
<1>5. Larger(StartOfTheDay(t) + account.timezone,
             Larger(jar.cache.updated_at, deposit.created_at)) \in Int
  BY <1>1, <1>2, <1>3 DEF Larger
<1>6. t - Larger(jar.cache.updated_at, deposit.created_at) \in Nat
  BY <1>3
<1>7. \A a, b \in Int : Monus(a, b) \in Nat
  BY DEF Monus
<1> QED BY <1>3, <1>4, <1>5, <1>6, <1>7 DEF InterestTerm

\* What a jar has earned.
LEMMA InterestNat ==
    ASSUME NEW t \in Nat, NEW account, AccountBy(account, t), NEW p \in DOMAIN account.jars
    PROVE  InterestOf(account, p, t) \in Accrual
<1> DEFINE jar == account.jars[p]
           apy == EffectiveApy(account, TermsOf(p), t)
           yield == [i \in DOMAIN jar.deposits |->
                        Rate(apy, jar.deposits[i].principal)
                            * InterestTerm(account, TermsOf(p), jar, jar.deposits[i], t)]
           rest == jar.claim_remainder + Remainders(yield)
<1>1. jar \in JarBy(t) /\ p \in ProductIds
  BY DEF AccountBy, JarsBy, IsMap
<1>2. jar.deposits \in Seq(DepositBy(t))
  BY <1>1 DEF JarBy, DepositsBy
<1>3. IsFiniteSet(DOMAIN yield)
  BY <1>2, FS_Interval
<1>4. ASSUME NEW i \in DOMAIN yield PROVE yield[i] \in Nat
  <2>1. jar.deposits[i] \in DepositBy(t)
    BY <1>2
  <2>2. InterestTerm(account, TermsOf(p), jar, jar.deposits[i], t) \in Nat
    <3> HIDE DEF jar
    <3> QED BY <1>1, <2>1, InterestTermNat
  <2>3. Rate(apy, jar.deposits[i].principal) \in Nat
    BY <1>1, <2>1, EffectiveApyNat, RateNat DEF DepositBy
  <2> QED BY <2>2, <2>3, TimesNat
<1>5. WholeUnits(yield) \in Nat /\ Remainders(yield) \in Nat
  <2> HIDE DEF yield
  <2> QED BY <1>3, <1>4, YieldNat
<1>6. jar.claim_remainder \in Nat /\ jar.cache.interest \in Nat
  BY <1>1 DEF JarBy, CacheBy
<1>7. rest \in Nat
  BY <1>5, <1>6
<1>8. rest \div MsInYear \in Nat /\ rest % MsInYear \in Nat
  <2> HIDE DEF rest
  <2> QED BY <1>7, InterestAssumption, DivNat
<1>9. InterestOf(account, p, t) =
        [interest |-> jar.cache.interest + WholeUnits(yield) + rest \div MsInYear,
         remainder |-> rest % MsInYear]
  BY DEF InterestOf, GetInterest
<1> HIDE DEF jar, yield, rest
<1> QED BY <1>5, <1>6, <1>8, <1>9 DEF Accrual

-----------------------------------------------------------------------------
(* Settlement and the methods of an account. *)

\* A day starts before its instants.
LEMMA StartOfTheDayType ==
    ASSUME NEW t \in Nat
    PROVE  StartOfTheDay(t) \in 0 .. t
<1>1. t % MsInDay \in 0 .. t
  <2>1. MsInDay \in Nat /\ MsInDay > 0
    BY ScoreAssumption
  <2>2. CASE t < MsInDay
    BY <2>1, <2>2
  <2>3. CASE t >= MsInDay
    BY <2>1, <2>3
  <2> QED BY <2>1, <2>2, <2>3
<1> QED BY <1>1 DEF StartOfTheDay

\* A sequence has finitely many elements.
LEMMA SeqDomainFinite ==
    ASSUME NEW S, NEW q \in Seq(S)
    PROVE  IsFiniteSet(DOMAIN q)
<1>1. Len(q) \in Nat /\ DOMAIN q = 1 .. Len(q)
  BY LenProperties
<1> QED BY <1>1, FS_Interval

\* What settlement adds up for a jar: no less than it had.
LEMMA SettledInterestNat ==
    ASSUME NEW t \in Nat, NEW account, AccountBy(account, t), NEW p \in ProductIds,
           NEW jar \in JarBy(t)
    PROVE  LET settled == GetSettledInterest(account, TermsOf(p), jar, t)
           IN  /\ settled \in Accrual
               /\ settled.interest >= jar.cache.interest
               /\ settled.remainder >= jar.claim_remainder
<1> DEFINE day_start(d) == StartOfTheDay(Monus(account.score.updated_at, d * MsInDay))
           apy(d) == ToCappedApy(account.score.history[d],
                              ScoreCap(account, TermsOf(p)), TermsOf(p).kind = "tiered")
           start(d, i) == Larger(Larger(Yesterday(jar.deposits[i].created_at), day_start(d)),
                              Yesterday(jar.cache.updated_at))
           days == DaysToSettle(account, t)
           yield == [di \in days \X DOMAIN jar.deposits |->
                        Rate(apy(di[1]), jar.deposits[di[2]].principal)
                            * Monus(day_start(di[1]) + MsInDay, start(di[1], di[2]))]
<1>1. /\ jar.deposits \in Seq(DepositBy(t)) /\ jar.claim_remainder \in Nat
      /\ jar.cache.updated_at \in 0 .. t /\ jar.cache.interest \in Nat
  BY DEF JarBy, DepositsBy, CacheBy
<1>2. days \subseteq DaysStored
  <2>1. /\ account.score.updated_at \in Int /\ account.timezone \in Int
        /\ MsInDay \in Nat \ {0}
    BY AccountAssumption, ScoreAssumption DEF AccountBy, AccountScore
  <2>2. DaysSinceUpdate(account.score, account.timezone, t) \in Int
    BY <2>1 DEF DaysSinceUpdate, DayIn
  <2> QED BY <2>2 DEF DaysToSettle, DaysStored
<1>3. IsFiniteSet(DOMAIN yield)
  <2>1. IsFiniteSet(days)
    BY <1>2, FS_Interval, FS_Subset DEF DaysStored
  <2>2. IsFiniteSet(DOMAIN jar.deposits)
    BY <1>1, SeqDomainFinite
  <2> HIDE DEF days
  <2> QED BY <2>1, <2>2, FS_Product
<1>4. ASSUME NEW d \in days, NEW i \in DOMAIN jar.deposits
      PROVE  Rate(apy(d), jar.deposits[i].principal)
                * Monus(day_start(d) + MsInDay, start(d, i)) \in Nat
  <2>1. jar.deposits[i] \in DepositBy(t)
    BY <1>1
  <2>2. jar.deposits[i].created_at \in Nat /\ jar.deposits[i].principal \in Nat
    BY <2>1 DEF DepositBy
  <2>3. apy(d) \in Nat
    <3>1. account.score.history[d] \in DailyScore
      BY <1>2 DEF AccountBy, AccountScore
    <3>2. ScoreCap(account, TermsOf(p)) \in Nat
      BY ScoreCapNat
    <3> QED BY <3>1, <3>2, DailyScoreNat
  <2>4. Rate(apy(d), jar.deposits[i].principal) \in Nat
    <3> HIDE DEF apy
    <3> QED BY <2>2, <2>3, RateNat
  <2>5. day_start(d) \in Int
    <3>1. account.score.updated_at \in Nat /\ d \in Nat
      BY <1>2 DEF AccountBy, AccountScore, DaysStored
    <3>2. d * MsInDay \in Nat
      BY <3>1, ScoreAssumption, TimesNat
    <3>3. Monus(account.score.updated_at, d * MsInDay) \in Nat
      BY <3>1, <3>2 DEF Monus
    <3> QED BY <3>3, StartOfTheDayType
  <2>6. start(d, i) \in Int
    <3>1. /\ Yesterday(jar.deposits[i].created_at) \in Int
          /\ Yesterday(jar.cache.updated_at) \in Int
      BY <1>1, <2>2, ScoreAssumption DEF Yesterday, Monus
    <3> HIDE DEF day_start
    <3> QED BY <3>1, <2>5 DEF Larger
  <2>7. Monus(day_start(d) + MsInDay, start(d, i)) \in Nat
    <3> HIDE DEF day_start, start
    <3> QED BY <2>5, <2>6, ScoreAssumption DEF Monus
  <2> HIDE DEF apy, day_start, start
  <2> QED BY <2>4, <2>7, TimesNat
<1>5. \A di \in DOMAIN yield : yield[di] \in Nat
  <2> HIDE DEF apy, day_start, start, days
  <2> QED BY <1>4
<1>6. WholeUnits(yield) \in Nat /\ Remainders(yield) \in Nat
  <2> HIDE DEF yield
  <2> QED BY <1>3, <1>5, YieldNat
<1>7. GetSettledInterest(account, TermsOf(p), jar, t) =
        [interest |-> jar.cache.interest + WholeUnits(yield),
         remainder |-> jar.claim_remainder + Remainders(yield)]
  BY DEF GetSettledInterest
<1> HIDE DEF yield
<1> QED BY <1>1, <1>6, <1>7 DEF Accrual

\* An account with other jars.
LEMMA WithJars ==
    ASSUME NEW t \in Nat, NEW account, AccountBy(account, t), NEW jars,
           IsMap(jars, ProductIds), JarsBy(jars, t)
    PROVE  /\ AccountBy([account EXCEPT !.jars = jars], t)
           /\ [account EXCEPT !.jars = jars].jars = jars
BY DEF AccountBy

\* An account with another score, or other features.
LEMMA WithScore ==
    ASSUME NEW t \in Nat, NEW account, AccountBy(account, t), NEW score \in AccountScore
    PROVE  /\ AccountBy([account EXCEPT !.score = score], t)
           /\ [account EXCEPT !.score = score].jars = account.jars
BY DEF AccountBy

\* Another set of features, the same jars.
LEMMA WithFeatures ==
    ASSUME NEW t \in Nat, NEW account, AccountBy(account, t), NEW features \in SUBSET Features
    PROVE  /\ AccountBy([account EXCEPT !.features = features], t)
           /\ [account EXCEPT !.features = features].jars = account.jars
BY DEF AccountBy

\* A method that treats the jars one by one keeps the account's type.
LEMMA EachJar ==
    ASSUME NEW t \in Nat, NEW account, AccountBy(account, t), NEW jars,
           jars = [p \in DOMAIN account.jars |-> jars[p]],
           \A p \in DOMAIN account.jars : jars[p] \in JarBy(t)
    PROVE  /\ AccountBy([account EXCEPT !.jars = jars], t)
           /\ [account EXCEPT !.jars = jars].jars = jars
<1>1. DOMAIN jars = DOMAIN account.jars /\ DOMAIN account.jars \subseteq ProductIds
  BY DEF AccountBy, IsMap
<1>2. IsMap(jars, ProductIds) /\ JarsBy(jars, t)
  BY <1>1 DEF IsMap, JarsBy
<1> QED BY <1>2, WithJars

\* update_jar_cache.
LEMMA UpdateJarCachesType ==
    ASSUME NEW t \in Nat, NEW account, AccountBy(account, t), NEW ps
    PROVE  /\ AccountBy(UpdateJarCaches(account, ps, t), t)
           /\ SameJars(account, UpdateJarCaches(account, ps, t))
<1> DEFINE jars == [p \in DOMAIN account.jars |->
                IF p \in ps THEN UpdateCache(account.jars[p], InterestOf(account, p, t), t)
                ELSE account.jars[p]]
<1>1. ASSUME NEW p \in DOMAIN account.jars
      PROVE  /\ jars[p] \in JarBy(t)
             /\ jars[p].is_locked = account.jars[p].is_locked
             /\ jars[p].deposits = account.jars[p].deposits
  <2>1. account.jars[p] \in JarBy(t)
    BY DEF AccountBy, JarsBy
  <2> DEFINE updated == UpdateCache(account.jars[p], InterestOf(account, p, t), t)
  <2>2. updated \in JarBy(t)
    BY <2>1, InterestNat, JarMethods
  <2>3. updated.is_locked = account.jars[p].is_locked
        /\ updated.deposits = account.jars[p].deposits
    BY <2>1 DEF UpdateCache, JarBy
  <2> QED BY <2>1, <2>2, <2>3
<1>2. UpdateJarCaches(account, ps, t) = [account EXCEPT !.jars = jars]
  BY DEF UpdateJarCaches
<1>3. jars = [p \in DOMAIN account.jars |-> jars[p]]
  OBVIOUS
<1> HIDE DEF jars
<1>4. /\ AccountBy([account EXCEPT !.jars = jars], t)
      /\ [account EXCEPT !.jars = jars].jars = jars
  BY <1>1, <1>3, EachJar
<1> QED BY <1>1, <1>2, <1>3, <1>4 DEF SameJars

\* Locking and unlocking jars.
LEMMA LockJarsType ==
    ASSUME NEW t \in Nat, NEW account, AccountBy(account, t), NEW ps
    PROVE  /\ AccountBy(LockJars(account, ps), t)
           /\ LocksSet(account, LockJars(account, ps), ps, TRUE)
<1> DEFINE jars == [p \in DOMAIN account.jars |->
                IF p \in ps THEN Lock(account.jars[p]) ELSE account.jars[p]]
<1>1. ASSUME NEW p \in DOMAIN account.jars
      PROVE  /\ jars[p] \in JarBy(t)
             /\ jars[p].is_locked = IF p \in ps THEN TRUE ELSE account.jars[p].is_locked
             /\ jars[p].deposits = account.jars[p].deposits
  <2>1. account.jars[p] \in JarBy(t)
    BY DEF AccountBy, JarsBy
  <2> QED BY <2>1, JarMethods DEF Lock, JarBy
<1>2. LockJars(account, ps) = [account EXCEPT !.jars = jars]
  BY DEF LockJars
<1>3. jars = [p \in DOMAIN account.jars |-> jars[p]]
  OBVIOUS
<1> HIDE DEF jars
<1>4. /\ AccountBy([account EXCEPT !.jars = jars], t)
      /\ [account EXCEPT !.jars = jars].jars = jars
  BY <1>1, <1>3, EachJar
<1> QED BY <1>1, <1>2, <1>3, <1>4 DEF LocksSet

\* Unlocking jars keeps the account and all its deposits.
LEMMA UnlockJarsType ==
    ASSUME NEW t \in Nat, NEW account, AccountBy(account, t), NEW ps
    PROVE  /\ AccountBy(UnlockJars(account, ps), t)
           /\ LocksSet(account, UnlockJars(account, ps), ps, FALSE)
<1> DEFINE jars == [p \in DOMAIN account.jars |->
                IF p \in ps THEN Unlock(account.jars[p]) ELSE account.jars[p]]
<1>1. ASSUME NEW p \in DOMAIN account.jars
      PROVE  /\ jars[p] \in JarBy(t)
             /\ jars[p].is_locked = IF p \in ps THEN FALSE ELSE account.jars[p].is_locked
             /\ jars[p].deposits = account.jars[p].deposits
  <2>1. account.jars[p] \in JarBy(t)
    BY DEF AccountBy, JarsBy
  <2> QED BY <2>1, JarMethods DEF Unlock, JarBy
<1>2. UnlockJars(account, ps) = [account EXCEPT !.jars = jars]
  BY DEF UnlockJars
<1>3. jars = [p \in DOMAIN account.jars |-> jars[p]]
  OBVIOUS
<1> HIDE DEF jars
<1>4. /\ AccountBy([account EXCEPT !.jars = jars], t)
      /\ [account EXCEPT !.jars = jars].jars = jars
  BY <1>1, <1>3, EachJar
<1> QED BY <1>1, <1>2, <1>3, <1>4 DEF LocksSet

\* Removing the deposits that left.
LEMMA CleanUpJarsType ==
    ASSUME NEW t \in Nat, NEW account, AccountBy(account, t), NEW partition,
           CanCleanUpJars(account, partition),
           \A p \in DOMAIN partition : partition[p] \in Nat
    PROVE  /\ AccountBy(CleanUpJars(account, partition), t)
           /\ DOMAIN CleanUpJars(account, partition).jars = DOMAIN account.jars
           /\ \A p \in DOMAIN account.jars :
                CleanUpJars(account, partition).jars[p].is_locked = account.jars[p].is_locked
<1> DEFINE jars == [p \in DOMAIN account.jars |->
                IF p \in DOMAIN partition THEN CleanUpDeposits(account.jars[p], partition[p])
                ELSE account.jars[p]]
<1>1. ASSUME NEW p \in DOMAIN account.jars
      PROVE  /\ jars[p] \in JarBy(t)
             /\ jars[p].is_locked = account.jars[p].is_locked
  <2>1. account.jars[p] \in JarBy(t)
    BY DEF AccountBy, JarsBy
  <2>2. CASE p \in DOMAIN partition
    <3>1. CleanUpDeposits(account.jars[p], partition[p]) \in JarBy(t)
      BY <2>1, <2>2, CleanUpDepositsType DEF CanCleanUpJars
    <3>2. CleanUpDeposits(account.jars[p], partition[p]).is_locked = account.jars[p].is_locked
      BY <2>1 DEF CleanUpDeposits, JarBy
    <3> QED BY <2>2, <3>1, <3>2
  <2> QED BY <2>1, <2>2
<1>2. CleanUpJars(account, partition) = [account EXCEPT !.jars = jars]
  BY DEF CleanUpJars
<1>3. jars = [p \in DOMAIN account.jars |-> jars[p]]
  OBVIOUS
<1> HIDE DEF jars
<1>4. /\ AccountBy([account EXCEPT !.jars = jars], t)
      /\ [account EXCEPT !.jars = jars].jars = jars
  BY <1>1, <1>3, EachJar
<1> QED BY <1>1, <1>2, <1>3, <1>4

\* Closing jars: those that stay are unchanged, and only some of ps go.
LEMMA CloseJarsType ==
    ASSUME NEW t \in Nat, NEW account, AccountBy(account, t), NEW ps
    PROVE  /\ AccountBy(CloseJars(account, ps), t)
           /\ JarsClosed(account, CloseJars(account, ps), ps)
<1> DEFINE gone == {p \in ps \cap DOMAIN account.jars : ShouldClose(account.jars[p])}
           jars == Drop(account.jars, gone)
<1>1. IsMap(account.jars, ProductIds) /\ JarsBy(account.jars, t)
  BY DEF AccountBy
<1>2. CloseJars(account, ps) = [account EXCEPT !.jars = jars]
  BY DEF CloseJars
<1>3. gone \subseteq ps
  OBVIOUS
<1> HIDE DEF gone
<1>4. /\ IsMap(jars, ProductIds) /\ DOMAIN jars = DOMAIN account.jars \ gone
      /\ \A p \in DOMAIN account.jars \ gone : jars[p] = account.jars[p]
  BY <1>1, DropMap
<1> HIDE DEF jars
<1>5. JarsBy(jars, t)
  BY <1>1, <1>4 DEF JarsBy
<1>6. /\ AccountBy([account EXCEPT !.jars = jars], t)
      /\ [account EXCEPT !.jars = jars].jars = jars
  BY <1>4, <1>5, WithJars
<1> QED BY <1>2, <1>3, <1>4, <1>6 DEF JarsClosed

\* A deposit into a jar, new or not.
LEMMA DepositToType ==
    ASSUME NEW t \in Nat, NEW account, AccountBy(account, t), NEW q \in ProductIds,
           NEW principal \in Nat
    PROVE  /\ AccountBy(DepositTo(account, q, principal, t), t)
           /\ JarAdded(account, DepositTo(account, q, principal, t), q)
<1> DEFINE old == JarOrNew(account, q)
           new == AddDeposit(old, principal, t)
           jars == Put(account.jars, q, new)
<1>1. IsMap(account.jars, ProductIds) /\ JarsBy(account.jars, t)
  BY DEF AccountBy
<1>2. EmptyJar \in JarBy(t) /\ EmptyJar.is_locked = FALSE
  <2>1. <<>> \in DepositsBy(t)
    BY DEF DepositsBy, OldestFirst
  <2> QED BY <2>1 DEF EmptyJar, JarBy, CacheBy, NoCache
<1>3. /\ old \in JarBy(t)
      /\ q \in DOMAIN account.jars => old = account.jars[q]
      /\ q \notin DOMAIN account.jars => old.is_locked = FALSE
  BY <1>1, <1>2 DEF JarOrNew, JarsBy
<1> HIDE DEF old
<1>4. new \in JarBy(t) /\ new.is_locked = old.is_locked
  <2>1. new.is_locked = old.is_locked
    BY <1>3 DEF AddDeposit, JarBy
  <2> QED BY <1>3, <2>1, AddDepositType
<1>5. DepositTo(account, q, principal, t) = [account EXCEPT !.jars = jars]
  BY DEF DepositTo, old
<1> HIDE DEF new
<1>6. /\ IsMap(jars, ProductIds) /\ DOMAIN jars = DOMAIN account.jars \cup {q}
      /\ \A p \in DOMAIN account.jars \cup {q} :
            jars[p] = IF p = q THEN new ELSE account.jars[p]
  BY <1>1 DEF IsMap, Put
<1> HIDE DEF jars
<1>7. JarsBy(jars, t)
  BY <1>1, <1>4, <1>6 DEF JarsBy
<1>8. /\ AccountBy([account EXCEPT !.jars = jars], t)
      /\ [account EXCEPT !.jars = jars].jars = jars
  BY <1>6, <1>7, WithJars
<1> QED BY <1>3, <1>4, <1>5, <1>6, <1>8 DEF JarAdded

\* try_set_timezone touches no jar.
LEMMA TrySetTimezoneType ==
    ASSUME NEW t \in Nat, NEW account, AccountBy(account, t),
           NEW timezone \in Timezones \cup {InvalidTimezone}
    PROVE  /\ AccountBy(TrySetTimezone(account, timezone), t)
           /\ TrySetTimezone(account, timezone).jars = account.jars
BY DEF TrySetTimezone, AccountBy
\* settle_interest.
LEMMA SettleInterestType ==
    ASSUME NEW t \in Nat, NEW account, AccountBy(account, t)
    PROVE  /\ AccountBy(SettleInterest(account, t), t)
           /\ SameJars(account, SettleInterest(account, t))
<1> DEFINE days == DaysSinceUpdate(account.score, account.timezone, t)
           jars == [p \in DOMAIN account.jars |->
                IF IsScoreBased(TermsOf(p))
                THEN UpdateCache(account.jars[p],
                        GetSettledInterest(account, TermsOf(p), account.jars[p], t),
                        StartOfTheDay(t))
                ELSE account.jars[p]]
           history == IF days = 1 THEN Shift(account.score.history) ELSE EmptyHistory
           score == [account.score EXCEPT !.history = history]
<1>1. CASE account.timezone = InvalidTimezone \/ days < 1
  BY <1>1 DEF SettleInterest, SameJars
<1>2. CASE ~(account.timezone = InvalidTimezone \/ days < 1)
  <2>1. ASSUME NEW p \in DOMAIN account.jars
        PROVE  /\ jars[p] \in JarBy(t)
               /\ jars[p].is_locked = account.jars[p].is_locked
               /\ jars[p].deposits = account.jars[p].deposits
    <3>1. account.jars[p] \in JarBy(t) /\ p \in ProductIds
      BY DEF AccountBy, JarsBy, IsMap
    <3> DEFINE accrual == GetSettledInterest(account, TermsOf(p), account.jars[p], t)
               settled == UpdateCache(account.jars[p], accrual, StartOfTheDay(t))
    <3>2. accrual \in Accrual
      BY <3>1, SettledInterestNat
    <3>3. settled \in JarBy(t)
      <4> HIDE DEF accrual
      <4> QED BY <3>1, <3>2, JarMethods, StartOfTheDayType
    <3>4. settled.is_locked = account.jars[p].is_locked
          /\ settled.deposits = account.jars[p].deposits
      <4> HIDE DEF accrual
      <4> QED BY <3>1 DEF UpdateCache, JarBy
    <3>5. jars[p] = settled \/ jars[p] = account.jars[p]
      OBVIOUS
    <3> HIDE DEF settled, jars
    <3> QED BY <3>1, <3>3, <3>4, <3>5
  <2>2. jars = [p \in DOMAIN account.jars |-> jars[p]]
    OBVIOUS
  <2>3. score \in AccountScore
    <3>1. account.score \in AccountScore
      BY DEF AccountBy
    <3>2. NoScore \in DailyScore
      BY ScoreAssumption DEF NoScore, DailyScore
    <3>3. EmptyHistory \in [DaysStored -> DailyScore]
      BY <3>2 DEF EmptyHistory
    <3>4. Shift(account.score.history) \in [DaysStored -> DailyScore]
      BY <3>1, <3>2 DEF Shift, AccountScore, DaysStored
    <3>5. history \in [DaysStored -> DailyScore]
      BY <3>3, <3>4
    <3> HIDE DEF history
    <3> QED BY <3>1, <3>5 DEF AccountScore
  <2>4. SettleInterest(account, t) =
            [account EXCEPT !.jars = jars, !.score.history = history]
    BY <1>2 DEF SettleInterest
  <2>5. [account EXCEPT !.jars = jars, !.score.history = history] =
            [[account EXCEPT !.jars = jars] EXCEPT !.score = score]
    <3> HIDE DEF jars, history
    <3> QED BY DEF AccountBy, AccountScore
  <2> HIDE DEF jars, score, history, days
  <2>6. /\ AccountBy([account EXCEPT !.jars = jars], t)
        /\ [account EXCEPT !.jars = jars].jars = jars
    BY <2>1, <2>2, EachJar
  <2>7. /\ AccountBy([[account EXCEPT !.jars = jars] EXCEPT !.score = score], t)
        /\ [[account EXCEPT !.jars = jars] EXCEPT !.score = score].jars = jars
    BY <2>3, <2>6, WithScore
  <2> QED BY <2>1, <2>2, <2>4, <2>5, <2>7 DEF SameJars
<1> QED BY <1>1, <1>2

\* update_account_cache.
LEMMA UpdateAccountCacheType ==
    ASSUME NEW t \in Nat, NEW account, AccountBy(account, t)
    PROVE  /\ AccountBy(UpdateAccountCache(account, t), t)
           /\ SameJars(account, UpdateAccountCache(account, t))
<1> DEFINE settled == SettleInterest(account, t)
<1>1. AccountBy(settled, t) /\ SameJars(account, settled)
  BY SettleInterestType
<1> HIDE DEF settled
<1>2. /\ AccountBy(UpdateJarCaches(settled, DOMAIN account.jars, t), t)
      /\ SameJars(settled, UpdateJarCaches(settled, DOMAIN account.jars, t))
  BY <1>1, UpdateJarCachesType
<1> QED BY <1>1, <1>2 DEF SameJars, UpdateAccountCache, settled

\* Account::apply of a claim's snapshot unlocks the jars it covers.
LEMMA RestoreAccountType ==
    ASSUME NEW t \in Nat, NEW account, AccountBy(account, t), NEW rollback,
           rollback.timezone \in Timezones \cup {InvalidTimezone},
           rollback.score \in AccountScore,
           \A p \in DOMAIN rollback.jars :
                rollback.jars[p] \in [claim_remainder : Nat, cache : CacheBy(t)]
    PROVE  /\ AccountBy(RestoreAccount(account, rollback), t)
           /\ LocksSet(account, RestoreAccount(account, rollback), DOMAIN rollback.jars, FALSE)
<1> DEFINE jars == [p \in DOMAIN account.jars |->
                IF p \in DOMAIN rollback.jars
                THEN ApplyRollback(account.jars[p], rollback.jars[p])
                ELSE account.jars[p]]
<1>1. ASSUME NEW p \in DOMAIN account.jars
      PROVE  /\ jars[p] \in JarBy(t)
             /\ jars[p].is_locked =
                    IF p \in DOMAIN rollback.jars THEN FALSE ELSE account.jars[p].is_locked
             /\ jars[p].deposits = account.jars[p].deposits
  <2>1. account.jars[p] \in JarBy(t)
    BY DEF AccountBy, JarsBy
  <2>2. CASE p \in DOMAIN rollback.jars
    <3>1. ApplyRollback(account.jars[p], rollback.jars[p]) \in JarBy(t)
      BY <2>1, <2>2, JarMethods
    <3>2. ApplyRollback(account.jars[p], rollback.jars[p]).is_locked = FALSE
          /\ ApplyRollback(account.jars[p], rollback.jars[p]).deposits
                = account.jars[p].deposits
      BY <2>1 DEF ApplyRollback, JarBy
    <3> QED BY <2>2, <3>1, <3>2
  <2> QED BY <2>1, <2>2
<1>2. jars = [p \in DOMAIN account.jars |-> jars[p]]
  OBVIOUS
<1>3. RestoreAccount(account, rollback) =
        [[account EXCEPT !.jars = jars] EXCEPT
            !.timezone = rollback.timezone, !.score = rollback.score]
  <2>1. RestoreAccount(account, rollback) =
            [account EXCEPT !.jars = jars, !.timezone = rollback.timezone,
                            !.score = rollback.score]
    BY DEF RestoreAccount
  <2> HIDE DEF jars
  <2> QED BY <2>1 DEF AccountBy
<1> HIDE DEF jars
<1>4. /\ AccountBy([account EXCEPT !.jars = jars], t)
      /\ [account EXCEPT !.jars = jars].jars = jars
  <2>1. \A p \in DOMAIN account.jars : jars[p] \in JarBy(t)
    BY <1>1
  <2> QED BY <1>2, <2>1, EachJar
<1> DEFINE restored == [account EXCEPT !.jars = jars]
<1>5. /\ AccountBy([restored EXCEPT !.timezone = rollback.timezone, !.score = rollback.score], t)
      /\ [restored EXCEPT !.timezone = rollback.timezone, !.score = rollback.score].jars
            = restored.jars
  <2> HIDE DEF restored
  <2>1. AccountBy(restored, t)
    BY <1>4 DEF restored
  <2> QED BY <2>1 DEF AccountBy
<1>6. RestoreAccount(account, rollback).jars = jars
  BY <1>3, <1>4, <1>5
<1>7. DOMAIN jars = DOMAIN account.jars
  BY <1>2
<1>8. LocksSet(account, RestoreAccount(account, rollback), DOMAIN rollback.jars, FALSE)
  BY <1>1, <1>6, <1>7 DEF LocksSet
<1> QED BY <1>3, <1>5, <1>8

\* The score of an account changes by records and boosters.
LEMMA UpdateScoreType ==
    ASSUME NEW t \in Nat, NEW score \in AccountScore, NEW increments \in [DaysStored -> Nat]
    PROVE  UpdateScore(score, increments, t) \in AccountScore
<1>1. ASSUME NEW d \in DaysStored
      PROVE  [score.history[d] EXCEPT !.value = Smaller(@ + increments[d], MaxScore)]
                \in DailyScore
  <2>1. score.history[d] \in DailyScore /\ increments[d] \in Nat
    BY DEF AccountScore
  <2>2. Smaller(score.history[d].value + increments[d], MaxScore) \in 0 .. MaxScore
    BY <2>1, ScoreAssumption DEF DailyScore, Smaller
  <2> QED BY <2>1, <2>2 DEF DailyScore
<1> QED BY <1>1 DEF UpdateScore, AccountScore

\* A booster keeps the score a score.
LEMMA ApplyBoosterToType ==
    ASSUME NEW t \in Nat, NEW score \in AccountScore, NEW days_ago, NEW value \in 0 .. MaxScore
    PROVE  ApplyBoosterTo(score, days_ago, value, t) \in AccountScore
<1>1. CASE CanApplyBooster(score, days_ago)
  <2>1. days_ago \in DaysStored
    BY <1>1 DEF CanApplyBooster
  <2>2. [score.history EXCEPT ![days_ago].booster = value] \in [DaysStored -> DailyScore]
    BY <2>1 DEF AccountScore, DailyScore
  <2> QED BY <1>1, <2>2 DEF ApplyBoosterTo, AccountScore
<1> QED BY <1>1 DEF ApplyBoosterTo
\* Time stamps of the past stay in the past.
LEMMA LaterAccount ==
    ASSUME NEW t \in Nat, NEW u \in Nat, t <= u, NEW account, AccountBy(account, t)
    PROVE  AccountBy(account, u)
BY Later DEF AccountBy, JarsBy

\* The types of the model follow.
LEMMA AccountType ==
    ASSUME NEW t \in Nat, NEW account, AccountBy(account, t)
    PROVE  IsAccount(account)
<1>1. ASSUME NEW p \in DOMAIN account.jars PROVE account.jars[p] \in JarRecord
  <2>1. account.jars[p] \in JarBy(t)
    BY DEF AccountBy, JarsBy
  <2>2. DepositBy(t) \subseteq Deposit
    BY DEF DepositBy, Deposit
  <2>3. account.jars[p].deposits \in Seq(Deposit)
    BY <2>1, <2>2, SeqDef DEF JarBy, DepositsBy
  <2>4. account.jars[p].cache \in JarCache
    BY <2>1 DEF JarBy, CacheBy, JarCache
  <2> QED BY <2>1, <2>3, <2>4 DEF JarBy, JarRecord
<1> QED BY <1>1 DEF AccountBy, IsAccount
=============================================================================
