---------------------------- MODULE Interest_proofs ----------------------------
(***************************************************************************)
(* Interest is conserved, for any number of accounts, products and         *)
(* transfers in flight: what deposits of fixed and flexible products earn  *)
(* is paid, on its way, claimable or left with the deposit, exactly once.  *)
(*                                                                         *)
(* What a jar is due has three parts: the interest in its cache, its       *)
(* claim_remainder, and what its deposits have yielded since it was cached *)
(* (Due). All are counted in units of 1 / MsInYear, in which nothing is    *)
(* rounded but the rate of a deposit. Caching moves interest between the   *)
(* parts, a claim takes whole units out, and the callback of a failed one  *)
(* puts them back.                                                         *)
(*                                                                         *)
(* The conservation law is not inductive by itself: a rollback restores    *)
(* the snapshot a claim took, whatever happened to the jar meanwhile. The  *)
(* invariant adds that every snapshot in flight would still restore just   *)
(* what its claim took (Restorable). Two things break that in the code,    *)
(* and the theorem is about behaviours without them: a claim from a jar    *)
(* that was never cached (ClaimsCached), and a change of the features of   *)
(* an account, and so of its rates, while a claim of it is in flight       *)
(* (RatesSteady).                                                          *)
(***************************************************************************)
EXTENDS InterestAudit, Locks_proofs, Worth_proofs

NoScoreBased == \A p \in ProductIds : ~IsScoreBased(TermsOf(p))

\* The rate of product p for an account with these features.
ApyOf(account, p) == TermsOf(p).apy["IncreasedApy" \in account.features]

\* For how long a deposit earned at time t since it was cached.
Waited(p, deposit, since, t) ==
    IF TermsOf(p).kind = "flexible"
    THEN t - Larger(since, deposit.created_at)
    ELSE Monus(Smaller(t, deposit.created_at + TermsOf(p).lockup_term),
               Larger(since, deposit.created_at))

\* What the deposits, one by one, have yielded since then at a rate.
Yields(apy, p, deposits, since, t) ==
    [i \in 1 .. Len(deposits) |->
        Rate(apy, deposits[i].principal) * Waited(p, deposits[i], since, t)]

Yield(apy, p, deposits, since, t) ==
    SumFunctionOnSet(Yields(apy, p, deposits, since, t), 1 .. Len(deposits))

\* What a jar of product p is due at time t.
Due(apy, p, jar, t) ==
    jar.cache.interest * MsInYear + jar.claim_remainder
        + Yield(apy, p, jar.deposits, jar.cache.updated_at, t)

\* What the jars of an account are due, one by one and together.
JarDue(account, p, t) ==
    IF p \in DOMAIN account.jars THEN Due(ApyOf(account, p), p, account.jars[p], t) ELSE 0

JarsDue(account, t) == [p \in ProductIds |-> JarDue(account, p, t)]

DueIn(account, t) == SumFunctionOnSet(JarsDue(account, t), ProductIds)

\* The callback of claim r would restore what the claim took, jar by jar.
Restores(r, account, t, taken) ==
    /\ Total(taken) = r.amount
    /\ \A p \in DOMAIN r.jars :
        /\ r.jars[p].cache # NoCache
        /\ Due(ApyOf(account, p), p, ApplyRollback(account.jars[p], r.jars[p]), t)
            = Due(ApyOf(account, p), p, account.jars[p], t) + taken[p] * MsInYear

Restorable(r, account, t) ==
    \E taken \in [DOMAIN r.jars -> Nat] : Restores(r, account, t, taken)

\* Every account has had, or is due, what it earned and did not give up.
Balanced ==
    \A a \in AccountIds :
        InterestHad(a) * MsInYear + DueIn(AccountOrNew(a), now) + forgone[a] = earned[a]

ClaimsRestorable ==
    \A s \in DOMAIN receipts, a \in AccountIds :
        receipts[s].kind = "claim" /\ receipts[s].account = a =>
            Restorable(receipts[s], AccountOrNew(a), now)

LedgerType ==
    /\ earned \in [AccountIds -> Nat] /\ forgone \in [AccountIds -> Nat]
    /\ paid \in [AccountIds -> Nat]

InterestInv ==
    /\ LockInv /\ Present /\ IsFiniteSet(DOMAIN receipts)
    /\ LedgerType /\ Balanced /\ ClaimsRestorable

\* A claim takes its interest from jars that were cached before.
ClaimsCached ==
    \A s \in Slots : (s \notin DOMAIN receipts /\ s \in DOMAIN receipts') =>
        (receipts'[s].kind = "claim" =>
            \A p \in DOMAIN receipts'[s].jars : receipts'[s].jars[p].cache # NoCache)

\* The features of an account do not change while a claim of it is in flight.
RatesSteady ==
    \A a \in AccountIds :
        (\E s \in DOMAIN receipts : receipts[s].kind = "claim" /\ receipts[s].account = a)
            => AccountOrNew(a)'.features = AccountOrNew(a).features

-----------------------------------------------------------------------------
(* Sums.                                                                    *)

\* A sum of multiples is a multiple of the sum.
LEMMA SumScale ==
    ASSUME NEW S, IsFiniteSet(S), NEW c \in Int, NEW f, NEW h,
           \A x \in S : f[x] \in Int /\ h[x] = f[x] * c
    PROVE  SumFunctionOnSet(h, S) = SumFunctionOnSet(f, S) * c
<1> DEFINE Wrong(T) == SumFunctionOnSet(h, T) # SumFunctionOnSet(f, T) * c
           Bad == {T \in SUBSET S : Wrong(T)}
<1> SUFFICES ASSUME Bad # {} PROVE FALSE
  OBVIOUS
<1>0. Bad \in SUBSET (SUBSET S)
  OBVIOUS
<1>1. PICK T \in Bad : \A U \in SUBSET T : U # T => U \notin Bad
  <2> HIDE DEF Bad
  <2> QED BY <1>0, MinimalSubset
<1>2. IsFiniteSet(T) /\ T # {}
  <2>1. IsFiniteSet(T)
    BY FS_Subset
  <2>2. ASSUME T = {} PROVE FALSE
    <3>1. Wrong({})
      BY <1>1, <2>2
    <3> QED BY <3>1, SumEmpty
  <2> QED BY <2>1, <2>2
<1>3. PICK x \in T : TRUE
  BY <1>2
<1>4. \A y \in T : f[y] \in Int /\ h[y] \in Int
  OBVIOUS
<1>5. /\ SumFunctionOnSet(f, T) = f[x] + SumFunctionOnSet(f, T \ {x})
      /\ SumFunctionOnSet(h, T) = h[x] + SumFunctionOnSet(h, T \ {x})
  BY <1>2, <1>4, SumRemove
<1>6. SumFunctionOnSet(f, T \ {x}) \in Int
  <2>1. IsFiniteSet(T \ {x})
    BY <1>2, FS_Subset
  <2> QED BY <1>4, <2>1, SumType
<1>7. ~Wrong(T \ {x}) /\ Wrong(T)
  BY <1>1, <1>3
<1>8. f[x] \in Int /\ h[x] = f[x] * c
  BY <1>3
<1>9. \A m, n \in Int : (m + n) * c = m * c + n * c
  OBVIOUS
<1> QED BY <1>5, <1>6, <1>7, <1>8, <1>9

\* A sum of terms that are larger.
LEMMA SumOrdered ==
    ASSUME NEW S, IsFiniteSet(S), NEW f, NEW g,
           \A x \in S : f[x] \in Nat /\ g[x] \in Nat /\ f[x] <= g[x]
    PROVE  /\ SumFunctionOnSet(f, S) \in Nat /\ SumFunctionOnSet(g, S) \in Nat
           /\ SumFunctionOnSet(f, S) <= SumFunctionOnSet(g, S)
<1> DEFINE more == [x \in S |-> g[x] - f[x]]
<1>1. \A x \in S : more[x] \in Nat /\ g[x] = f[x] + more[x]
  OBVIOUS
<1> HIDE DEF more
<1>2. SumFunctionOnSet(more, S) \in Nat /\ SumFunctionOnSet(f, S) \in Nat
      /\ SumFunctionOnSet(g, S) \in Nat
  BY <1>1, SumNat
<1>3. SumFunctionOnSet(g, S) = SumFunctionOnSet(f, S) + SumFunctionOnSet(more, S)
  BY <1>1, SumPlus
<1> QED BY <1>2, <1>3

\* Products of ordered numbers.
LEMMA TimesUp ==
    ASSUME NEW r \in Nat, NEW s \in Nat, r <= s, NEW x \in Nat
    PROVE  r * x <= s * x
<1>1. PICK d \in Nat : s = r + d
  <2>1. s - r \in Nat /\ s = r + (s - r)
    OBVIOUS
  <2> QED BY <2>1
<1>2. \A z \in Nat : (r + z) * x = r * x + z * x
  OBVIOUS
<1>3. r * x \in Nat /\ d * x \in Nat /\ s * x = r * x + d * x
  BY <1>1, <1>2, TimesNat
<1> QED BY <1>3

\* Quotients of ordered numbers are ordered.
LEMMA QuotientsOrdered ==
    ASSUME NEW K \in Nat \ {0}, NEW m \in Nat, NEW n \in Nat, NEW r \in Nat, NEW s \in Nat, s < K,
           m * K + r <= n * K + s
    PROVE  m <= n
<1> SUFFICES ASSUME m > n PROVE FALSE
  OBVIOUS
<1>1. PICK k \in Nat : m = n + 1 + k
  <2>1. m - n - 1 \in Nat /\ m = n + 1 + (m - n - 1)
    OBVIOUS
  <2> QED BY <2>1
<1>2. \A x \in Nat : (n + 1 + x) * K = n * K + K + x * K
  OBVIOUS
<1>3. m * K = n * K + K + k * K
  BY <1>1, <1>2
<1>4. n * K \in Nat /\ k * K \in Nat
  BY TimesNat
<1> DEFINE nK == n * K
           kK == k * K
           mK == m * K
<1>5. mK = nK + K + kK /\ mK + r <= nK + s /\ nK \in Nat /\ kK \in Nat
  BY <1>3, <1>4
<1> HIDE DEF nK, kK, mK
<1> QED BY <1>5

-----------------------------------------------------------------------------
(* What deposits yield.                                                     *)

\* How long a deposit waited is a natural number, and nothing if it, or the
\* cache of its jar, is of this instant.
LEMMA WaitedNat ==
    ASSUME NEW t \in Nat, NEW p \in ProductIds, NEW deposit \in DepositBy(t), NEW since \in 0 .. t
    PROVE  /\ Waited(p, deposit, since, t) \in Nat
           /\ since = t \/ deposit.created_at = t => Waited(p, deposit, since, t) = 0
<1>1. deposit.created_at \in 0 .. t /\ TermsOf(p).lockup_term \in Nat
  BY TermsType DEF DepositBy, Terms
<1> QED BY <1>1 DEF Waited, Larger, Smaller, Monus

\* In each millisecond until its term has passed it waits one more.
LEMMA WaitedTick ==
    ASSUME NEW t \in Nat, NEW p \in ProductIds, NEW deposit \in DepositBy(t), NEW since \in 0 .. t
    PROVE  Waited(p, deposit, since, t + 1) = Waited(p, deposit, since, t)
                + (IF TermsOf(p).kind = "flexible"
                        \/ t < deposit.created_at + TermsOf(p).lockup_term
                   THEN 1 ELSE 0)
<1>1. deposit.created_at \in 0 .. t /\ TermsOf(p).lockup_term \in Nat
  BY TermsType DEF DepositBy, Terms
<1> QED BY <1>1 DEF Waited, Larger, Smaller, Monus

\* Yields are natural numbers, and nothing right after caching.
LEMMA YieldsNat ==
    ASSUME NEW t \in Nat, NEW p \in ProductIds, NEW apy \in Nat,
           NEW deposits \in DepositsBy(t), NEW since \in 0 .. t
    PROVE  /\ Len(deposits) \in Nat /\ IsFiniteSet(1 .. Len(deposits))
           /\ \A i \in 1 .. Len(deposits) : /\ deposits[i] \in DepositBy(t)
                                            /\ Rate(apy, deposits[i].principal) \in Nat
                                            /\ Yields(apy, p, deposits, since, t)[i] \in Nat
           /\ Yield(apy, p, deposits, since, t) \in Nat
           /\ since = t => Yield(apy, p, deposits, since, t) = 0
<1>1. deposits \in Seq(DepositBy(t)) /\ Len(deposits) \in Nat
  BY DEF DepositsBy
<1>2. IsFiniteSet(1 .. Len(deposits))
  BY <1>1, FS_Interval
<1>3. ASSUME NEW i \in 1 .. Len(deposits)
      PROVE  /\ deposits[i] \in DepositBy(t)
             /\ Rate(apy, deposits[i].principal) \in Nat
             /\ Yields(apy, p, deposits, since, t)[i] \in Nat
             /\ since = t => Yields(apy, p, deposits, since, t)[i] = 0
  <2>0. deposits[i] \in DepositBy(t)
    BY <1>1
  <2>1. deposits[i] \in DepositBy(t) /\ deposits[i].principal \in Nat
    BY <2>0 DEF DepositBy
  <2>2. Rate(apy, deposits[i].principal) \in Nat
    BY <2>1, RateNat
  <2>3. /\ Waited(p, deposits[i], since, t) \in Nat
        /\ since = t => Waited(p, deposits[i], since, t) = 0
    BY <2>1, WaitedNat
  <2>4. Yields(apy, p, deposits, since, t)[i]
            = Rate(apy, deposits[i].principal) * Waited(p, deposits[i], since, t)
    BY DEF Yields
  <2>5. \A x \in Nat : x * 0 = 0
    OBVIOUS
  <2> QED BY <2>1, <2>2, <2>3, <2>4, <2>5, TimesNat
<1>4. Yield(apy, p, deposits, since, t) \in Nat
  BY <1>2, <1>3, SumNat DEF Yield
<1>5. since = t => Yield(apy, p, deposits, since, t) = 0
  BY <1>2, <1>3, SumZero DEF Yield
<1> QED BY <1>1, <1>2, <1>3, <1>4, <1>5

\* A deposit of this instant has yielded nothing.
LEMMA YieldAppend ==
    ASSUME NEW t \in Nat, NEW p \in ProductIds, NEW apy \in Nat,
           NEW deposits \in DepositsBy(t), NEW since \in 0 .. t, NEW principal \in Nat
    PROVE  Yield(apy, p, Append(deposits, [created_at |-> t, principal |-> principal]), since, t)
                = Yield(apy, p, deposits, since, t)
<1> DEFINE new == [created_at |-> t, principal |-> principal]
           e == Append(deposits, new)
           m == Len(deposits)
           f == Yields(apy, p, deposits, since, t)
           g == Yields(apy, p, e, since, t)
<1>1. deposits \in Seq(DepositBy(t)) /\ m \in Nat
  BY DEF DepositsBy
<1>2. new \in DepositBy(t) /\ new.created_at = t /\ new.principal = principal
  BY DEF DepositBy
<1>3. Len(e) = m + 1 /\ e[m + 1] = new /\ \A i \in 1 .. m : e[i] = deposits[i]
  <2> HIDE DEF new
  <2> QED BY <1>1, <1>2
<1>4. \A i \in 1 .. m : f[i] \in Nat
  BY YieldsNat
<1> HIDE DEF e, new
<1>5. \A i \in 1 .. m : g[i] = f[i] /\ i \in 1 .. m + 1
  <2> SUFFICES ASSUME NEW i \in 1 .. m PROVE g[i] = f[i] /\ i \in 1 .. m + 1
    OBVIOUS
  <2>1. i \in 1 .. m + 1 /\ i \in 1 .. Len(e) /\ e[i] = deposits[i]
    BY <1>1, <1>3
  <2> QED BY <2>1 DEF Yields
<1>6. g[m + 1] = 0
  <2>1. Waited(p, new, since, t) = 0
    BY <1>2, WaitedNat
  <2>2. Rate(apy, new.principal) \in Nat
    BY <1>2, RateNat
  <2>3. m + 1 \in 1 .. Len(e)
    BY <1>1, <1>3
  <2>4. g[m + 1] = Rate(apy, new.principal) * Waited(p, new, since, t)
    BY <1>3, <2>3 DEF Yields
  <2>5. \A x \in Nat : x * 0 = 0
    OBVIOUS
  <2> QED BY <2>1, <2>2, <2>4, <2>5
<1>7. \A i \in 1 .. m + 1 : g[i] \in Int
  <2> SUFFICES ASSUME NEW i \in 1 .. m + 1 PROVE g[i] \in Int
    OBVIOUS
  <2>1. i \in 1 .. m \/ i = m + 1
    BY <1>1
  <2> HIDE DEF f, g
  <2> QED BY <1>4, <1>5, <1>6, <2>1
<1>8. m + 1 \in Nat \ {0} /\ m + 1 - 1 = m /\ IsFiniteSet(1 .. m)
  <2>1. IsFiniteSet(1 .. m)
    BY YieldsNat
  <2> QED BY <1>1, <2>1
<1> HIDE DEF f, g
<1>9. SumFunctionOnSet(g, 1 .. m + 1) = g[m + 1] + SumFunctionOnSet(g, 1 .. m)
  BY <1>7, <1>8, SumLast
<1>10. SumFunctionOnSet(g, 1 .. m) = SumFunctionOnSet(f, 1 .. m)
  BY <1>5, <1>8, SumCongruent
<1>11. SumFunctionOnSet(f, 1 .. m) \in Int
  BY <1>4, <1>8, SumType
<1>12. SumFunctionOnSet(g, 1 .. m + 1) = SumFunctionOnSet(f, 1 .. m)
  BY <1>6, <1>9, <1>10, <1>11
<1> QED BY <1>3, <1>12 DEF Yield, f, g, e, new

\* Deposits that leave take along what they yielded.
LEMMA YieldDrain ==
    ASSUME NEW t \in Nat, NEW p \in ProductIds, NEW apy \in Nat,
           NEW deposits \in DepositsBy(t), NEW since \in 0 .. t,
           NEW n \in 0 .. Len(deposits)
    PROVE  /\ SumFunctionOnSet(Yields(apy, p, deposits, since, t), 1 .. n) \in Nat
           /\ Yield(apy, p, deposits, since, t)
                = SumFunctionOnSet(Yields(apy, p, deposits, since, t), 1 .. n)
                    + Yield(apy, p, SubSeq(deposits, n + 1, Len(deposits)), since, t)
<1> DEFINE m == Len(deposits)
           e == SubSeq(deposits, n + 1, m)
           f == Yields(apy, p, deposits, since, t)
           g == Yields(apy, p, e, since, t)
<1>1. deposits \in Seq(DepositBy(t)) /\ m \in Nat /\ n \in Nat /\ n <= m
  BY DEF DepositsBy
<1>2. Len(e) = m - n /\ \A i \in 1 .. m - n : e[i] = deposits[n + i]
  BY <1>1
<1>3. \A i \in 1 .. m : f[i] \in Nat
  BY YieldsNat
<1> HIDE DEF e
<1>4. \A i \in 1 .. m - n : g[i] = f[n + i]
  <2> SUFFICES ASSUME NEW i \in 1 .. m - n PROVE g[i] = f[n + i]
    OBVIOUS
  <2>1. n + i \in 1 .. m /\ i \in 1 .. Len(e) /\ e[i] = deposits[n + i]
    BY <1>1, <1>2
  <2> QED BY <2>1 DEF Yields
<1>5. IsFiniteSet(1 .. n) /\ \A i \in 1 .. n : i \in 1 .. m
  BY <1>1, FS_Interval
<1> HIDE DEF f, g
<1>6. SumFunctionOnSet(f, 1 .. n) \in Nat
  BY <1>3, <1>5, SumNat
<1>7. SumFunctionOnSet(f, 1 .. m) = SumFunctionOnSet(f, 1 .. n) + SumFunctionOnSet(g, 1 .. m - n)
  BY <1>1, <1>3, <1>4, SumRest
<1> QED BY <1>2, <1>6, <1>7 DEF Yield, f, g, e

\* What the deposits yield in one millisecond.
Pace(apy, p, deposits, t) ==
    [i \in 1 .. Len(deposits) |->
        IF TermsOf(p).kind = "flexible" \/ t < deposits[i].created_at + TermsOf(p).lockup_term
        THEN Rate(apy, deposits[i].principal) ELSE 0]

\* One millisecond more yields the rate of every deposit that still earns.
LEMMA YieldTick ==
    ASSUME NEW t \in Nat, NEW p \in ProductIds, NEW apy \in Nat,
           NEW deposits \in DepositsBy(t), NEW since \in 0 .. t
    PROVE  /\ SumFunctionOnSet(Pace(apy, p, deposits, t), 1 .. Len(deposits)) \in Nat
           /\ Yield(apy, p, deposits, since, t + 1) = Yield(apy, p, deposits, since, t)
                + SumFunctionOnSet(Pace(apy, p, deposits, t), 1 .. Len(deposits))
<1> DEFINE S == 1 .. Len(deposits)
           f == Yields(apy, p, deposits, since, t)
           g == Pace(apy, p, deposits, t)
           h == Yields(apy, p, deposits, since, t + 1)
<1>1. IsFiniteSet(S)
  BY YieldsNat
<1>2. ASSUME NEW i \in S PROVE f[i] \in Nat /\ g[i] \in Nat /\ h[i] = f[i] + g[i]
  <2> DEFINE rate == Rate(apy, deposits[i].principal)
             wait == Waited(p, deposits[i], since, t)
             more == Waited(p, deposits[i], since, t + 1)
             earning == TermsOf(p).kind = "flexible"
                            \/ t < deposits[i].created_at + TermsOf(p).lockup_term
  <2>1. f[i] \in Nat /\ rate \in Nat /\ deposits[i] \in DepositBy(t)
    BY YieldsNat
  <2>2. wait \in Nat /\ more = wait + (IF earning THEN 1 ELSE 0)
    BY <2>1, WaitedNat, WaitedTick
  <2>3. f[i] = rate * wait /\ h[i] = rate * more /\ g[i] = IF earning THEN rate ELSE 0
    BY DEF Yields, Pace
  <2>4. \A x, y \in Nat : x * (y + 1) = x * y + x
    OBVIOUS
  <2> HIDE DEF f, g, h, rate, wait, more, earning
  <2>5. CASE earning
    BY <2>1, <2>2, <2>3, <2>4, <2>5
  <2>6. CASE ~earning
    BY <2>1, <2>2, <2>3, <2>6
  <2> QED BY <2>5, <2>6
<1> HIDE DEF f, g, h, S
<1>3. SumFunctionOnSet(g, S) \in Nat
  BY <1>1, <1>2, SumNat
<1>4. SumFunctionOnSet(h, S) = SumFunctionOnSet(f, S) + SumFunctionOnSet(g, S)
  BY <1>1, <1>2, SumPlus
<1> QED BY <1>3, <1>4 DEF Yield, f, g, h, S

-----------------------------------------------------------------------------
(* What one jar is due.                                                     *)

\* The jar y is due what x is, however long ago it was cached.
SameDue(apy, p, x, y, t) ==
    /\ Due(apy, p, y, t) = Due(apy, p, x, t)
    /\ \A since \in 0 .. t :
        Yield(apy, p, y.deposits, since, t) = Yield(apy, p, x.deposits, since, t)

\* Multiples of a year are natural numbers.
LEMMA YearsNat ==
    ASSUME NEW x \in Nat
    PROVE  x * MsInYear \in Nat
BY InterestAssumption, TimesNat

\* What a jar is due is a natural number.
LEMMA DueNat ==
    ASSUME NEW t \in Nat, NEW p \in ProductIds, NEW apy \in Nat, NEW jar \in JarBy(t)
    PROVE  /\ Due(apy, p, jar, t) \in Nat
           /\ jar.deposits \in DepositsBy(t) /\ jar.cache.updated_at \in 0 .. t
           /\ jar.cache.interest \in Nat /\ jar.claim_remainder \in Nat
           /\ jar.cache.interest * MsInYear \in Nat
           /\ Yield(apy, p, jar.deposits, jar.cache.updated_at, t) \in Nat
<1>1. /\ jar.deposits \in DepositsBy(t) /\ jar.cache.updated_at \in 0 .. t
      /\ jar.cache.interest \in Nat /\ jar.claim_remainder \in Nat
  BY DEF JarBy, CacheBy
<1>2. jar.cache.interest * MsInYear \in Nat
  BY <1>1, YearsNat
<1>3. Yield(apy, p, jar.deposits, jar.cache.updated_at, t) \in Nat
  BY <1>1, YieldsNat
<1> QED BY <1>1, <1>2, <1>3 DEF Due

\* The rates of an account are natural numbers.
LEMMA ApyNat ==
    ASSUME NEW p \in ProductIds, NEW account
    PROVE  ApyOf(account, p) \in Nat
<1>1. TermsOf(p).apy \in [BOOLEAN -> Nat]
  BY TermsType DEF Terms
<1>2. ("IncreasedApy" \in account.features) \in BOOLEAN
  OBVIOUS
<1> QED BY <1>1, <1>2, FunctionValue DEF ApyOf

\* Of fixed and flexible products, the calculator uses these rates and times.
LEMMA TermsUsed ==
    ASSUME NoScoreBased, NEW p \in ProductIds, NEW account, NEW jar, NEW t
    PROVE  /\ EffectiveApy(account, TermsOf(p), t) = ApyOf(account, p)
           /\ \A deposit : InterestTerm(account, TermsOf(p), jar, deposit, t)
                    = Waited(p, deposit, jar.cache.updated_at, t)
<1>1. TermsOf(p).kind \in {"fixed", "flexible"}
  BY TermsType DEF NoScoreBased, Terms, TermsKinds, IsScoreBased
<1> QED BY <1>1 DEF NoScoreBased, EffectiveApy, ApyOf, InterestTerm, Waited

\* Numbers split into whole units and remainders, which add up to them.
LEMMA YearSplit ==
    ASSUME NEW S, IsFiniteSet(S), NEW yield, DOMAIN yield = S, \A i \in S : yield[i] \in Nat
    PROVE  /\ WholeUnits(yield) \in Nat /\ Remainders(yield) \in Nat
           /\ WholeUnits(yield) * MsInYear + Remainders(yield) = SumFunctionOnSet(yield, S)
<1> DEFINE w == [i \in S |-> yield[i] \div MsInYear]
           r == [i \in S |-> yield[i] % MsInYear]
           h == [i \in S |-> w[i] * MsInYear]
<1>1. \A i \in S : w[i] \in Nat /\ r[i] \in Nat /\ yield[i] = h[i] + r[i] /\ h[i] \in Int
  <2>1. \A x \in Nat : /\ x \div MsInYear \in Nat /\ x % MsInYear \in Nat
                         /\ (x \div MsInYear) * MsInYear \in Int
                         /\ x = (x \div MsInYear) * MsInYear + (x % MsInYear)
    BY InterestAssumption
  <2> QED BY <2>1
<1>2. DOMAIN w = S /\ DOMAIN r = S /\ \A i \in S : h[i] = w[i] * MsInYear
  OBVIOUS
<1>3. WholeUnits(yield) = SumFunctionOnSet(w, S) /\ Remainders(yield) = SumFunctionOnSet(r, S)
  BY DEF WholeUnits, Remainders, Total
<1> HIDE DEF w, r, h
<1>4. SumFunctionOnSet(w, S) \in Nat /\ SumFunctionOnSet(r, S) \in Nat
  BY <1>1, SumNat
<1>5. SumFunctionOnSet(h, S) = SumFunctionOnSet(w, S) * MsInYear
  BY <1>1, <1>2, InterestAssumption, SumScale
<1>6. SumFunctionOnSet(yield, S) = SumFunctionOnSet(h, S) + SumFunctionOnSet(r, S)
  BY <1>1, SumPlus
<1> QED BY <1>3, <1>4, <1>5, <1>6

\* What the deposits of jar p earned since it was cached, one by one.
YieldsNow(account, p, t) ==
    [i \in DOMAIN account.jars[p].deposits |->
        Rate(EffectiveApy(account, TermsOf(p), t), account.jars[p].deposits[i].principal)
            * InterestTerm(account, TermsOf(p), account.jars[p], account.jars[p].deposits[i], t)]

\* These are natural numbers.
LEMMA YieldsNowNat ==
    ASSUME NEW t \in Nat, NEW account, AccountBy(account, t), NEW p \in DOMAIN account.jars
    PROVE  /\ p \in ProductIds /\ account.jars[p] \in JarBy(t)
           /\ IsFiniteSet(DOMAIN account.jars[p].deposits)
           /\ \A i \in DOMAIN account.jars[p].deposits :
                /\ account.jars[p].deposits[i] \in DepositBy(t)
                /\ Rate(EffectiveApy(account, TermsOf(p), t),
                        account.jars[p].deposits[i].principal) \in Nat
                /\ InterestTerm(account, TermsOf(p), account.jars[p],
                                account.jars[p].deposits[i], t) \in Nat
                /\ YieldsNow(account, p, t)[i] \in Nat
<1>1. PICK jar : jar = account.jars[p]
  OBVIOUS
<1>2. jar \in JarBy(t) /\ p \in ProductIds
  BY <1>1 DEF AccountBy, JarsBy, IsMap
<1>3. jar.deposits \in Seq(DepositBy(t))
  BY <1>2 DEF JarBy, DepositsBy
<1>4. ASSUME NEW i \in DOMAIN jar.deposits
      PROVE  /\ jar.deposits[i] \in DepositBy(t)
             /\ Rate(EffectiveApy(account, TermsOf(p), t), jar.deposits[i].principal) \in Nat
             /\ InterestTerm(account, TermsOf(p), jar, jar.deposits[i], t) \in Nat
  <2>1. jar.deposits[i] \in DepositBy(t)
    BY <1>3
  <2>2. InterestTerm(account, TermsOf(p), jar, jar.deposits[i], t) \in Nat
    BY <1>2, <2>1, InterestTermNat
  <2>3. Rate(EffectiveApy(account, TermsOf(p), t), jar.deposits[i].principal) \in Nat
    BY <1>2, <2>1, EffectiveApyNat, RateNat DEF DepositBy
  <2> QED BY <2>1, <2>2, <2>3
<1>5. \A i \in DOMAIN jar.deposits : YieldsNow(account, p, t)[i] \in Nat
  <2> SUFFICES ASSUME NEW i \in DOMAIN jar.deposits PROVE YieldsNow(account, p, t)[i] \in Nat
    OBVIOUS
  <2>1. YieldsNow(account, p, t)[i] = Rate(EffectiveApy(account, TermsOf(p), t), jar.deposits[i].principal)
            * InterestTerm(account, TermsOf(p), jar, jar.deposits[i], t)
    BY <1>1 DEF YieldsNow
  <2> QED BY <1>4, <2>1, TimesNat
<1>6. IsFiniteSet(DOMAIN jar.deposits)
  BY <1>3, SeqDomainFinite
<1> QED BY <1>1, <1>2, <1>4, <1>5, <1>6

\* The calculator splits what a jar has, and what it earned, into whole units
\* and a remainder.
LEMMA InterestSplit ==
    ASSUME NEW t \in Nat, NEW account, AccountBy(account, t), NEW p \in DOMAIN account.jars,
           NEW jar, jar = account.jars[p]
    PROVE  /\ InterestOf(account, p, t) \in Accrual
           /\ InterestOf(account, p, t).remainder < MsInYear
           /\ InterestOf(account, p, t).interest * MsInYear + InterestOf(account, p, t).remainder
                = jar.cache.interest * MsInYear + jar.claim_remainder
                    + SumFunctionOnSet(YieldsNow(account, p, t), DOMAIN jar.deposits)
<1> DEFINE Y == MsInYear
           S == DOMAIN jar.deposits
           yield == YieldsNow(account, p, t)
           W == WholeUnits(yield)
           R == Remainders(yield)
           rest == jar.claim_remainder + R
<1>1. /\ jar \in JarBy(t) /\ IsFiniteSet(S) /\ \A i \in S : yield[i] \in Nat
  BY YieldsNowNat
<1>2. jar.cache.interest \in Nat /\ jar.claim_remainder \in Nat
  BY <1>1 DEF JarBy, CacheBy
<1>3. Y \in Nat \ {0}
  BY InterestAssumption
<1>4. DOMAIN yield = S
  BY DEF YieldsNow
<1>5. InterestOf(account, p, t)
        = [interest |-> jar.cache.interest + W + rest \div Y, remainder |-> rest % Y]
  BY DEF InterestOf, GetInterest, YieldsNow
<1> HIDE DEF yield, Y, S
<1>6. W \in Nat /\ R \in Nat /\ W * Y + R = SumFunctionOnSet(yield, S)
  BY <1>1, <1>4, YearSplit DEF Y
<1> HIDE DEF W, R
<1>7. rest \in Nat
  BY <1>2, <1>6
<1>8. /\ rest \div Y \in Nat /\ rest % Y \in Nat /\ rest % Y < Y
      /\ rest = (rest \div Y) * Y + (rest % Y)
  <2>1. \A x \in Nat : /\ x \div Y \in Nat /\ x % Y \in Nat /\ x % Y < Y
                       /\ x = (x \div Y) * Y + (x % Y)
    BY <1>3
  <2> QED BY <1>7, <2>1
<1>9. InterestOf(account, p, t) \in Accrual
  BY <1>2, <1>5, <1>6, <1>8 DEF Accrual
<1>10. (jar.cache.interest + W + rest \div Y) * Y
            = jar.cache.interest * Y + W * Y + (rest \div Y) * Y
  <2>1. \A a, b, c \in Nat : (a + b + c) * Y = a * Y + b * Y + c * Y
    BY <1>3
  <2>2. PICK q \in Nat : q = rest \div Y
    BY <1>8
  <2>3. PICK i \in Nat, w \in Nat : i = jar.cache.interest /\ w = W
    BY <1>2, <1>6
  <2>4. (i + w + q) * Y = i * Y + w * Y + q * Y
    BY <2>1
  <2> QED BY <2>2, <2>3, <2>4
<1>11. /\ jar.cache.interest * Y \in Nat /\ W * Y \in Nat /\ (rest \div Y) * Y \in Nat
  BY <1>2, <1>3, <1>6, <1>8, TimesNat
<1> DEFINE a == jar.cache.interest * Y
           b == W * Y
           c == (rest \div Y) * Y
           cr == jar.claim_remainder
<1>12. a + b + c + (rest % Y) = a + cr + (b + R)
  <2> HIDE DEF a, b, c
  <2>1. a \in Nat /\ b \in Nat /\ c \in Nat
    BY <1>11 DEF a, b, c
  <2>2. rest % Y \in Nat /\ rest = c + (rest % Y)
    BY <1>8 DEF c
  <2> QED BY <1>2, <1>6, <2>1, <2>2
<1>13. InterestOf(account, p, t).interest * Y + InterestOf(account, p, t).remainder
            = jar.cache.interest * Y + jar.claim_remainder + SumFunctionOnSet(yield, S)
  BY <1>5, <1>6, <1>10, <1>12
<1> QED BY <1>5, <1>8, <1>9, <1>13 DEF Y, S, yield

\* The calculator splits what a jar is due into whole units and a remainder.
LEMMA InterestDue ==
    ASSUME NoScoreBased, NEW t \in Nat, NEW account, AccountBy(account, t),
           NEW p \in DOMAIN account.jars
    PROVE  /\ InterestOf(account, p, t) \in Accrual
           /\ InterestOf(account, p, t).interest * MsInYear + InterestOf(account, p, t).remainder
                = Due(ApyOf(account, p), p, account.jars[p], t)
<1> DEFINE yield == YieldsNow(account, p, t)
           f == Yields(ApyOf(account, p), p, account.jars[p].deposits,
                       account.jars[p].cache.updated_at, t)
<1>1. account.jars[p] \in JarBy(t) /\ p \in ProductIds
  BY YieldsNowNat
<1>2. account.jars[p].deposits \in DepositsBy(t)
  BY <1>1 DEF JarBy
<1>3. DOMAIN account.jars[p].deposits = 1 .. Len(account.jars[p].deposits)
  BY <1>2 DEF DepositsBy
<1>4. yield = f
  BY <1>1, <1>3, TermsUsed DEF YieldsNow, Yields
<1>5. /\ InterestOf(account, p, t) \in Accrual
      /\ InterestOf(account, p, t).interest * MsInYear + InterestOf(account, p, t).remainder
            = account.jars[p].cache.interest * MsInYear + account.jars[p].claim_remainder
                + SumFunctionOnSet(yield, DOMAIN account.jars[p].deposits)
  BY InterestSplit
<1> HIDE DEF yield, f
<1>6. SumFunctionOnSet(yield, DOMAIN account.jars[p].deposits)
        = Yield(ApyOf(account, p), p, account.jars[p].deposits,
                account.jars[p].cache.updated_at, t)
  BY <1>3, <1>4 DEF Yield, f
<1> QED BY <1>5, <1>6 DEF Due

\* Caching a jar keeps what it is due, and what it is due then no longer
\* depends on the rate.
LEMMA CacheDue ==
    ASSUME NEW t \in Nat, NEW p \in ProductIds, NEW apy \in Nat, NEW jar \in JarBy(t),
           NEW accrual \in Accrual,
           accrual.interest * MsInYear + accrual.remainder = Due(apy, p, jar, t)
    PROVE  /\ SameDue(apy, p, jar, UpdateCache(jar, accrual, t), t)
           /\ \A rate \in Nat : Due(rate, p, UpdateCache(jar, accrual, t), t) = Due(apy, p, jar, t)
<1> DEFINE y == UpdateCache(jar, accrual, t)
<1>1. /\ y.deposits = jar.deposits /\ y.cache.updated_at = t
      /\ y.cache.interest = accrual.interest /\ y.claim_remainder = accrual.remainder
  BY DEF UpdateCache, JarBy
<1>2. \A rate \in Nat : Yield(rate, p, y.deposits, t, t) = 0
  <2>1. jar.deposits \in DepositsBy(t) /\ t \in 0 .. t
    BY DueNat
  <2> HIDE DEF y
  <2>2. \A rate \in Nat : Yield(rate, p, jar.deposits, t, t) = 0
    BY <2>1, YieldsNat
  <2> QED BY <1>1, <2>2
<1>3. accrual.interest \in Nat /\ accrual.remainder \in Nat /\ accrual.interest * MsInYear \in Nat
  BY YearsNat DEF Accrual
<1> HIDE DEF y
<1>4. \A rate \in Nat : Due(rate, p, y, t) = Due(apy, p, jar, t)
  BY <1>1, <1>2, <1>3 DEF Due
<1> QED BY <1>1, <1>4 DEF SameDue, y

\* Locks have nothing to do with interest.
LEMMA LockDue ==
    ASSUME NEW t \in Nat, NEW p, NEW apy, NEW jar \in JarBy(t)
    PROVE  /\ SameDue(apy, p, jar, Lock(jar), t)
           /\ SameDue(apy, p, jar, Unlock(jar), t)
           /\ SameDue(apy, p, jar, jar, t)
BY DEF Lock, Unlock, SameDue, Due, JarBy

\* A deposit brings no interest with it.
LEMMA AddDepositDue ==
    ASSUME NEW t \in Nat, NEW p \in ProductIds, NEW apy \in Nat, NEW jar \in JarBy(t),
           NEW principal \in Nat
    PROVE  SameDue(apy, p, jar, AddDeposit(jar, principal, t), t)
<1> DEFINE y == AddDeposit(jar, principal, t)
           new == [created_at |-> t, principal |-> principal]
<1>1. /\ y.deposits = Append(jar.deposits, new) /\ y.cache = jar.cache
      /\ y.claim_remainder = jar.claim_remainder
  BY DEF AddDeposit, JarBy
<1>2. jar.deposits \in DepositsBy(t) /\ jar.cache.updated_at \in 0 .. t
  BY DueNat
<1>3. \A since \in 0 .. t : Yield(apy, p, y.deposits, since, t) = Yield(apy, p, jar.deposits, since, t)
  BY <1>1, <1>2, YieldAppend
<1> HIDE DEF y
<1> QED BY <1>1, <1>2, <1>3 DEF SameDue, Due, y

\* A jar that is created with its first deposit is due nothing.
LEMMA NewJarDue ==
    ASSUME NEW t \in Nat, NEW p \in ProductIds, NEW apy \in Nat, NEW principal \in Nat
    PROVE  /\ EmptyJar \in JarBy(t) /\ Due(apy, p, EmptyJar, t) = 0
           /\ Due(apy, p, AddDeposit(EmptyJar, principal, t), t) = 0
<1>1. EmptyJar \in JarBy(t)
  BY DEF EmptyJar, JarBy, DepositsBy, OldestFirst, NoCache, CacheBy
<1>2. Due(apy, p, EmptyJar, t) = 0
  <2>1. /\ EmptyJar.cache.interest = 0 /\ EmptyJar.claim_remainder = 0
        /\ Len(EmptyJar.deposits) = 0
    BY DEF EmptyJar, NoCache
  <2>2. Yield(apy, p, EmptyJar.deposits, EmptyJar.cache.updated_at, t) = 0
    <3>1. 1 .. 0 = {}
      OBVIOUS
    <3> QED BY <2>1, <3>1, SumEmpty DEF Yield
  <2>3. 0 * MsInYear = 0
    BY InterestAssumption
  <2> QED BY <2>1, <2>2, <2>3 DEF Due
<1> QED BY <1>1, <1>2, AddDepositDue DEF SameDue

\* A rollback restores as much, whatever was cached or deposited before it.
LEMMA RollbackDue ==
    ASSUME NEW t \in Nat, NEW p \in ProductIds, NEW apy \in Nat,
           NEW x \in JarBy(t), NEW y \in JarBy(t), SameDue(apy, p, x, y, t),
           NEW rollback \in [claim_remainder : Nat, cache : CacheBy(t)],
           rollback.cache # NoCache
    PROVE  Due(apy, p, ApplyRollback(y, rollback), t) = Due(apy, p, ApplyRollback(x, rollback), t)
<1> DEFINE since == rollback.cache.updated_at
           X == ApplyRollback(x, rollback)
           Z == ApplyRollback(y, rollback)
<1>1. /\ X.deposits = x.deposits /\ X.cache = rollback.cache
      /\ X.claim_remainder = rollback.claim_remainder
  BY DEF ApplyRollback, JarBy
<1>2. /\ Z.deposits = y.deposits /\ Z.cache = rollback.cache
      /\ Z.claim_remainder = rollback.claim_remainder
  BY DEF ApplyRollback, JarBy
<1>3. since \in 0 .. t
  BY DEF CacheBy
<1>4. Yield(apy, p, y.deposits, since, t) = Yield(apy, p, x.deposits, since, t)
  BY <1>3 DEF SameDue
<1> HIDE DEF X, Z
<1> QED BY <1>1, <1>2, <1>4 DEF Due, X, Z

\* Draining deposits takes what they yielded since the jar was cached.
LEMMA CleanUpDue ==
    ASSUME NEW t \in Nat, NEW p \in ProductIds, NEW apy \in Nat, NEW jar \in JarBy(t),
           NEW n \in Nat, CanCleanUp(jar, n)
    PROVE  LET left == SumFunctionOnSet(
                    Yields(apy, p, jar.deposits, jar.cache.updated_at, t), 1 .. n)
           IN  /\ left \in Nat
               /\ Due(apy, p, jar, t) = Due(apy, p, CleanUpDeposits(jar, n), t) + left
<1> DEFINE since == jar.cache.updated_at
           left == SumFunctionOnSet(Yields(apy, p, jar.deposits, since, t), 1 .. n)
           y == CleanUpDeposits(jar, n)
           d == SubSeq(jar.deposits, n + 1, Len(jar.deposits))
<1>1. /\ y.deposits = d /\ y.cache = jar.cache /\ y.claim_remainder = jar.claim_remainder
  BY DEF CleanUpDeposits, JarBy
<1>2. y \in JarBy(t)
  BY CleanUpDepositsType
<1>3. /\ jar.deposits \in DepositsBy(t) /\ since \in 0 .. t
      /\ jar.claim_remainder \in Nat /\ jar.cache.interest * MsInYear \in Nat
  BY DueNat
<1>4. n \in 0 .. Len(jar.deposits)
  BY <1>3 DEF CanCleanUp, DepositsBy
<1>5. /\ left \in Nat
      /\ Yield(apy, p, jar.deposits, since, t) = left + Yield(apy, p, d, since, t)
  BY <1>3, <1>4, YieldDrain
<1>6. Yield(apy, p, y.deposits, y.cache.updated_at, t) \in Nat
  BY <1>2, DueNat
<1> HIDE DEF y, left, d
<1> QED BY <1>1, <1>3, <1>5, <1>6 DEF Due, y, left

\* A jar that is to be closed is due less than its fraction of a unit.
LEMMA CloseDue ==
    ASSUME NEW t \in Nat, NEW p, NEW apy, NEW jar \in JarBy(t), ShouldClose(jar)
    PROVE  Due(apy, p, jar, t) = jar.claim_remainder /\ jar.claim_remainder \in Nat
<1>1. jar.deposits = <<>> /\ jar.cache.interest = 0 /\ jar.claim_remainder \in Nat
  BY DEF ShouldClose, JarBy
<1>2. Yield(apy, p, jar.deposits, jar.cache.updated_at, t) = 0
  <2>1. Len(jar.deposits) = 0 /\ 1 .. 0 = {}
    BY <1>1
  <2> QED BY <2>1, SumEmpty DEF Yield
<1>3. 0 * MsInYear = 0
  BY InterestAssumption
<1> QED BY <1>1, <1>2, <1>3 DEF Due

-----------------------------------------------------------------------------
(* What an account is due, and the methods that keep it.                    *)

\* Jar p of the account y is due what it is in x; a new one is due nothing.
KeepsJar(x, y, p, t) ==
    /\ p \in DOMAIN x.jars =>
            p \in DOMAIN y.jars /\ SameDue(ApyOf(x, p), p, x.jars[p], y.jars[p], t)
    /\ p \in DOMAIN y.jars \ DOMAIN x.jars => Due(ApyOf(x, p), p, y.jars[p], t) = 0

\* So are all jars but those in S.
KeepsBut(x, y, S, t) ==
    y.features = x.features /\ \A p \in ProductIds \ S : KeepsJar(x, y, p, t)

KeepsDue(x, y, t) == KeepsBut(x, y, {}, t)

\* An account's jars are due natural numbers.
LEMMA JarDueNat ==
    ASSUME NEW t \in Nat, NEW account, AccountBy(account, t)
    PROVE  /\ \A p \in ProductIds : JarDue(account, p, t) \in Nat
           /\ DueIn(account, t) \in Nat
<1>1. ASSUME NEW p \in ProductIds PROVE JarDue(account, p, t) \in Nat
  <2>1. p \in DOMAIN account.jars => account.jars[p] \in JarBy(t)
    BY DEF AccountBy, JarsBy
  <2> QED BY <2>1, ApyNat, DueNat DEF JarDue
<1>2. IsFiniteSet(ProductIds) /\ \A p \in ProductIds : JarsDue(account, t)[p] \in Nat
  BY <1>1, AccountAssumption DEF JarsDue
<1> QED BY <1>1, <1>2, SumNat DEF DueIn

\* What is lost jar by jar is lost altogether.
LEMMA DueLoss ==
    ASSUME NEW t \in Nat, NEW x, AccountBy(x, t), NEW u \in Nat, NEW y, AccountBy(y, u), NEW loss,
           \A p \in ProductIds : loss[p] \in Nat /\ JarDue(x, p, t) = JarDue(y, p, u) + loss[p]
    PROVE  /\ SumFunctionOnSet(loss, ProductIds) \in Nat
           /\ DueIn(x, t) = DueIn(y, u) + SumFunctionOnSet(loss, ProductIds)
<1> DEFINE f == JarsDue(y, u)
           h == JarsDue(x, t)
<1>1. IsFiniteSet(ProductIds)
  BY AccountAssumption
<1>2. \A p \in ProductIds : JarDue(y, p, u) \in Nat
  BY JarDueNat
<1>3. \A p \in ProductIds : f[p] \in Int /\ loss[p] \in Int /\ h[p] = f[p] + loss[p]
  BY <1>2 DEF JarsDue
<1> HIDE DEF f, h
<1>4. SumFunctionOnSet(h, ProductIds) = SumFunctionOnSet(f, ProductIds)
                                            + SumFunctionOnSet(loss, ProductIds)
  BY <1>1, <1>3, SumPlus
<1>5. SumFunctionOnSet(loss, ProductIds) \in Nat
  BY <1>1, SumNat
<1> QED BY <1>4, <1>5 DEF DueIn, f, h

\* A jar that is kept is due the same.
LEMMA KeptJarDue ==
    ASSUME NEW x, NEW y, y.features = x.features, NEW p, NEW t, KeepsJar(x, y, p, t)
    PROVE  JarDue(y, p, t) = JarDue(x, p, t)
<1>1. ApyOf(y, p) = ApyOf(x, p)
  BY DEF ApyOf
<1> QED BY <1>1 DEF KeepsJar, SameDue, JarDue

\* An account whose jars are all kept is due the same.
LEMMA KeptDue ==
    ASSUME NEW x, NEW y, NEW t, KeepsDue(x, y, t)
    PROVE  DueIn(y, t) = DueIn(x, t)
<1>1. IsFiniteSet(ProductIds)
  BY AccountAssumption
<1>2. \A p \in ProductIds : JarsDue(y, t)[p] = JarsDue(x, t)[p]
  BY KeptJarDue DEF KeepsDue, KeepsBut, JarsDue
<1> QED BY <1>1, <1>2, SumCongruent DEF DueIn

\* One method after another.
LEMMA KeepsThen ==
    ASSUME NEW t, NEW x, NEW y, NEW z, NEW S, NEW T, KeepsBut(x, y, S, t), KeepsBut(y, z, T, t)
    PROVE  KeepsBut(x, z, S \cup T, t)
<1>1. \A p : ApyOf(y, p) = ApyOf(x, p)
  BY DEF KeepsBut, ApyOf
<1>2. ASSUME NEW p \in ProductIds \ (S \cup T) PROVE KeepsJar(x, z, p, t)
  <2>1. KeepsJar(x, y, p, t) /\ KeepsJar(y, z, p, t)
    BY DEF KeepsBut
  <2> QED BY <1>1, <2>1 DEF KeepsJar, SameDue
<1> QED BY <1>2 DEF KeepsBut

\* The same jars, and the same features.
LEMMA KeepsSame ==
    ASSUME NEW t, NEW x, NEW y, y.jars = x.jars, y.features = x.features
    PROVE  KeepsDue(x, y, t)
BY DEF KeepsDue, KeepsBut, KeepsJar, SameDue

\* The fields of an account whose jars are rewritten.
LEMMA WrittenJars ==
    ASSUME NEW t, NEW account, AccountBy(account, t), NEW jars
    PROVE  /\ [account EXCEPT !.jars = jars].jars = jars
           /\ [account EXCEPT !.jars = jars].features = account.features
BY DEF AccountBy

\* Rewriting the jars one by one keeps the account if it keeps each of them.
LEMMA KeepsEach ==
    ASSUME NEW t, NEW account, AccountBy(account, t), NEW jars, NEW S,
           DOMAIN jars = DOMAIN account.jars,
           \A p \in DOMAIN account.jars \ S :
                SameDue(ApyOf(account, p), p, account.jars[p], jars[p], t)
    PROVE  KeepsBut(account, [account EXCEPT !.jars = jars], S, t)
<1> DEFINE after == [account EXCEPT !.jars = jars]
<1>1. after.jars = jars /\ after.features = account.features
  BY WrittenJars
<1> HIDE DEF after
<1>2. KeepsBut(account, after, S, t)
  BY <1>1 DEF KeepsBut, KeepsJar
<1> QED BY <1>2 DEF after

\* Caching jars, after which their dues no longer depend on the rates.
LEMMA CachesKeep ==
    ASSUME NoScoreBased, NEW t \in Nat, NEW account, AccountBy(account, t), NEW ps
    PROVE  LET after == UpdateJarCaches(account, ps, t)
           IN  /\ KeepsDue(account, after, t)
               /\ \A p \in DOMAIN account.jars :
                    /\ p \in ps => after.jars[p].cache.updated_at = t
                    /\ p \in ps => \A rate \in Nat : Due(rate, p, after.jars[p], t)
                                        = Due(ApyOf(account, p), p, account.jars[p], t)
<1> DEFINE jars == [p \in DOMAIN account.jars |->
                IF p \in ps THEN UpdateCache(account.jars[p], InterestOf(account, p, t), t)
                ELSE account.jars[p]]
<1>1. ASSUME NEW p \in DOMAIN account.jars
      PROVE  /\ SameDue(ApyOf(account, p), p, account.jars[p], jars[p], t)
             /\ p \in ps => jars[p].cache.updated_at = t
             /\ p \in ps => \A rate \in Nat : Due(rate, p, jars[p], t)
                                = Due(ApyOf(account, p), p, account.jars[p], t)
  <2> DEFINE accrual == InterestOf(account, p, t)
             jar == account.jars[p]
             updated == UpdateCache(jar, accrual, t)
  <2>1. jar \in JarBy(t) /\ p \in ProductIds /\ ApyOf(account, p) \in Nat
    BY ApyNat DEF AccountBy, JarsBy, IsMap
  <2>2. /\ accrual \in Accrual
        /\ accrual.interest * MsInYear + accrual.remainder = Due(ApyOf(account, p), p, jar, t)
    BY InterestDue
  <2>3. SameDue(ApyOf(account, p), p, jar, jar, t)
    BY <2>1, LockDue
  <2> HIDE DEF accrual, jar
  <2>4. /\ SameDue(ApyOf(account, p), p, jar, updated, t)
        /\ \A rate \in Nat : Due(rate, p, updated, t) = Due(ApyOf(account, p), p, jar, t)
    BY <2>1, <2>2, CacheDue
  <2>5. updated.cache.updated_at = t
    BY <2>1 DEF UpdateCache, JarBy
  <2>6. jars[p] = IF p \in ps THEN updated ELSE jar
    BY DEF accrual, jar
  <2> HIDE DEF updated, jars
  <2> QED BY <2>3, <2>4, <2>5, <2>6 DEF jar
<1>2. UpdateJarCaches(account, ps, t) = [account EXCEPT !.jars = jars]
  BY DEF UpdateJarCaches
<1>3. DOMAIN jars = DOMAIN account.jars
  OBVIOUS
<1> HIDE DEF jars
<1>4. KeepsDue(account, UpdateJarCaches(account, ps, t), t)
  BY <1>1, <1>2, <1>3, KeepsEach DEF KeepsDue
<1>5. UpdateJarCaches(account, ps, t).jars = jars
  BY <1>2, WrittenJars
<1> QED BY <1>1, <1>4, <1>5

\* Locking and unlocking jars.
LEMMA LocksKeep ==
    ASSUME NEW t \in Nat, NEW account, AccountBy(account, t), NEW ps
    PROVE  KeepsDue(account, LockJars(account, ps), t) /\ KeepsDue(account, UnlockJars(account, ps), t)
<1> DEFINE locked == [p \in DOMAIN account.jars |->
                IF p \in ps THEN Lock(account.jars[p]) ELSE account.jars[p]]
           unlocked == [p \in DOMAIN account.jars |->
                IF p \in ps THEN Unlock(account.jars[p]) ELSE account.jars[p]]
<1>1. ASSUME NEW p \in DOMAIN account.jars
      PROVE  /\ SameDue(ApyOf(account, p), p, account.jars[p], locked[p], t)
             /\ SameDue(ApyOf(account, p), p, account.jars[p], unlocked[p], t)
  <2>1. account.jars[p] \in JarBy(t)
    BY DEF AccountBy, JarsBy
  <2> QED BY <2>1, LockDue
<1>2. /\ LockJars(account, ps) = [account EXCEPT !.jars = locked]
      /\ UnlockJars(account, ps) = [account EXCEPT !.jars = unlocked]
  BY DEF LockJars, UnlockJars
<1>3. DOMAIN locked = DOMAIN account.jars /\ DOMAIN unlocked = DOMAIN account.jars
  OBVIOUS
<1> HIDE DEF locked, unlocked
<1> QED BY <1>1, <1>2, <1>3, KeepsEach DEF KeepsDue

\* A deposit, into a jar that is there or a new one.
LEMMA DepositKeeps ==
    ASSUME NEW t \in Nat, NEW account, AccountBy(account, t), NEW q \in ProductIds,
           NEW principal \in Nat
    PROVE  KeepsDue(account, DepositTo(account, q, principal, t), t)
<1> DEFINE new == AddDeposit(JarOrNew(account, q), principal, t)
           jars == Put(account.jars, q, new)
           after == [account EXCEPT !.jars = jars]
<1>1. /\ DOMAIN jars = DOMAIN account.jars \cup {q}
      /\ \A p \in DOMAIN account.jars \cup {q} :
            jars[p] = IF p = q THEN new ELSE account.jars[p]
  <2> HIDE DEF new
  <2> QED BY DEF Put
<1>2. after.jars = jars /\ after.features = account.features
  BY WrittenJars
<1>3. \A p \in DOMAIN account.jars : account.jars[p] \in JarBy(t) /\ p \in ProductIds
  BY DEF AccountBy, JarsBy, IsMap
<1>4. /\ q \in DOMAIN account.jars => SameDue(ApyOf(account, q), q, account.jars[q], new, t)
      /\ q \notin DOMAIN account.jars => Due(ApyOf(account, q), q, new, t) = 0
  BY <1>3, ApyNat, AddDepositDue, NewJarDue DEF JarOrNew
<1>5. DepositTo(account, q, principal, t) = after
  BY DEF DepositTo
<1> HIDE DEF new, jars, after
<1>6. ASSUME NEW p \in ProductIds PROVE KeepsJar(account, after, p, t)
  <2>1. CASE p = q
    BY <1>1, <1>2, <1>4, <2>1 DEF KeepsJar
  <2>2. CASE p # q
    BY <1>1, <1>2, <2>2 DEF KeepsJar, SameDue
  <2> QED BY <2>1, <2>2
<1> QED BY <1>2, <1>5, <1>6 DEF KeepsDue, KeepsBut

\* There is nothing to settle where no product is score-based.
LEMMA SettledJars ==
    ASSUME NoScoreBased, NEW t \in Nat, NEW account, AccountBy(account, t)
    PROVE  /\ SettleInterest(account, t).jars = account.jars
           /\ SettleInterest(account, t).features = account.features
<1> DEFINE days == DaysSinceUpdate(account.score, account.timezone, t)
           jars == [p \in DOMAIN account.jars |->
                IF IsScoreBased(TermsOf(p))
                THEN UpdateCache(account.jars[p],
                        GetSettledInterest(account, TermsOf(p), account.jars[p], t),
                        StartOfTheDay(t))
                ELSE account.jars[p]]
           history == IF days = 1 THEN Shift(account.score.history) ELSE EmptyHistory
<1>1. CASE account.timezone = InvalidTimezone \/ days < 1
  BY <1>1 DEF SettleInterest
<1>2. CASE ~(account.timezone = InvalidTimezone \/ days < 1)
  <2>1. \A p \in DOMAIN account.jars : ~IsScoreBased(TermsOf(p))
    BY DEF NoScoreBased, AccountBy, IsMap
  <2>2. account.jars = [p \in DOMAIN account.jars |-> account.jars[p]]
    BY DEF AccountBy, IsMap
  <2>3. jars = [p \in DOMAIN account.jars |-> account.jars[p]]
    BY <2>1
  <2>4. SettleInterest(account, t) = [account EXCEPT !.jars = jars, !.score.history = history]
    BY <1>2 DEF SettleInterest
  <2> HIDE DEF jars, history, days
  <2>5. SettleInterest(account, t).jars = jars
        /\ SettleInterest(account, t).features = account.features
    BY <2>4 DEF AccountBy
  <2> QED BY <2>2, <2>3, <2>5
<1> QED BY <1>1, <1>2

\* Bringing the whole account up to date.
LEMMA AccountCacheKeeps ==
    ASSUME NoScoreBased, NEW t \in Nat, NEW account, AccountBy(account, t)
    PROVE  LET after == UpdateAccountCache(account, t)
           IN  /\ KeepsDue(account, after, t)
               /\ \A p \in DOMAIN account.jars : \A rate \in Nat :
                    Due(rate, p, after.jars[p], t) = Due(ApyOf(account, p), p, account.jars[p], t)
<1> DEFINE settled == SettleInterest(account, t)
           after == UpdateJarCaches(settled, DOMAIN account.jars, t)
<1>1. AccountBy(settled, t) /\ settled.jars = account.jars /\ settled.features = account.features
  BY SettleInterestType, SettledJars
<1>2. after = UpdateAccountCache(account, t)
  BY DEF UpdateAccountCache
<1>3. KeepsDue(account, settled, t)
  BY <1>1, KeepsSame
<1> HIDE DEF settled
<1>4. /\ KeepsDue(settled, after, t)
      /\ \A p \in DOMAIN account.jars : \A rate \in Nat :
            Due(rate, p, after.jars[p], t) = Due(ApyOf(settled, p), p, account.jars[p], t)
  BY <1>1, CachesKeep
<1>5. \A p : ApyOf(settled, p) = ApyOf(account, p)
  BY <1>1 DEF ApyOf
<1>6. KeepsDue(account, after, t)
  <2>1. KeepsBut(account, after, {} \cup {}, t)
    BY <1>3, <1>4, KeepsThen DEF KeepsDue
  <2> QED BY <2>1 DEF KeepsDue
<1> QED BY <1>2, <1>4, <1>5, <1>6

\* A claim takes the whole units out of its jars, and the snapshot of a jar
\* that was cached would put them back.
LEMMA ClaimKeeps ==
    ASSUME NoScoreBased, NEW t \in Nat, NEW account, AccountBy(account, t),
           NEW ps \in SUBSET DOMAIN account.jars, now = t
    PROVE  LET after == ClaimJars(account, ps)
           IN  /\ KeepsBut(account, after, ps, t)
               /\ DOMAIN after.jars = DOMAIN account.jars
               /\ \A p \in ps :
                    /\ Due(ApyOf(account, p), p, account.jars[p], t)
                        = Due(ApyOf(account, p), p, after.jars[p], t)
                            + InterestOf(account, p, t).interest * MsInYear
                    /\ account.jars[p].cache # NoCache =>
                        Due(ApyOf(account, p), p,
                            ApplyRollback(after.jars[p], ToRollback(account.jars[p])), t)
                          = Due(ApyOf(account, p), p, account.jars[p], t)
<1> DEFINE jars == [p \in DOMAIN account.jars |->
                IF p \in ps
                THEN Lock(UpdateCache(account.jars[p],
                        [interest |-> 0, remainder |-> InterestOf(account, p, t).remainder], t))
                ELSE account.jars[p]]
<1>1. ASSUME NEW p \in ps
      PROVE  LET jar == account.jars[p]
                 apy == ApyOf(account, p)
             IN  /\ Due(apy, p, jar, t)
                        = Due(apy, p, jars[p], t) + InterestOf(account, p, t).interest * MsInYear
                 /\ jar.cache # NoCache =>
                        Due(apy, p, ApplyRollback(jars[p], ToRollback(jar)), t) = Due(apy, p, jar, t)
  <2> DEFINE jar == account.jars[p]
             apy == ApyOf(account, p)
             accrual == InterestOf(account, p, t)
             new == Lock(UpdateCache(jar, [interest |-> 0, remainder |-> accrual.remainder], t))
             old == ApplyRollback(new, ToRollback(jar))
  <2>1. jar \in JarBy(t) /\ p \in ProductIds /\ apy \in Nat
    BY ApyNat DEF AccountBy, JarsBy, IsMap
  <2>2. /\ accrual \in Accrual
        /\ accrual.interest * MsInYear + accrual.remainder = Due(apy, p, jar, t)
    BY InterestDue
  <2>3. jars[p] = new
    OBVIOUS
  <2> HIDE DEF accrual, jar, apy, jars
  <2>4. /\ new.deposits = jar.deposits /\ new.cache.updated_at = t
        /\ new.cache.interest = 0 /\ new.claim_remainder = accrual.remainder
    BY <2>1 DEF UpdateCache, Lock, JarBy
  <2>5. Due(apy, p, new, t) = accrual.remainder
    <3>1. Yield(apy, p, new.deposits, t, t) = 0
      <4>1. jar.deposits \in DepositsBy(t) /\ t \in 0 .. t
        BY <2>1, DueNat
      <4>2. Yield(apy, p, jar.deposits, t, t) = 0
        BY <2>1, <4>1, YieldsNat
      <4> HIDE DEF new
      <4> QED BY <2>4, <4>2
    <3>2. 0 * MsInYear = 0 /\ accrual.remainder \in Nat
      BY <2>2, InterestAssumption DEF Accrual
    <3> HIDE DEF new
    <3> QED BY <2>4, <3>1, <3>2 DEF Due
  <2>6. accrual.interest * MsInYear \in Nat /\ accrual.remainder \in Nat
    BY <2>2, YearsNat DEF Accrual
  <2>7. ASSUME jar.cache # NoCache PROVE Due(apy, p, old, t) = Due(apy, p, jar, t)
    <3>1. /\ old.deposits = jar.deposits /\ old.cache = jar.cache
          /\ old.claim_remainder = jar.claim_remainder
      BY <2>1, <2>7 DEF ApplyRollback, ToRollback, UpdateCache, Lock, JarBy
    <3> HIDE DEF old
    <3> QED BY <3>1 DEF Due
  <2> HIDE DEF new
  <2>8. Due(apy, p, jar, t) = Due(apy, p, new, t) + accrual.interest * MsInYear
    BY <2>2, <2>5, <2>6
  <2> QED BY <2>3, <2>7, <2>8 DEF jar, apy, accrual
<1>2. ClaimJars(account, ps) = [account EXCEPT !.jars = jars]
  BY DEF ClaimJars
<1>3. DOMAIN jars = DOMAIN account.jars /\ \A p \in DOMAIN account.jars \ ps : jars[p] = account.jars[p]
  OBVIOUS
<1> HIDE DEF jars
<1>4. KeepsBut(account, ClaimJars(account, ps), ps, t)
  <2>1. \A p \in DOMAIN account.jars \ ps :
            SameDue(ApyOf(account, p), p, account.jars[p], jars[p], t)
    BY <1>3 DEF SameDue
  <2> QED BY <1>2, <1>3, <2>1, KeepsEach
<1>5. ClaimJars(account, ps).jars = jars
  BY <1>2, WrittenJars
<1> QED BY <1>1, <1>3, <1>4, <1>5

\* What the deposits that leave the jars take along, partition[p] of jar p.
LeftWith(account, partition, t) ==
    [p \in ProductIds |->
        IF p \in DOMAIN partition
        THEN SumFunctionOnSet(
                Yields(ApyOf(account, p), p, account.jars[p].deposits,
                       account.jars[p].cache.updated_at, t), 1 .. partition[p])
        ELSE 0]

\* Draining the jars loses what the deposits take along.
LEMMA CleanUpLoses ==
    ASSUME NEW t \in Nat, NEW account, AccountBy(account, t), NEW partition,
           CanCleanUpJars(account, partition),
           \A p \in DOMAIN partition : partition[p] \in Nat
    PROVE  LET after == CleanUpJars(account, partition)
           IN  /\ KeepsBut(account, after, DOMAIN partition, t)
               /\ \A p \in DOMAIN account.jars :
                    /\ after.jars[p].cache = account.jars[p].cache
                    /\ after.jars[p].claim_remainder = account.jars[p].claim_remainder
               /\ SumFunctionOnSet(LeftWith(account, partition, t), ProductIds) \in Nat
               /\ DueIn(account, t) = DueIn(after, t)
                    + SumFunctionOnSet(LeftWith(account, partition, t), ProductIds)
<1> DEFINE jars == [p \in DOMAIN account.jars |->
                IF p \in DOMAIN partition THEN CleanUpDeposits(account.jars[p], partition[p])
                ELSE account.jars[p]]
           after == CleanUpJars(account, partition)
           loss == LeftWith(account, partition, t)
<1>1. after = [account EXCEPT !.jars = jars]
  BY DEF CleanUpJars
<1>2. after.jars = jars /\ after.features = account.features
  BY <1>1, WrittenJars
<1>3. \A p \in DOMAIN account.jars : account.jars[p] \in JarBy(t) /\ p \in ProductIds
  BY DEF AccountBy, JarsBy, IsMap
<1>4. ASSUME NEW p \in DOMAIN account.jars
      PROVE  /\ jars[p].cache = account.jars[p].cache
             /\ jars[p].claim_remainder = account.jars[p].claim_remainder
             /\ p \notin DOMAIN partition => jars[p] = account.jars[p]
  BY <1>3 DEF CleanUpDeposits, JarBy
<1>5. ASSUME NEW p \in DOMAIN account.jars, p \in DOMAIN partition
      PROVE  loss[p] \in Nat /\ Due(ApyOf(account, p), p, account.jars[p], t)
                                    = Due(ApyOf(account, p), p, jars[p], t) + loss[p]
  <2> DEFINE jar == account.jars[p]
             n == partition[p]
             apy == ApyOf(account, p)
  <2>1. CanCleanUp(jar, n) /\ n \in Nat
    BY <1>5 DEF CanCleanUpJars
  <2>2. jar \in JarBy(t) /\ p \in ProductIds /\ apy \in Nat
    BY <1>3, ApyNat
  <2>3. jars[p] = CleanUpDeposits(jar, n)
    BY <1>5
  <2>4. loss[p] = SumFunctionOnSet(Yields(apy, p, jar.deposits, jar.cache.updated_at, t), 1 .. n)
    BY <1>5, <2>2 DEF LeftWith
  <2> HIDE DEF jar, n, apy, jars, loss
  <2>5. loss[p] \in Nat /\ Due(apy, p, jar, t) = Due(apy, p, jars[p], t) + loss[p]
    <3> DEFINE left == SumFunctionOnSet(Yields(apy, p, jar.deposits, jar.cache.updated_at, t), 1 .. n)
    <3>1. left \in Nat /\ Due(apy, p, jar, t) = Due(apy, p, CleanUpDeposits(jar, n), t) + left
      BY <2>1, <2>2, CleanUpDue
    <3> HIDE DEF left
    <3>2. loss[p] = left
      BY <2>4 DEF left
    <3> QED BY <2>3, <3>1, <3>2
  <2> QED BY <2>5 DEF jar, apy
<1>6. DOMAIN jars = DOMAIN account.jars
  OBVIOUS
<1>7. DOMAIN partition \subseteq DOMAIN account.jars
  BY DEF CanCleanUpJars
<1>8. AccountBy(after, t)
  BY CleanUpJarsType
<1> HIDE DEF jars, after
<1>9. KeepsBut(account, after, DOMAIN partition, t)
  <2>1. \A p \in DOMAIN account.jars \ DOMAIN partition :
            SameDue(ApyOf(account, p), p, account.jars[p], jars[p], t)
    BY <1>4 DEF SameDue
  <2> QED BY <1>1, <1>6, <2>1, KeepsEach
<1>10. ASSUME NEW p \in ProductIds
       PROVE  loss[p] \in Nat /\ JarDue(account, p, t) = JarDue(after, p, t) + loss[p]
  <2>1. CASE p \in DOMAIN partition
    <3>1. ApyOf(after, p) = ApyOf(account, p)
      BY <1>2 DEF ApyOf
    <3> QED BY <1>2, <1>5, <1>6, <1>7, <2>1, <3>1 DEF JarDue
  <2>2. CASE p \notin DOMAIN partition
    <3>1. loss[p] = 0
      BY <2>2 DEF LeftWith
    <3>2. JarDue(after, p, t) = JarDue(account, p, t) /\ JarDue(account, p, t) \in Nat
      BY <1>9, <2>2, KeptJarDue, JarDueNat DEF KeepsBut
    <3> HIDE DEF loss
    <3> QED BY <3>1, <3>2
  <2> QED BY <2>1, <2>2
<1> HIDE DEF loss
<1>11. /\ SumFunctionOnSet(loss, ProductIds) \in Nat
       /\ DueIn(account, t) = DueIn(after, t) + SumFunctionOnSet(loss, ProductIds)
  BY <1>8, <1>10, DueLoss
<1> QED BY <1>2, <1>4, <1>9, <1>11 DEF after, loss

\* The fractions of a unit in the jars that are gone.
GoneWith(account, after) ==
    [p \in ProductIds |->
        IF p \in DOMAIN account.jars \ DOMAIN after.jars
        THEN account.jars[p].claim_remainder ELSE 0]

\* Closing jars loses those fractions.
LEMMA CloseLoses ==
    ASSUME NEW t \in Nat, NEW account, AccountBy(account, t), NEW ps
    PROVE  LET after == CloseJars(account, ps)
           IN  /\ KeepsBut(account, after, ps, t)
               /\ SumFunctionOnSet(GoneWith(account, after), ProductIds) \in Nat
               /\ DueIn(account, t) = DueIn(after, t)
                    + SumFunctionOnSet(GoneWith(account, after), ProductIds)
<1> DEFINE gone == {p \in ps \cap DOMAIN account.jars : ShouldClose(account.jars[p])}
           jars == Drop(account.jars, gone)
           after == CloseJars(account, ps)
           loss == GoneWith(account, after)
<1>1. after = [account EXCEPT !.jars = jars]
  BY DEF CloseJars
<1>2. after.jars = jars /\ after.features = account.features
  BY <1>1, WrittenJars
<1>3. \A p \in DOMAIN account.jars : account.jars[p] \in JarBy(t) /\ p \in ProductIds
  BY DEF AccountBy, JarsBy, IsMap
<1>4. \A p \in gone : p \in ps /\ p \in DOMAIN account.jars /\ ShouldClose(account.jars[p])
  OBVIOUS
<1>5. AccountBy(after, t)
  BY CloseJarsType
<1> HIDE DEF gone
<1>6. /\ DOMAIN jars = DOMAIN account.jars \ gone
      /\ \A p \in DOMAIN account.jars \ gone : jars[p] = account.jars[p]
  BY DropMap DEF AccountBy
<1>7. \A p : ApyOf(after, p) = ApyOf(account, p)
  BY <1>2 DEF ApyOf
<1> HIDE DEF jars, after
<1>8. ASSUME NEW p \in ProductIds \ gone
      PROVE  KeepsJar(account, after, p, t) /\ loss[p] = 0
  <2>1. KeepsJar(account, after, p, t)
    BY <1>2, <1>6 DEF KeepsJar, SameDue
  <2>2. loss[p] = 0
    BY <1>2, <1>6 DEF GoneWith
  <2> QED BY <2>1, <2>2
<1>9. ASSUME NEW p \in ProductIds
      PROVE  loss[p] \in Nat /\ JarDue(account, p, t) = JarDue(after, p, t) + loss[p]
  <2>1. CASE p \in gone
    <3>1. loss[p] = account.jars[p].claim_remainder /\ JarDue(after, p, t) = 0
      BY <1>2, <1>4, <1>6, <2>1 DEF GoneWith, JarDue
    <3>2. /\ JarDue(account, p, t) = account.jars[p].claim_remainder
          /\ account.jars[p].claim_remainder \in Nat
      BY <1>3, <1>4, <2>1, CloseDue DEF JarDue
    <3> QED BY <3>1, <3>2
  <2>2. CASE p \notin gone
    <3>1. JarDue(after, p, t) = JarDue(account, p, t) /\ JarDue(account, p, t) \in Nat
      BY <1>2, <1>8, <2>2, KeptJarDue, JarDueNat
    <3> HIDE DEF loss
    <3> QED BY <1>8, <2>2, <3>1
  <2> QED BY <2>1, <2>2
<1>10. KeepsBut(account, after, ps, t)
  BY <1>2, <1>4, <1>8 DEF KeepsBut
<1> HIDE DEF loss
<1>11. /\ SumFunctionOnSet(loss, ProductIds) \in Nat
       /\ DueIn(account, t) = DueIn(after, t) + SumFunctionOnSet(loss, ProductIds)
  BY <1>5, <1>9, DueLoss
<1> QED BY <1>10, <1>11 DEF loss, after

-----------------------------------------------------------------------------
(* Claims and the snapshots they take.                                      *)

\* Snapshots of jars, taken by time t.
Snapshots(r, t) ==
    \A p \in DOMAIN r.jars :
        p \in ProductIds /\ r.jars[p] \in [claim_remainder : Nat, cache : CacheBy(t)]

\* Whole units, jar by jar and together, in units of 1 / MsInYear.
LEMMA YearsOver ==
    ASSUME NEW D \in SUBSET ProductIds, NEW taken \in [D -> Nat]
    PROVE  /\ Total(taken) \in Nat
           /\ SumFunctionOnSet([p \in ProductIds |-> IF p \in D THEN taken[p] * MsInYear ELSE 0],
                               ProductIds) = Total(taken) * MsInYear
<1> DEFINE f == [p \in ProductIds |-> IF p \in D THEN taken[p] * MsInYear ELSE 0]
           h == [p \in D |-> taken[p] * MsInYear]
<1>1. IsFiniteSet(ProductIds) /\ IsFiniteSet(D) /\ DOMAIN taken = D
  BY AccountAssumption, FS_Subset
<1>2. \A p \in D : taken[p] \in Nat /\ taken[p] * MsInYear \in Nat
  BY YearsNat
<1>3. /\ \A p \in D : h[p] = taken[p] * MsInYear /\ f[p] \in Int /\ h[p] = f[p]
      /\ \A p \in ProductIds \ D : f[p] = 0
  BY <1>2
<1> HIDE DEF f, h
<1>4. SumFunctionOnSet(f, ProductIds) = SumFunctionOnSet(h, D)
  BY <1>1, <1>3, SumSupport
<1>5. SumFunctionOnSet(h, D) = SumFunctionOnSet(taken, D) * MsInYear
  BY <1>1, <1>2, <1>3, InterestAssumption, SumScale
<1>6. Total(taken) = SumFunctionOnSet(taken, D) /\ SumFunctionOnSet(taken, D) \in Nat
  BY <1>1, <1>2, SumNat DEF Total
<1> QED BY <1>4, <1>5, <1>6 DEF f

\* A claim takes its amount out of the jars.
LEMMA ClaimLoses ==
    ASSUME NoScoreBased, TypeInv, NEW account, AccountBy(account, now),
           NEW ps \in SUBSET DOMAIN account.jars
    PROVE  LET taken == [p \in ps |-> InterestOf(account, p, now).interest]
               after == ClaimJars(account, ps)
           IN  /\ taken \in [ps -> Nat] /\ Total(taken) \in Nat
               /\ DueIn(account, now) = DueIn(after, now) + Total(taken) * MsInYear
<1> DEFINE taken == [p \in ps |-> InterestOf(account, p, now).interest]
           after == ClaimJars(account, ps)
           loss == [p \in ProductIds |-> IF p \in ps THEN taken[p] * MsInYear ELSE 0]
<1>0. now \in Nat
  BY DEF TypeInv
<1>1. ps \subseteq ProductIds
  BY DEF AccountBy, IsMap
<1>2. taken \in [ps -> Nat]
  <2>1. \A p \in ps : InterestOf(account, p, now).interest \in Nat
    BY <1>0, InterestNat DEF Accrual
  <2> QED BY <2>1
<1>3. \A p \in ps : taken[p] = InterestOf(account, p, now).interest
  OBVIOUS
<1>4. /\ KeepsBut(account, after, ps, now) /\ DOMAIN after.jars = DOMAIN account.jars
      /\ \A p \in ps : Due(ApyOf(account, p), p, account.jars[p], now)
            = Due(ApyOf(account, p), p, after.jars[p], now) + taken[p] * MsInYear
  BY <1>0, <1>3, ClaimKeeps
<1>5. AccountBy(after, now)
  BY ClaimJarsType
<1> HIDE DEF taken, after
<1>6. \A p : ApyOf(after, p) = ApyOf(account, p)
  BY <1>4 DEF KeepsBut, ApyOf
<1>7. ASSUME NEW p \in ProductIds
      PROVE  loss[p] \in Nat /\ JarDue(account, p, now) = JarDue(after, p, now) + loss[p]
  <2>1. CASE p \in ps
    <3>1. loss[p] = taken[p] * MsInYear /\ taken[p] \in Nat
      BY <1>2, <2>1
    <3>2. taken[p] * MsInYear \in Nat
      BY <3>1, YearsNat
    <3> QED BY <1>4, <1>6, <2>1, <3>1, <3>2 DEF JarDue
  <2>2. CASE p \notin ps
    <3>1. loss[p] = 0
      BY <2>2
    <3>2. JarDue(after, p, now) = JarDue(account, p, now) /\ JarDue(account, p, now) \in Nat
      BY <1>0, <1>4, <2>2, KeptJarDue, JarDueNat DEF KeepsBut
    <3> HIDE DEF loss
    <3> QED BY <3>1, <3>2
  <2> QED BY <2>1, <2>2
<1>8. Total(taken) \in Nat /\ SumFunctionOnSet(loss, ProductIds) = Total(taken) * MsInYear
  BY <1>1, <1>2, YearsOver
<1> HIDE DEF loss
<1>9. DueIn(account, now) = DueIn(after, now) + SumFunctionOnSet(loss, ProductIds)
  BY <1>0, <1>5, <1>7, DueLoss
<1> QED BY <1>2, <1>8, <1>9 DEF taken, after

\* Its snapshots would restore what it took, if its jars had been cached.
LEMMA ClaimRestores ==
    ASSUME NoScoreBased, TypeInv, NEW account, AccountBy(account, now),
           NEW ps \in SUBSET DOMAIN account.jars, NEW r,
           r.jars = [p \in ps |-> ToRollback(account.jars[p])],
           r.amount = Total([p \in ps |-> InterestOf(account, p, now).interest]),
           \A p \in ps : r.jars[p].cache # NoCache
    PROVE  Restorable(r, ClaimJars(account, ps), now)
<1> DEFINE taken == [p \in ps |-> InterestOf(account, p, now).interest]
           after == ClaimJars(account, ps)
<1>0. now \in Nat
  BY DEF TypeInv
<1>1. taken \in [ps -> Nat] /\ \A p \in ps : taken[p] = InterestOf(account, p, now).interest
  BY ClaimLoses
<1>2. DOMAIN r.jars = ps /\ \A p \in ps : r.jars[p] = ToRollback(account.jars[p])
  OBVIOUS
<1>3. \A p \in ps : account.jars[p].cache # NoCache
  BY <1>2 DEF ToRollback
<1>4. /\ KeepsBut(account, after, ps, now)
      /\ \A p \in ps :
            /\ Due(ApyOf(account, p), p, account.jars[p], now)
                = Due(ApyOf(account, p), p, after.jars[p], now) + taken[p] * MsInYear
            /\ Due(ApyOf(account, p), p, ApplyRollback(after.jars[p], r.jars[p]), now)
                = Due(ApyOf(account, p), p, account.jars[p], now)
  BY <1>0, <1>1, <1>2, <1>3, ClaimKeeps
<1>5. \A p : ApyOf(after, p) = ApyOf(account, p)
  BY <1>4 DEF KeepsBut, ApyOf
<1>6. Total(taken) = r.amount
  OBVIOUS
<1> HIDE DEF taken, after
<1>7. Restores(r, after, now, taken)
  BY <1>2, <1>4, <1>5, <1>6 DEF Restores
<1> QED BY <1>1, <1>2, <1>7 DEF Restorable, after

\* The callback of a failed claim puts its amount back.
LEMMA RestoreGains ==
    ASSUME NEW t \in Nat, NEW account, AccountBy(account, t), NEW r,
           r.timezone \in Timezones \cup {InvalidTimezone}, r.score \in AccountScore,
           Snapshots(r, t), DOMAIN r.jars \subseteq DOMAIN account.jars,
           Restorable(r, account, t)
    PROVE  LET after == RestoreAccount(account, r)
           IN  /\ KeepsBut(account, after, DOMAIN r.jars, t)
               /\ r.amount \in Nat
               /\ DueIn(after, t) = DueIn(account, t) + r.amount * MsInYear
<1> DEFINE jars == [p \in DOMAIN account.jars |->
                IF p \in DOMAIN r.jars THEN ApplyRollback(account.jars[p], r.jars[p])
                ELSE account.jars[p]]
           after == RestoreAccount(account, r)
           D == DOMAIN r.jars
<1>1. after.jars = jars /\ after.features = account.features
  <2>1. after = [account EXCEPT !.jars = jars, !.timezone = r.timezone, !.score = r.score]
    BY DEF RestoreAccount
  <2> HIDE DEF jars, after
  <2> QED BY <2>1 DEF AccountBy
<1>2. AccountBy(after, t)
  BY RestoreAccountType DEF Snapshots
<1>3. PICK taken \in [D -> Nat] : Restores(r, account, t, taken)
  BY DEF Restorable
<1> DEFINE gain == [p \in ProductIds |-> IF p \in D THEN taken[p] * MsInYear ELSE 0]
<1>4. D \in SUBSET ProductIds
  BY DEF Snapshots
<1>5. /\ DOMAIN jars = DOMAIN account.jars
      /\ \A p \in D : jars[p] = ApplyRollback(account.jars[p], r.jars[p])
      /\ \A p \in DOMAIN account.jars \ D : jars[p] = account.jars[p]
  OBVIOUS
<1>6. \A p : ApyOf(after, p) = ApyOf(account, p)
  BY <1>1 DEF ApyOf
<1> HIDE DEF jars, after
<1>7. KeepsBut(account, after, D, t)
  BY <1>1, <1>5 DEF KeepsBut, KeepsJar, SameDue
<1>8. ASSUME NEW p \in ProductIds
      PROVE  gain[p] \in Nat /\ JarDue(after, p, t) = JarDue(account, p, t) + gain[p]
  <2>1. CASE p \in D
    <3>1. gain[p] = taken[p] * MsInYear /\ taken[p] \in Nat
      BY <2>1
    <3>2. taken[p] * MsInYear \in Nat
      BY <3>1, YearsNat
    <3>3. Due(ApyOf(account, p), p, jars[p], t)
            = Due(ApyOf(account, p), p, account.jars[p], t) + taken[p] * MsInYear
      BY <1>3, <1>5, <2>1 DEF Restores
    <3> QED BY <1>1, <1>5, <1>6, <2>1, <3>1, <3>2, <3>3 DEF JarDue
  <2>2. CASE p \notin D
    <3>1. gain[p] = 0
      BY <2>2
    <3>2. JarDue(after, p, t) = JarDue(account, p, t) /\ JarDue(account, p, t) \in Nat
      BY <1>7, <2>2, KeptJarDue, JarDueNat DEF KeepsBut
    <3> HIDE DEF gain
    <3> QED BY <3>1, <3>2
  <2> QED BY <2>1, <2>2
<1>9. Total(taken) \in Nat /\ SumFunctionOnSet(gain, ProductIds) = Total(taken) * MsInYear
  BY <1>4, YearsOver
<1>10. Total(taken) = r.amount
  BY <1>3 DEF Restores
<1> HIDE DEF gain
<1>11. DueIn(after, t) = DueIn(account, t) + SumFunctionOnSet(gain, ProductIds)
  BY <1>2, <1>8, DueLoss
<1> QED BY <1>7, <1>9, <1>10, <1>11 DEF after

\* A snapshot goes on restoring what its claim took while its jars are kept.
LEMMA RestoresKept ==
    ASSUME NEW t \in Nat, NEW x, AccountBy(x, t), NEW y, AccountBy(y, t), NEW S,
           KeepsBut(x, y, S, t), NEW r, Snapshots(r, t),
           DOMAIN r.jars \subseteq DOMAIN x.jars \ S, Restorable(r, x, t),
           NEW q, q.jars = r.jars, q.amount = r.amount
    PROVE  Restorable(q, y, t)
<1> DEFINE D == DOMAIN r.jars
<1>1. PICK taken \in [D -> Nat] : Restores(r, x, t, taken)
  BY DEF Restorable
<1>2. \A p : ApyOf(y, p) = ApyOf(x, p)
  BY DEF KeepsBut, ApyOf
<1>3. ASSUME NEW p \in D
      PROVE  /\ r.jars[p].cache # NoCache
             /\ Due(ApyOf(y, p), p, ApplyRollback(y.jars[p], r.jars[p]), t)
                    = Due(ApyOf(y, p), p, y.jars[p], t) + taken[p] * MsInYear
  <2>1. p \in ProductIds /\ r.jars[p] \in [claim_remainder : Nat, cache : CacheBy(t)]
    BY DEF Snapshots
  <2>2. /\ p \in DOMAIN y.jars
        /\ SameDue(ApyOf(x, p), p, x.jars[p], y.jars[p], t)
    BY <2>1 DEF KeepsBut, KeepsJar
  <2>3. x.jars[p] \in JarBy(t) /\ y.jars[p] \in JarBy(t)
    BY <2>2 DEF AccountBy, JarsBy
  <2>4. ApyOf(x, p) \in Nat
    BY <2>1, ApyNat
  <2>5. /\ r.jars[p].cache # NoCache
        /\ Due(ApyOf(x, p), p, ApplyRollback(x.jars[p], r.jars[p]), t)
                = Due(ApyOf(x, p), p, x.jars[p], t) + taken[p] * MsInYear
    BY <1>1 DEF Restores
  <2>6. Due(ApyOf(x, p), p, ApplyRollback(y.jars[p], r.jars[p]), t)
            = Due(ApyOf(x, p), p, ApplyRollback(x.jars[p], r.jars[p]), t)
    BY <2>1, <2>2, <2>3, <2>4, <2>5, RollbackDue
  <2>7. Due(ApyOf(x, p), p, y.jars[p], t) = Due(ApyOf(x, p), p, x.jars[p], t)
    BY <2>2 DEF SameDue
  <2> QED BY <1>2, <2>5, <2>6, <2>7
<1>4. Restores(q, y, t, taken)
  BY <1>1, <1>3 DEF Restores
<1> QED BY <1>4 DEF Restorable

-----------------------------------------------------------------------------
(* The clock.                                                               *)

\* In one millisecond a jar is due as much more as its deposits yield in it.
LEMMA JarTick ==
    ASSUME NEW t \in Nat, NEW p \in ProductIds, NEW apy \in Nat, NEW jar \in JarBy(t)
    PROVE  /\ SumFunctionOnSet(Pace(apy, p, jar.deposits, t), 1 .. Len(jar.deposits)) \in Nat
           /\ Due(apy, p, jar, t + 1) = Due(apy, p, jar, t)
                + SumFunctionOnSet(Pace(apy, p, jar.deposits, t), 1 .. Len(jar.deposits))
<1> DEFINE pace == SumFunctionOnSet(Pace(apy, p, jar.deposits, t), 1 .. Len(jar.deposits))
           old == Yield(apy, p, jar.deposits, jar.cache.updated_at, t)
           new == Yield(apy, p, jar.deposits, jar.cache.updated_at, t + 1)
           rest == jar.cache.interest * MsInYear
<1>1. /\ jar.deposits \in DepositsBy(t) /\ jar.cache.updated_at \in 0 .. t
      /\ rest \in Nat /\ jar.claim_remainder \in Nat /\ old \in Nat
  BY DueNat
<1>2. pace \in Nat /\ new = old + pace
  <2> DEFINE deposits == jar.deposits
             since == jar.cache.updated_at
  <2>1. deposits \in DepositsBy(t) /\ since \in 0 .. t
    BY <1>1
  <2> HIDE DEF deposits, since
  <2>2. /\ SumFunctionOnSet(Pace(apy, p, deposits, t), 1 .. Len(deposits)) \in Nat
        /\ Yield(apy, p, deposits, since, t + 1) = Yield(apy, p, deposits, since, t)
             + SumFunctionOnSet(Pace(apy, p, deposits, t), 1 .. Len(deposits))
    BY <2>1, YieldTick, Zenon
  <2> QED BY <2>2 DEF deposits, since
<1>3. /\ Due(apy, p, jar, t) = rest + jar.claim_remainder + old
      /\ Due(apy, p, jar, t + 1) = rest + jar.claim_remainder + new
  BY DEF Due
<1> HIDE DEF pace, old, new, rest
<1>4. pace \in Nat /\ Due(apy, p, jar, t + 1) = Due(apy, p, jar, t) + pace
  BY <1>1, <1>2, <1>3
<1> QED BY <1>4 DEF pace

\* What the jars of an account yield in one millisecond, jar by jar.
Paces(account, t) ==
    [p \in ProductIds |->
        IF p \in DOMAIN account.jars
        THEN SumFunctionOnSet(Pace(ApyOf(account, p), p, account.jars[p].deposits, t),
                              1 .. Len(account.jars[p].deposits))
        ELSE 0]

\* So is an account.
LEMMA AccountTick ==
    ASSUME NEW t \in Nat, NEW account, AccountBy(account, t)
    PROVE  /\ \A p \in ProductIds : Paces(account, t)[p] \in Nat
           /\ SumFunctionOnSet(Paces(account, t), ProductIds) \in Nat
           /\ DueIn(account, t + 1)
                = DueIn(account, t) + SumFunctionOnSet(Paces(account, t), ProductIds)
<1> DEFINE pace == Paces(account, t)
<1>1. ASSUME NEW p \in ProductIds
      PROVE  pace[p] \in Nat /\ JarDue(account, p, t + 1) = JarDue(account, p, t) + pace[p]
  <2>1. CASE p \in DOMAIN account.jars
    <3>1. account.jars[p] \in JarBy(t) /\ ApyOf(account, p) \in Nat
      BY <2>1, ApyNat DEF AccountBy, JarsBy
    <3>2. pace[p] = SumFunctionOnSet(Pace(ApyOf(account, p), p, account.jars[p].deposits, t),
                                     1 .. Len(account.jars[p].deposits))
      BY <2>1 DEF Paces
    <3> HIDE DEF pace
    <3>3. /\ pace[p] \in Nat
          /\ Due(ApyOf(account, p), p, account.jars[p], t + 1)
                = Due(ApyOf(account, p), p, account.jars[p], t) + pace[p]
      <4> DEFINE jar == account.jars[p]
                 apy == ApyOf(account, p)
      <4> HIDE DEF jar, apy
      <4>1. jar \in JarBy(t) /\ apy \in Nat
        BY <3>1 DEF jar, apy
      <4>2. LET yield == SumFunctionOnSet(Pace(apy, p, jar.deposits, t), 1 .. Len(jar.deposits))
            IN  yield \in Nat /\ Due(apy, p, jar, t + 1) = Due(apy, p, jar, t) + yield
        BY <4>1, JarTick, Zenon
      <4> QED BY <3>2, <4>2 DEF jar, apy
    <3> QED BY <2>1, <3>3 DEF JarDue
  <2>2. CASE p \notin DOMAIN account.jars
    <3>1. pace[p] = 0
      BY <2>2 DEF Paces
    <3> QED BY <2>2, <3>1 DEF JarDue
  <2> QED BY <2>1, <2>2
<1>2. AccountBy(account, t + 1)
  BY LaterAccount
<1> HIDE DEF pace
<1>3. /\ SumFunctionOnSet(pace, ProductIds) \in Nat
      /\ DueIn(account, t + 1) = DueIn(account, t) + SumFunctionOnSet(pace, ProductIds)
  BY <1>1, <1>2, DueLoss
<1> QED BY <1>1, <1>3 DEF pace

\* A jar yields as much after a rollback as before, so that the snapshot goes
\* on restoring what its claim took while time passes.
LEMMA RestoresTick ==
    ASSUME NEW t \in Nat, NEW account, AccountBy(account, t), NEW r, Snapshots(r, t),
           DOMAIN r.jars \subseteq DOMAIN account.jars, Restorable(r, account, t)
    PROVE  Restorable(r, account, t + 1)
<1> DEFINE D == DOMAIN r.jars
<1>1. PICK taken \in [D -> Nat] : Restores(r, account, t, taken)
  BY DEF Restorable
<1>2. ASSUME NEW p \in D
      PROVE  /\ r.jars[p].cache # NoCache
             /\ Due(ApyOf(account, p), p, ApplyRollback(account.jars[p], r.jars[p]), t + 1)
                  = Due(ApyOf(account, p), p, account.jars[p], t + 1) + taken[p] * MsInYear
  <2> DEFINE apy == ApyOf(account, p)
             jar == account.jars[p]
             back == ApplyRollback(jar, r.jars[p])
             pace == SumFunctionOnSet(Pace(apy, p, jar.deposits, t), 1 .. Len(jar.deposits))
             same == SumFunctionOnSet(Pace(apy, p, back.deposits, t), 1 .. Len(back.deposits))
  <2>1. p \in ProductIds /\ r.jars[p] \in [claim_remainder : Nat, cache : CacheBy(t)]
    BY DEF Snapshots
  <2>2. jar \in JarBy(t) /\ apy \in Nat
    BY <2>1, ApyNat DEF AccountBy, JarsBy
  <2>3. back \in JarBy(t)
    <3> HIDE DEF jar
    <3> QED BY <2>1, <2>2, JarMethods
  <2>4. back.deposits = jar.deposits
    <3> HIDE DEF jar
    <3> QED BY <2>2 DEF ApplyRollback, JarBy
  <2>5. /\ r.jars[p].cache # NoCache
        /\ Due(apy, p, back, t) = Due(apy, p, jar, t) + taken[p] * MsInYear
    BY <1>1 DEF Restores
  <2>6. taken[p] * MsInYear \in Nat
    BY YearsNat
  <2> HIDE DEF apy, jar, back
  <2>7. pace \in Nat /\ Due(apy, p, jar, t + 1) = Due(apy, p, jar, t) + pace
    BY <2>1, <2>2, JarTick
  <2>8. same = pace /\ Due(apy, p, back, t + 1) = Due(apy, p, back, t) + same
    BY <2>1, <2>2, <2>3, <2>4, JarTick
  <2>9. Due(apy, p, jar, t) \in Nat
    BY <2>1, <2>2, DueNat
  <2> HIDE DEF pace, same
  <2>10. Due(apy, p, back, t + 1) = Due(apy, p, jar, t + 1) + taken[p] * MsInYear
    BY <2>5, <2>6, <2>7, <2>8, <2>9
  <2> QED BY <2>5, <2>10 DEF apy, jar, back
<1>3. Restores(r, account, t + 1, taken)
  BY <1>1, <1>2 DEF Restores
<1> QED BY <1>3 DEF Restorable

\* What the ledger counts for a tick is what the jars yield in it.
LEMMA EarnsPace ==
    ASSUME NoScoreBased, TypeInv, NEW a \in AccountIds
    PROVE  /\ Earns(a) \in Nat
           /\ a \in DOMAIN accounts =>
                Earns(a) = SumFunctionOnSet(Paces(accounts[a], now), ProductIds)
           /\ a \notin DOMAIN accounts => Earns(a) = 0
<1> DEFINE rates(p) ==
                [i \in DOMAIN JarsOf(a)[p].deposits |->
                    IF IsEarning(p, JarsOf(a)[p].deposits[i])
                    THEN Rate(EffectiveApy(accounts[a], TermsOf(p), now),
                              JarsOf(a)[p].deposits[i].principal) ELSE 0]
           totals == [p \in JarIds(a) |-> Total(rates(p))]
           paces == Paces(accounts[a], now)
<1>1. Earns(a) = Total(totals)
  BY DEF Earns, SumDeposits
<1>2. CASE a \notin DOMAIN accounts
  <2>1. totals = [p \in {} |-> Total(rates(p))]
    BY <1>2 DEF JarIds
  <2>2. Total(totals) = 0
    <3> HIDE DEF rates
    <3> QED BY <2>1, SumEmpty DEF Total
  <2> QED BY <1>1, <1>2, <2>2
<1>3. CASE a \in DOMAIN accounts
  <2>1. AccountBy(accounts[a], now) /\ now \in Nat
    BY <1>3 DEF TypeInv, AccountsBy
  <2>2. JarIds(a) = DOMAIN accounts[a].jars /\ DOMAIN accounts[a].jars \subseteq ProductIds
    BY <1>3, <2>1 DEF JarIds, JarsOf, AccountBy, IsMap
  <2>3. ASSUME NEW p \in JarIds(a)
        PROVE  Total(rates(p)) = paces[p]
    <3> DEFINE deposits == accounts[a].jars[p].deposits
               pace == Pace(ApyOf(accounts[a], p), p, deposits, now)
    <3>1. p \in DOMAIN accounts[a].jars /\ p \in ProductIds /\ accounts[a].jars[p] \in JarBy(now)
      BY <2>1, <2>2 DEF AccountBy, JarsBy
    <3>2. deposits \in Seq(DepositBy(now))
      BY <3>1 DEF JarBy, DepositsBy
    <3>3. DOMAIN deposits = 1 .. Len(deposits)
      <4> HIDE DEF deposits
      <4> QED BY <3>2
    <3>4. EffectiveApy(accounts[a], TermsOf(p), now) = ApyOf(accounts[a], p)
      BY <3>1, TermsUsed
    <3>5. rates(p) = pace
      BY <3>3, <3>4 DEF JarsOf, Pace, IsEarning
    <3>6. DOMAIN pace = 1 .. Len(deposits)
      BY DEF Pace
    <3>7. paces[p] = SumFunctionOnSet(pace, 1 .. Len(deposits))
      BY <3>1 DEF Paces
    <3> HIDE DEF rates, pace, paces
    <3> QED BY <3>5, <3>6, <3>7 DEF Total
  <2>4. \A p \in ProductIds \ JarIds(a) : paces[p] = 0
    BY <2>2 DEF Paces
  <2>5. \A p \in ProductIds : paces[p] \in Nat
    BY <2>1, AccountTick
  <2>6. SumFunctionOnSet(paces, ProductIds) \in Nat
    BY <2>1, AccountTick
  <2>7. /\ DOMAIN totals = JarIds(a) /\ \A p \in JarIds(a) : totals[p] = paces[p]
    BY <2>3
  <2>8. IsFiniteSet(ProductIds) /\ JarIds(a) \subseteq ProductIds
    BY <2>2, AccountAssumption
  <2> HIDE DEF totals, paces
  <2>9. SumFunctionOnSet(paces, ProductIds) = SumFunctionOnSet(totals, JarIds(a))
    BY <2>4, <2>5, <2>7, <2>8, SumSupport
  <2>10. Earns(a) = SumFunctionOnSet(paces, ProductIds)
    BY <1>1, <2>7, <2>9 DEF Total
  <2> QED BY <1>3, <2>6, <2>10 DEF paces
<1> QED BY <1>2, <1>3

-----------------------------------------------------------------------------
(* The ledger.                                                              *)

\* What is known of the receipts in flight.
Known ==
    \A s \in DOMAIN receipts :
        /\ s \in Slots /\ receipts[s].amount \in Nat
        /\ receipts[s].kind # "fee" => receipts[s].account \in AccountIds

\* Type correctness says as much.
LEMMA ReceiptsKnown == TypeInv => Known
BY ReceiptKinds DEF Known

\* A claim in flight holds the locks of its jars, and their snapshots.
LEMMA ClaimCovers ==
    ASSUME TypeInv, Owned, NEW s \in DOMAIN receipts, receipts[s].kind = "claim",
           NEW a, a = receipts[s].account
    PROVE  /\ a \in AccountIds /\ Snapshots(receipts[s], now)
           /\ DOMAIN receipts[s].jars \subseteq DOMAIN AccountOrNew(a).jars
           /\ \A p \in DOMAIN receipts[s].jars : p \in ProductIds /\ IsLocked(a, p) /\ Covers(s, a, p)
           /\ receipts[s].timezone \in Timezones \cup {InvalidTimezone}
           /\ receipts[s].score \in AccountScore
<1>1. /\ s \in Slots /\ a \in AccountIds /\ IsClaim(receipts[s])
      /\ \A p \in DOMAIN receipts[s].jars : receipts[s].jars[p].cache \in CacheBy(now)
  BY ReceiptKinds
<1>2. ASSUME NEW p \in DOMAIN receipts[s].jars
      PROVE  /\ p \in ProductIds /\ receipts[s].jars[p] \in [claim_remainder : Nat, cache : CacheBy(now)]
             /\ IsLocked(a, p) /\ Covers(s, a, p)
  <2>1. p \in ProductIds /\ receipts[s].jars[p] \in [claim_remainder : Nat, cache : JarCache]
    BY <1>1 DEF IsClaim, HasFootprint, IsMap
  <2>2. receipts[s].jars[p] \in [claim_remainder : Nat, cache : CacheBy(now)]
    BY <1>1, <2>1
  <2>3. Covers(s, a, p) /\ IsLocked(a, p)
    BY <1>1, <2>1 DEF Covers, Owned
  <2> QED BY <2>1, <2>2, <2>3
<1>3. DOMAIN receipts[s].jars \subseteq DOMAIN AccountOrNew(a).jars
  BY <1>2 DEF IsLocked, JarsOf, AccountOrNew
<1>4. receipts[s].timezone \in Timezones \cup {InvalidTimezone} /\ receipts[s].score \in AccountScore
  BY <1>1 DEF IsClaim, Offered
<1> QED BY <1>1, <1>2, <1>3, <1>4 DEF Snapshots

\* The step does not change any receipt but the one in slot s.
ChangedAt(s) ==
    /\ DOMAIN receipts' \ {s} = DOMAIN receipts \ {s}
    /\ \A x \in DOMAIN receipts \ {s} : receipts'[x] = receipts[x]

\* The interest of account a that is on its way in slot s.
ClaimAt(s, a) ==
    IF s \in DOMAIN receipts /\ receipts[s].kind = "claim" /\ receipts[s].account = a
    THEN receipts[s].amount ELSE 0

\* Interest goes on its way, or arrives, with the receipt that changes.
LEMMA ClaimingChange ==
    ASSUME TypeInv, TypeInv', IsFiniteSet(DOMAIN receipts), NEW s, ChangedAt(s), NEW a
    PROVE  /\ Claiming(a) \in Nat /\ Claiming(a)' \in Nat
           /\ ClaimAt(s, a) \in Nat /\ ClaimAt(s, a)' \in Nat
           /\ Claiming(a)' + ClaimAt(s, a) = Claiming(a) + ClaimAt(s, a)'
<1> DEFINE S == {x \in DOMAIN receipts : receipts[x].kind = "claim" /\ receipts[x].account = a}
           R == {x \in DOMAIN receipts' : receipts'[x].kind = "claim" /\ receipts'[x].account = a}
           f == [x \in S |-> receipts[x].amount]
           g == [x \in R |-> receipts'[x].amount]
<1>1. \A x \in DOMAIN receipts : receipts[x].amount \in Nat
  BY ReceiptsKnown DEF Known
<1>2. \A x \in DOMAIN receipts' : receipts'[x].amount \in Nat
  <2>1. TypeInv' => Known'
    BY ReceiptsKnown, PTL
  <2> QED BY <2>1 DEF Known
<1>3. IsFiniteSet(S)
  BY FS_Subset
<1>4. /\ \A x \in S : f[x] \in Int /\ f[x] \in Nat /\ f[x] = receipts[x].amount
      /\ \A x \in R : g[x] \in Int /\ g[x] \in Nat /\ g[x] = receipts'[x].amount
  BY <1>1, <1>2
<1>5. S \ {s} = R \ {s} /\ \A x \in S \ {s} : f[x] = g[x]
  BY DEF ChangedAt
<1>6. Claiming(a) = SumFunctionOnSet(f, S) /\ Claiming(a)' = SumFunctionOnSet(g, R)
  BY DEF Claiming, Total
<1>7. /\ ClaimAt(s, a) = IF s \in S THEN f[s] ELSE 0
      /\ ClaimAt(s, a)' = IF s \in R THEN g[s] ELSE 0
  BY <1>4 DEF ClaimAt
<1> HIDE DEF S, R, f, g
<1>8. /\ IsFiniteSet(R)
      /\ SumFunctionOnSet(f, S) \in Int /\ SumFunctionOnSet(g, R) \in Int
      /\ SumFunctionOnSet(g, R) = SumFunctionOnSet(f, S)
                - (IF s \in S THEN f[s] ELSE 0) + (IF s \in R THEN g[s] ELSE 0)
  <2>1. (\A x \in S : f[x] \in Int) /\ (\A x \in R : g[x] \in Int)
    BY <1>4
  <2>2. S \ {s} = R \ {s} /\ \A x \in S \ {s} : f[x] = g[x]
    BY <1>5
  <2> QED BY ONLY <1>3, <2>1, <2>2, SumChange
<1>9. SumFunctionOnSet(f, S) \in Nat /\ SumFunctionOnSet(g, R) \in Nat
  BY <1>3, <1>4, <1>8, SumNat
<1>10. ClaimAt(s, a) \in Nat /\ ClaimAt(s, a)' \in Nat
  BY <1>4, <1>7
<1> QED BY <1>6, <1>7, <1>8, <1>9, <1>10

\* A step in which no callback of a successful payout of a runs pays nothing
\* and lets nothing leave.
LEMMA NothingFinishes ==
    ASSUME NEW a, NEW s, ChangedAt(s),
           s \in DOMAIN receipts \ DOMAIN receipts' =>
                \/ receipts[s].account # a \/ receipts[s].status # "succeeded"
                \/ receipts[s].kind \notin {"claim", "withdraw", "restake"}
    PROVE  PaidNow(a) = 0 /\ Leaving(a) = 0
<1>1. Finishing(a, {"claim"}) = {} /\ Finishing(a, {"withdraw", "restake"}) = {}
  BY DEF Finishing, ChangedAt
<1>2. \A f : DOMAIN f = {} => Total(f) = 0
  BY SumEmpty DEF Total
<1> QED BY <1>1, <1>2 DEF PaidNow, Leaving

\* The callback of a claim that was paid books what it paid.
LEMMA ClaimFinishes ==
    ASSUME TypeInv, NEW s \in DOMAIN receipts, Consume(s), receipts[s].kind = "claim",
           receipts[s].status = "succeeded", NEW a, a = receipts[s].account
    PROVE  PaidNow(a) = receipts[s].amount /\ Leaving(a) = 0
<1>1. DOMAIN receipts' = DOMAIN receipts \ {s}
  BY ConsumeType
<1>2. Finishing(a, {"claim"}) = {s} /\ Finishing(a, {"withdraw", "restake"}) = {}
  BY <1>1 DEF Finishing
<1>3. \A f : DOMAIN f = {} => Total(f) = 0
  BY SumEmpty DEF Total
<1> DEFINE f == [x \in {s} |-> receipts[x].amount]
<1>4. f[s] = receipts[s].amount /\ f[s] \in Int /\ DOMAIN f = {s}
  BY ReceiptsKnown DEF Known
<1>5. PaidNow(a) = Total(f)
  BY <1>2 DEF PaidNow
<1> HIDE DEF f
<1>6. Total(f) = f[s]
  BY <1>4, SumSingle DEF Total
<1> QED BY <1>2, <1>3, <1>4, <1>5, <1>6 DEF Leaving

\* The callback of a withdrawal or a restake that was paid lets the deposits
\* leave with what they yielded.
LEMMA PayoutFinishes ==
    ASSUME NoScoreBased, TypeInv, NEW s \in DOMAIN receipts, Consume(s), IsPayout(receipts[s]),
           receipts[s].status = "succeeded", NEW a, a = receipts[s].account, a \in DOMAIN accounts,
           CanCleanUpJars(accounts[a], PartitionOf(receipts[s]))
    PROVE  /\ PaidNow(a) = 0
           /\ Leaving(a) = SumFunctionOnSet(LeftWith(accounts[a], PartitionOf(receipts[s]), now),
                                            ProductIds)
<1> DEFINE account == accounts[a]
           partition == PartitionOf(receipts[s])
           D == DOMAIN receipts[s].jars
           left == LeftWith(account, partition, now)
           shares(p) ==
                [i \in 1 .. receipts[s].jars[p].partition_index |->
                    Rate(EffectiveApy(account, TermsOf(p), now),
                         JarsOf(a)[p].deposits[i].principal)
                        * InterestTerm(account, TermsOf(p), JarsOf(a)[p],
                                       JarsOf(a)[p].deposits[i], now)]
           totals == [p \in D |-> Total(shares(p))]
           f == [x \in {s} |-> Total([p \in DOMAIN receipts[x].jars |->
                    LET jar == JarsOf(a)[p]
                    IN  Total([i \in 1 .. receipts[x].jars[p].partition_index |->
                            Rate(EffectiveApy(accounts[a], TermsOf(p), now),
                                 jar.deposits[i].principal)
                                * InterestTerm(accounts[a], TermsOf(p), jar, jar.deposits[i], now)])])]
<1>1. DOMAIN receipts' = DOMAIN receipts \ {s}
  BY ConsumeType
<1>2. Finishing(a, {"claim"}) = {} /\ Finishing(a, {"withdraw", "restake"}) = {s}
  BY <1>1 DEF Finishing, IsPayout
<1>3. PaidNow(a) = 0
  <2>1. \A g : DOMAIN g = {} => Total(g) = 0
    BY SumEmpty DEF Total
  <2> QED BY <1>2, <2>1 DEF PaidNow
<1>4. Leaving(a) = Total(f)
  BY <1>2 DEF Leaving
<1>5. DOMAIN f = {s} /\ f[s] = Total(totals)
  OBVIOUS
<1>6. /\ AccountBy(account, now) /\ now \in Nat
      /\ DOMAIN partition = D /\ D \subseteq DOMAIN account.jars /\ D \subseteq ProductIds
      /\ \A p \in D : partition[p] = receipts[s].jars[p].partition_index /\ partition[p] \in Nat
  <2>1. AccountBy(account, now) /\ now \in Nat
    BY DEF TypeInv, AccountsBy
  <2>2. \A p \in DOMAIN partition : partition[p] \in Nat
    BY PartitionType DEF IsPayout
  <2>3. DOMAIN partition = D /\ \A p \in D : partition[p] = receipts[s].jars[p].partition_index
    BY DEF PartitionOf
  <2>4. D \subseteq DOMAIN account.jars
    BY <2>3 DEF CanCleanUpJars
  <2> QED BY <2>1, <2>2, <2>3, <2>4 DEF AccountBy, IsMap
<1>7. ASSUME NEW p \in D
      PROVE  Total(shares(p)) = left[p]
  <2> DEFINE jar == account.jars[p]
             yields == Yields(ApyOf(account, p), p, jar.deposits, jar.cache.updated_at, now)
             n == partition[p]
  <2>1. /\ p \in ProductIds /\ jar \in JarBy(now) /\ n \in Nat
        /\ n = receipts[s].jars[p].partition_index
    BY <1>6 DEF AccountBy, JarsBy
  <2>2. jar.deposits \in Seq(DepositBy(now)) /\ n <= Len(jar.deposits)
    BY <1>6, <2>1 DEF JarBy, DepositsBy, CanCleanUpJars, CanCleanUp
  <2>3. left[p] = SumFunctionOnSet(yields, 1 .. n)
    BY <1>6, <2>1 DEF LeftWith
  <2>4. /\ EffectiveApy(account, TermsOf(p), now) = ApyOf(account, p)
        /\ \A deposit : InterestTerm(account, TermsOf(p), jar, deposit, now)
                = Waited(p, deposit, jar.cache.updated_at, now)
    <3> HIDE DEF jar, account
    <3> QED BY <2>1, TermsUsed
  <2>5. DOMAIN shares(p) = 1 .. n
    BY <2>1, SMTT(20)
  <2>6. \A i \in 1 .. n : shares(p)[i] = yields[i]
    <3> SUFFICES ASSUME NEW i \in 1 .. n PROVE shares(p)[i] = yields[i]
      OBVIOUS
    <3>1. i \in 1 .. Len(jar.deposits)
      <4> HIDE DEF jar, n
      <4>1. Len(jar.deposits) \in Nat
        BY <2>2
      <4> QED BY <2>1, <2>2, <4>1
    <3>2. yields[i] = Rate(ApyOf(account, p), jar.deposits[i].principal)
                        * Waited(p, jar.deposits[i], jar.cache.updated_at, now)
      BY <3>1 DEF Yields
    <3>3. shares(p)[i] = Rate(EffectiveApy(account, TermsOf(p), now), jar.deposits[i].principal)
                        * InterestTerm(account, TermsOf(p), jar, jar.deposits[i], now)
      BY <2>1 DEF JarsOf
    <3> QED BY <2>4, <3>2, <3>3
  <2> HIDE DEF shares, yields, left, n
  <2>7. IsFiniteSet(1 .. n)
    BY <2>1, FS_Interval
  <2>8. Total(shares(p)) = SumFunctionOnSet(yields, 1 .. n)
    BY <2>5, <2>6, <2>7, SumCongruent DEF Total
  <2> QED BY <2>3, <2>8
<1>8. /\ \A p \in ProductIds \ D : left[p] = 0
      /\ \A p \in ProductIds : left[p] \in Int
      /\ SumFunctionOnSet(left, ProductIds) \in Nat
  <2>1. SumFunctionOnSet(left, ProductIds) \in Nat
    <3>1. CanCleanUpJars(account, partition)
      OBVIOUS
    <3>2. \A p \in DOMAIN partition : partition[p] \in Nat
      BY <1>6
    <3> HIDE DEF account, partition, left
    <3>3. SumFunctionOnSet(LeftWith(account, partition, now), ProductIds) \in Nat
      BY <1>6, <3>1, <3>2, CleanUpLoses
    <3> QED BY <3>3 DEF left
  <2>2. ASSUME NEW p \in D
        PROVE  left[p] \in Int
    <3> DEFINE jar == account.jars[p]
    <3>1. /\ p \in ProductIds /\ jar \in JarBy(now) /\ partition[p] \in Nat
          /\ CanCleanUp(jar, partition[p]) /\ ApyOf(account, p) \in Nat
      BY <1>6, ApyNat DEF AccountBy, JarsBy, CanCleanUpJars
    <3>2. left[p] = SumFunctionOnSet(
                Yields(ApyOf(account, p), p, jar.deposits, jar.cache.updated_at, now),
                1 .. partition[p])
      BY <1>6, <3>1 DEF LeftWith
    <3> HIDE DEF jar, account, left, partition
    <3> QED BY <1>6, <3>1, <3>2, CleanUpDue
  <2>3. \A p \in ProductIds \ D : left[p] = 0
    BY <1>6 DEF LeftWith
  <2> QED BY <2>1, <2>2, <2>3
<1>9. DOMAIN totals = D /\ \A p \in D : totals[p] = left[p]
  BY <1>7
<1>10. IsFiniteSet(ProductIds)
  BY AccountAssumption
<1> HIDE DEF totals, left, f, D
<1>11. SumFunctionOnSet(left, ProductIds) = SumFunctionOnSet(totals, D)
  BY <1>6, <1>8, <1>9, <1>10, SumSupport
<1>12. f[s] = SumFunctionOnSet(left, ProductIds) /\ f[s] \in Int
  BY <1>5, <1>8, <1>9, <1>11 DEF Total
<1>13. Total(f) = f[s]
  BY <1>5, <1>12, SumSingle DEF Total
<1> QED BY <1>3, <1>4, <1>12, <1>13 DEF left

\* The jars that a step closes take along their fractions of a unit.
LEMMA ClosingGone ==
    ASSUME TypeInv, NEW a \in DOMAIN accounts, NEW after, accounts'[a] = after
    PROVE  Closing(a) = SumFunctionOnSet(GoneWith(accounts[a], after), ProductIds)
<1> DEFINE gone == DOMAIN accounts[a].jars \ DOMAIN after.jars
           f == [p \in gone |-> JarsOf(a)[p].claim_remainder]
           g == GoneWith(accounts[a], after)
<1>1. Closing(a) = SumFunctionOnSet(f, gone)
  BY DEF Closing, JarIds, JarsOf, Total
<1>2. AccountBy(accounts[a], now)
  BY DEF TypeInv, AccountsBy
<1>3. gone \in SUBSET ProductIds
  BY <1>2 DEF AccountBy, IsMap
<1>4. \A p \in gone : g[p] = f[p] /\ g[p] \in Int
  <2> SUFFICES ASSUME NEW p \in gone PROVE g[p] = f[p] /\ g[p] \in Int
    OBVIOUS
  <2>1. accounts[a].jars[p] \in JarBy(now) /\ p \in ProductIds
    BY <1>2, <1>3 DEF AccountBy, JarsBy
  <2>2. accounts[a].jars[p].claim_remainder \in Nat
    BY <2>1 DEF JarBy
  <2>3. g[p] = accounts[a].jars[p].claim_remainder /\ f[p] = accounts[a].jars[p].claim_remainder
    BY <2>1 DEF GoneWith, JarsOf
  <2> QED BY <2>2, <2>3
<1>5. \A p \in ProductIds \ gone : g[p] = 0
  BY DEF GoneWith
<1> HIDE DEF gone, f, g
<1>6. SumFunctionOnSet(g, ProductIds) = SumFunctionOnSet(f, gone)
  BY <1>3, <1>4, <1>5, AccountAssumption, SumSupport
<1> QED BY <1>1, <1>6 DEF g

-----------------------------------------------------------------------------
(* The balance of one account over a step.                                  *)

\* What leaves account a, or is closed with a jar of it, in this step.
Gone(a) == IF a \in DOMAIN accounts THEN Leaving(a) + Closing(a) ELSE 0

\* What the account was due or had on its way, it is due, has on its way, was
\* paid, or has given up.
Books(a) ==
    /\ Gone(a) \in Nat /\ PaidNow(a) \in Nat
    /\ Claiming(a) \in Nat /\ Claiming(a)' \in Nat
    /\ DueIn(AccountOrNew(a), now) + Claiming(a) * MsInYear
        = DueIn(AccountOrNew(a), now)' + (Claiming(a)' + PaidNow(a)) * MsInYear + Gone(a)

\* Every account is due a natural number.
DuesKnown == \A a \in AccountIds : DueIn(AccountOrNew(a), now) \in Nat

\* Type correctness says as much.
LEMMA DuesAreKnown == TypeInv => DuesKnown
<1> SUFFICES ASSUME TypeInv, NEW a \in AccountIds PROVE DueIn(AccountOrNew(a), now) \in Nat
  BY DEF DuesKnown
<1>1. now \in Nat /\ AccountBy(AccountOrNew(a), now)
  BY AccountOrNewType DEF TypeInv
<1> DEFINE account == AccountOrNew(a)
<1> HIDE DEF account
<1>2. DueIn(account, now) \in Nat
  BY <1>1, JarDueNat DEF account
<1> QED BY <1>2 DEF account

\* If the books of all accounts agree, the ledger goes on balancing.
LEMMA BooksBalance ==
    ASSUME NoScoreBased, InterestInv, TypeInv', now' = now, Audit,
           \A a \in AccountIds : Books(a)
    PROVE  LedgerType' /\ Balanced'
<1>1. TypeInv /\ DuesKnown /\ DuesKnown'
  <2>1. TypeInv' => DuesKnown'
    BY DuesAreKnown, PTL
  <2> QED BY <2>1, DuesAreKnown DEF InterestInv, LockInv
<1>2. ASSUME NEW a \in AccountIds
      PROVE  /\ earned'[a] = earned[a] /\ earned[a] \in Nat
             /\ paid'[a] = paid[a] + PaidNow(a) /\ paid[a] \in Nat /\ PaidNow(a) \in Nat
             /\ forgone'[a] = forgone[a] + Gone(a) /\ forgone[a] \in Nat /\ Gone(a) \in Nat
  <2>1. /\ earned[a] \in Nat /\ paid[a] \in Nat /\ forgone[a] \in Nat
        /\ Gone(a) \in Nat /\ PaidNow(a) \in Nat
    BY DEF InterestInv, LedgerType, Books
  <2>2. Earns(a) \in Nat /\ now \in Nat
    BY <1>1, EarnsPace DEF TypeInv
  <2>3. earned'[a] = earned[a] + (now' - now) * Earns(a)
    BY DEF Audit
  <2>4. \A n, e \in Nat : (n - n) * e = 0
    OBVIOUS
  <2>5. paid'[a] = paid[a] + PaidNow(a) /\ forgone'[a] = forgone[a] + Gone(a)
    BY DEF Audit, Gone
  <2>6. earned'[a] = earned[a]
    BY <2>1, <2>2, <2>3, <2>4
  <2> QED BY <2>1, <2>5, <2>6
<1>3. LedgerType'
  <2>1. /\ earned' = [a \in AccountIds |-> earned'[a]]
        /\ paid' = [a \in AccountIds |-> paid'[a]]
        /\ forgone' = [a \in AccountIds |-> forgone'[a]]
    BY DEF Audit
  <2>2. \A a \in AccountIds : earned'[a] \in Nat /\ paid'[a] \in Nat /\ forgone'[a] \in Nat
    BY <1>2
  <2> QED BY <2>1, <2>2 DEF LedgerType
<1>4. ASSUME NEW a \in AccountIds
      PROVE  (InterestHad(a) * MsInYear + DueIn(AccountOrNew(a), now) + forgone[a] = earned[a])'
  <2> DEFINE due == DueIn(AccountOrNew(a), now)
             duo == DueIn(AccountOrNew(a), now)'
             claim == Claiming(a)
             later == Claiming(a)'
  <2>1. due \in Nat /\ duo \in Nat
    BY <1>1 DEF DuesKnown
  <2>2. /\ claim \in Nat /\ later \in Nat
        /\ due + claim * MsInYear = duo + (later + PaidNow(a)) * MsInYear + Gone(a)
    BY DEF Books
  <2>3. (paid[a] + claim) * MsInYear + due + forgone[a] = earned[a]
    BY DEF InterestInv, Balanced, InterestHad
  <2>4. \A m, n, k \in Nat : /\ m * MsInYear \in Nat
                             /\ (m + n) * MsInYear = m * MsInYear + n * MsInYear
                             /\ (m + k + n) * MsInYear = m * MsInYear + (n + k) * MsInYear
    BY InterestAssumption
  <2>5. InterestHad(a)' = paid[a] + PaidNow(a) + later
    BY <1>2 DEF InterestHad
  <2> HIDE DEF due, duo, claim, later
  <2>6. /\ (paid[a] + claim) * MsInYear = paid[a] * MsInYear + claim * MsInYear
        /\ (paid[a] + PaidNow(a) + later) * MsInYear
                = paid[a] * MsInYear + (later + PaidNow(a)) * MsInYear
        /\ paid[a] * MsInYear \in Nat /\ claim * MsInYear \in Nat
        /\ (later + PaidNow(a)) * MsInYear \in Nat
    BY <1>2, <2>2, <2>4
  <2> DEFINE all == (paid[a] + claim) * MsInYear
             altogether == (paid[a] + PaidNow(a) + later) * MsInYear
             paidY == paid[a] * MsInYear
             claimY == claim * MsInYear
             laterY == (later + PaidNow(a)) * MsInYear
  <2>7. /\ all = paidY + claimY /\ altogether = paidY + laterY
        /\ paidY \in Nat /\ claimY \in Nat /\ laterY \in Nat
        /\ due + claimY = duo + laterY + Gone(a)
        /\ all + due + forgone[a] = earned[a]
    BY <2>2, <2>3, <2>6
  <2>8. forgone[a] \in Nat /\ Gone(a) \in Nat /\ earned[a] \in Nat
    BY <1>2
  <2> HIDE DEF all, altogether, paidY, claimY, laterY
  <2>9. altogether + duo + (forgone[a] + Gone(a)) = earned[a]
    BY <2>1, <2>7, <2>8
  <2> QED BY <1>2, <2>5, <2>9 DEF duo, altogether
<1> QED BY <1>3, <1>4 DEF Balanced

\* The books of an account agree if they do at the receipt that changes.
LEMMA BooksAt ==
    ASSUME InterestInv, TypeInv', now' = now, NEW s, ChangedAt(s), NEW a \in AccountIds,
           NEW before, before = AccountOrNew(a), NEW after, after = AccountOrNew(a)',
           Gone(a) \in Nat, PaidNow(a) \in Nat,
           DueIn(before, now) + ClaimAt(s, a) * MsInYear
                = DueIn(after, now) + (ClaimAt(s, a)' + PaidNow(a)) * MsInYear + Gone(a)
    PROVE  Books(a)
<1> DEFINE due == DueIn(before, now)
           duo == DueIn(after, now)
           claim == Claiming(a)
           later == Claiming(a)'
           here == ClaimAt(s, a)
           there == ClaimAt(s, a)'
<1>1. TypeInv /\ DuesKnown /\ DuesKnown'
  <2>1. TypeInv' => DuesKnown'
    BY DuesAreKnown, PTL
  <2> QED BY <2>1, DuesAreKnown DEF InterestInv, LockInv
<1>2. due \in Nat /\ duo \in Nat /\ duo = DueIn(AccountOrNew(a), now)'
      /\ due = DueIn(AccountOrNew(a), now)
  BY <1>1 DEF DuesKnown
<1>3. /\ claim \in Nat /\ later \in Nat /\ here \in Nat /\ there \in Nat
      /\ later + here = claim + there
  BY <1>1, ClaimingChange DEF InterestInv
<1>4. due + here * MsInYear = duo + (there + PaidNow(a)) * MsInYear + Gone(a)
  OBVIOUS
<1> HIDE DEF due, duo, claim, later, here, there
<1>5. \A m, n \in Nat : m * MsInYear \in Nat /\ (m + n) * MsInYear = m * MsInYear + n * MsInYear
  BY InterestAssumption
<1> DEFINE laterY == later * MsInYear
           hereY == here * MsInYear
           claimY == claim * MsInYear
           thereY == there * MsInYear
           paidY == PaidNow(a) * MsInYear
<1>6. laterY + hereY = claimY + thereY
  <2>1. /\ (later + here) * MsInYear = laterY + hereY
        /\ (claim + there) * MsInYear = claimY + thereY
    BY <1>3, <1>5
  <2> QED BY <1>3, <2>1
<1>7. /\ (there + PaidNow(a)) * MsInYear = thereY + paidY
      /\ (later + PaidNow(a)) * MsInYear = laterY + paidY
      /\ laterY \in Nat /\ hereY \in Nat /\ claimY \in Nat /\ thereY \in Nat /\ paidY \in Nat
  BY <1>3, <1>5
<1>8. due + hereY = duo + (thereY + paidY) + Gone(a)
  BY <1>4, <1>7
<1>9. due + claimY = duo + (laterY + paidY) + Gone(a)
  <2> HIDE DEF laterY, hereY, claimY, thereY, paidY
  <2> QED BY <1>2, <1>6, <1>7, <1>8
<1>10. due + claim * MsInYear = duo + (later + PaidNow(a)) * MsInYear + Gone(a)
  BY <1>7, <1>9
<1> QED BY <1>2, <1>3, <1>10 DEF Books, due, duo, claim, later

\* They do if no payout of the account succeeds in this step, no jar of it is
\* closed, and what it is due changes by what it has on its way.
LEMMA QuietBooks ==
    ASSUME InterestInv, TypeInv', now' = now, NEW s, ChangedAt(s), NEW a \in AccountIds,
           NEW before, before = AccountOrNew(a), NEW after, after = AccountOrNew(a)',
           a \in DOMAIN accounts => a \in DOMAIN accounts',
           DOMAIN before.jars \subseteq DOMAIN after.jars,
           s \in DOMAIN receipts \ DOMAIN receipts' =>
                \/ receipts[s].account # a \/ receipts[s].status # "succeeded"
                \/ receipts[s].kind \notin {"claim", "withdraw", "restake"},
           DueIn(before, now) + ClaimAt(s, a) * MsInYear
                = DueIn(after, now) + ClaimAt(s, a)' * MsInYear
    PROVE  Books(a)
<1>1. PaidNow(a) = 0 /\ Leaving(a) = 0
  BY NothingFinishes
<1>2. Gone(a) = 0
  <2>1. CASE a \in DOMAIN accounts
    <3>1. before = accounts[a] /\ after = accounts'[a] /\ TypeInv
      BY <2>1 DEF AccountOrNew, InterestInv, LockInv
    <3>2. \A p \in ProductIds : GoneWith(before, after)[p] = 0
      BY DEF GoneWith
    <3>3. Closing(a) = SumFunctionOnSet(GoneWith(before, after), ProductIds)
      BY <2>1, <3>1, ClosingGone
    <3>4. Closing(a) = 0
      BY <3>2, <3>3, AccountAssumption, SumZero
    <3> QED BY <1>1, <3>4 DEF Gone
  <2>2. CASE a \notin DOMAIN accounts
    BY <2>2 DEF Gone
  <2> QED BY <2>1, <2>2
<1>3. /\ DueIn(after, now) \in Nat
      /\ ClaimAt(s, a) \in Nat /\ ClaimAt(s, a)' \in Nat
  <2>1. TypeInv /\ DuesKnown'
    <3>1. TypeInv' => DuesKnown'
      BY DuesAreKnown, PTL
    <3> QED BY <3>1 DEF InterestInv, LockInv
  <2>2. ClaimAt(s, a) \in Nat /\ ClaimAt(s, a)' \in Nat
    BY <2>1, ClaimingChange DEF InterestInv
  <2> QED BY <2>1, <2>2 DEF DuesKnown
<1>4. ClaimAt(s, a)' + PaidNow(a) = ClaimAt(s, a)'
  BY <1>1, <1>3
<1>5. ClaimAt(s, a)' * MsInYear \in Nat
  BY <1>3, YearsNat
<1>6. DueIn(before, now) + ClaimAt(s, a) * MsInYear
        = DueIn(after, now) + (ClaimAt(s, a)' + PaidNow(a)) * MsInYear + Gone(a)
  BY <1>2, <1>3, <1>4, <1>5
<1> QED BY <1>1, <1>2, <1>6, BooksAt

-----------------------------------------------------------------------------
(* What a step does to the account it is about, and to the others.          *)

\* The part of the invariant that is about interest.
InterestKept == LedgerType' /\ Balanced' /\ ClaimsRestorable'

\* The receipts that stay, stay what they are.
ReceiptsStay ==
    \A q \in DOMAIN receipts \cap DOMAIN receipts' : receipts'[q] = receipts[q]

\* Account a becomes after.
LEMMA Written ==
    ASSUME TypeInv, now' = now, NEW a \in AccountIds, NEW after, AccountBy(after, now),
           SetAccount(a, after)
    PROVE  /\ AccountOrNew(a)' = after /\ a \in DOMAIN accounts'
           /\ \A b \in AccountIds : b # a => AccountOrNew(b)' = AccountOrNew(b)
           /\ DOMAIN accounts \subseteq DOMAIN accounts'
<1>1. /\ DOMAIN accounts' = DOMAIN accounts \cup {a}
      /\ \A b \in DOMAIN accounts \cup {a} :
            accounts'[b] = IF b = a THEN after ELSE accounts[b]
  BY SetAccountType
<1> QED BY <1>1 DEF AccountOrNew

\* The books of an account that a step is not about.
LEMMA OtherBooks ==
    ASSUME InterestInv, TypeInv', now' = now, NEW s, ChangedAt(s), NEW a \in AccountIds,
           AccountOrNew(a)' = AccountOrNew(a), DOMAIN accounts \subseteq DOMAIN accounts',
           ClaimAt(s, a)' = ClaimAt(s, a),
           s \in DOMAIN receipts \ DOMAIN receipts' =>
                receipts[s].kind \in {"stake", "fee"} \/ receipts[s].account # a
    PROVE  Books(a)
<1>1. PICK before : before = AccountOrNew(a)
  OBVIOUS
<1>2. before = AccountOrNew(a)'
  BY <1>1
<1>3. DueIn(before, now) + ClaimAt(s, a) * MsInYear = DueIn(before, now) + ClaimAt(s, a)' * MsInYear
  OBVIOUS
<1>4. DOMAIN before.jars \subseteq DOMAIN before.jars
  OBVIOUS
<1>5. s \in DOMAIN receipts \ DOMAIN receipts' =>
                \/ receipts[s].account # a \/ receipts[s].status # "succeeded"
                \/ receipts[s].kind \notin {"claim", "withdraw", "restake"}
  OBVIOUS
<1> QED BY <1>1, <1>2, <1>3, <1>4, <1>5, QuietBooks

\* A step that writes account a keeps the invariant if the books of a agree
\* and every claim in flight still restores what it took.
LEMMA Touched ==
    ASSUME NoScoreBased, InterestInv, TypeInv', now' = now, Audit,
           NEW a \in AccountIds, NEW before, before = AccountOrNew(a),
           NEW after, AccountBy(after, now), SetAccount(a, after),
           NEW S, KeepsBut(before, after, S, now),
           NEW s, ChangedAt(s), ReceiptsStay,
           s \in DOMAIN receipts \ DOMAIN receipts' =>
                receipts[s].kind \in {"stake", "fee"} \/ receipts[s].account = a,
           s \in DOMAIN receipts' \ DOMAIN receipts =>
                \/ receipts'[s].kind \in {"stake", "fee", "withdraw", "restake"}
                \/ receipts'[s].account = a /\ Restorable(receipts'[s], after, now),
           \A q \in DOMAIN receipts \cap DOMAIN receipts' :
                receipts[q].kind = "claim" /\ receipts[q].account = a =>
                    DOMAIN receipts[q].jars \cap S = {},
           Books(a)
    PROVE  InterestKept
<1>1. /\ TypeInv /\ Owned /\ now \in Nat /\ ClaimsRestorable
      /\ AccountBy(before, now)
  BY AccountOrNewType DEF InterestInv, LockInv, TypeInv
<1>2. /\ AccountOrNew(a)' = after
      /\ \A b \in AccountIds : b # a => AccountOrNew(b)' = AccountOrNew(b)
      /\ DOMAIN accounts \subseteq DOMAIN accounts'
  BY <1>1, Written
<1>3. ASSUME NEW b \in AccountIds
      PROVE  Books(b)
  <2>1. CASE b = a
    BY <2>1
  <2>2. CASE b # a
    <3>1. ClaimAt(s, b)' = ClaimAt(s, b)
      BY <2>2 DEF ClaimAt, ReceiptsStay
    <3> QED BY <1>2, <2>2, <3>1, OtherBooks
  <2> QED BY <2>1, <2>2
<1>4. LedgerType' /\ Balanced'
  BY <1>3, BooksBalance
<1>5. ASSUME NEW q \in DOMAIN receipts', NEW b \in AccountIds,
             receipts'[q].kind = "claim", receipts'[q].account = b
      PROVE  Restorable(receipts'[q], AccountOrNew(b)', now)
  <2>1. CASE q \notin DOMAIN receipts
    <3>1. q = s
      BY <2>1 DEF ChangedAt
    <3>2. receipts'[q].account = a /\ Restorable(receipts'[q], after, now)
      BY <1>5, <2>1, <3>1
    <3>3. b = a /\ AccountOrNew(b)' = after
      BY <1>2, <1>5, <3>2
    <3> QED BY <3>2, <3>3
  <2>2. CASE q \in DOMAIN receipts
    <3>1. receipts'[q] = receipts[q]
      BY <2>2 DEF ReceiptsStay
    <3>2. b = receipts[q].account
      BY <1>5, <3>1
    <3>3. /\ b \in AccountIds /\ Snapshots(receipts[q], now)
          /\ DOMAIN receipts[q].jars \subseteq DOMAIN AccountOrNew(b).jars
      BY <1>1, <1>5, <2>2, <3>1, <3>2, ClaimCovers
    <3>4. Restorable(receipts[q], AccountOrNew(b), now)
      BY <1>1, <1>5, <2>2, <3>1, <3>2 DEF ClaimsRestorable
    <3>5. CASE b = a
      <4>1. PICK r : r = receipts[q]
        OBVIOUS
      <4>2. DOMAIN r.jars \subseteq DOMAIN before.jars \ S
        BY <1>5, <2>2, <3>1, <3>2, <3>3, <3>5, <4>1
      <4>3. Snapshots(r, now) /\ Restorable(r, before, now)
        BY <3>3, <3>4, <3>5, <4>1
      <4>4. Restorable(r, after, now)
        BY <1>1, <4>2, <4>3, RestoresKept
      <4> QED BY <1>2, <3>1, <3>2, <3>5, <4>1, <4>4
    <3>6. CASE b # a
      <4>1. AccountOrNew(b)' = AccountOrNew(b)
        BY <1>2, <3>3, <3>6
      <4> QED BY <3>1, <3>2, <3>4, <4>1
    <3> QED BY <3>5, <3>6
  <2> QED BY <2>1, <2>2
<1>6. ClaimsRestorable'
  BY <1>5 DEF ClaimsRestorable
<1> QED BY <1>4, <1>6 DEF InterestKept

\* A step that writes no account keeps it if no payout begins or ends.
LEMMA Untouched ==
    ASSUME NoScoreBased, InterestInv, TypeInv', now' = now, Audit, UNCHANGED accounts,
           NEW s, ChangedAt(s),
           s \in DOMAIN receipts \ DOMAIN receipts' => receipts[s].kind \in {"stake", "fee"},
           s \in DOMAIN receipts' \ DOMAIN receipts => receipts'[s].kind \in {"stake", "fee"},
           s \in DOMAIN receipts \cap DOMAIN receipts' => SameRequest(receipts[s], receipts'[s])
    PROVE  InterestKept
<1>1. TypeInv /\ Owned /\ now \in Nat /\ ClaimsRestorable
  BY DEF InterestInv, LockInv, TypeInv
<1>2. \A b \in AccountIds : AccountOrNew(b)' = AccountOrNew(b)
  BY DEF AccountOrNew
<1>3. ASSUME NEW b \in AccountIds
      PROVE  Books(b)
  <2>1. ClaimAt(s, b)' = ClaimAt(s, b)
    BY DEF ClaimAt, SameRequest
  <2> QED BY <1>2, <2>1, OtherBooks
<1>4. LedgerType' /\ Balanced'
  BY <1>3, BooksBalance
<1>5. ASSUME NEW q \in DOMAIN receipts', NEW b \in AccountIds,
             receipts'[q].kind = "claim", receipts'[q].account = b
      PROVE  Restorable(receipts'[q], AccountOrNew(b)', now)
  <2>1. q \in DOMAIN receipts /\ SameRequest(receipts[q], receipts'[q])
    BY <1>5 DEF ChangedAt, SameRequest
  <2>3. receipts[q].kind = "claim" /\ receipts[q].account = b
    BY <1>5, <2>1 DEF SameRequest
  <2>4. Restorable(receipts[q], AccountOrNew(b), now)
    BY <1>1, <2>1, <2>3 DEF ClaimsRestorable
  <2>5. AccountOrNew(b)' = AccountOrNew(b)
    BY <1>2
  <2>6. Restorable(receipts'[q], AccountOrNew(b), now)
    BY <2>1, <2>4 DEF Restorable, Restores, SameRequest
  <2> QED BY <2>5, <2>6
<1>6. ClaimsRestorable'
  BY <1>5 DEF ClaimsRestorable
<1> QED BY <1>4, <1>6 DEF InterestKept

\* Consuming a receipt changes no other.
LEMMA ConsumeChanges ==
    ASSUME TypeInv, NEW s \in DOMAIN receipts, Consume(s)
    PROVE  ChangedAt(s) /\ ReceiptsStay /\ DOMAIN receipts' = DOMAIN receipts \ {s}
BY ConsumeType DEF ChangedAt, ReceiptsStay

\* Nor does sending one.
LEMMA SendChanges ==
    ASSUME NEW s \in FreeSlots, NEW r, Send(s, r)
    PROVE  /\ ChangedAt(s) /\ ReceiptsStay /\ s \notin DOMAIN receipts
           /\ DOMAIN receipts' = DOMAIN receipts \cup {s} /\ receipts'[s] = r
BY DEF FreeSlots, Send, Put, ChangedAt, ReceiptsStay

\* A method that keeps what the account is due, closes no jar and ends no
\* payout of it that succeeded.
LEMMA KeptStep ==
    ASSUME NoScoreBased, InterestInv, TypeInv', now' = now, Audit,
           NEW a \in AccountIds, NEW before, before = AccountOrNew(a),
           NEW after, AccountBy(after, now), SetAccount(a, after),
           NEW S, KeepsBut(before, after, S, now), \A p \in S : ~IsLocked(a, p),
           DueIn(after, now) = DueIn(before, now),
           DOMAIN before.jars \subseteq DOMAIN after.jars,
           NEW s, ChangedAt(s), ReceiptsStay,
           s \in DOMAIN receipts \ DOMAIN receipts' =>
                \/ receipts[s].kind \in {"stake", "fee"}
                \/ /\ receipts[s].account = a /\ receipts[s].kind # "claim"
                   /\ receipts[s].status # "succeeded",
           s \in DOMAIN receipts' \ DOMAIN receipts =>
                receipts'[s].kind \in {"stake", "fee", "withdraw", "restake"}
    PROVE  InterestKept
<1>1. TypeInv /\ Owned
  BY DEF InterestInv, LockInv
<1>2. after = AccountOrNew(a)' /\ a \in DOMAIN accounts'
  BY <1>1, Written
<1>3. ClaimAt(s, a)' = ClaimAt(s, a)
  BY DEF ClaimAt, ReceiptsStay
<1>4. DueIn(before, now) + ClaimAt(s, a) * MsInYear = DueIn(after, now) + ClaimAt(s, a)' * MsInYear
  BY <1>3
<1>5. Books(a)
  BY <1>2, <1>4, QuietBooks
<1>6. ASSUME NEW q \in DOMAIN receipts \cap DOMAIN receipts',
             receipts[q].kind = "claim", receipts[q].account = a
      PROVE  DOMAIN receipts[q].jars \cap S = {}
  BY <1>1, <1>6, ClaimCovers
<1> QED BY <1>5, <1>6, Touched

-----------------------------------------------------------------------------
(* Every action keeps the balance.                                          *)

\* The token answers, or the contract refuses a deposit.
LEMMA AnswerInterest ==
    ASSUME NoScoreBased, InterestInv, TypeInv', Audit, NEW s \in Slots,
           FtTransferSucceeds(s) \/ FtTransferFails(s) \/ OnStakePanics(s)
    PROVE  InterestKept
<1>1. TypeInv /\ s \in DOMAIN receipts /\ UNCHANGED accounts /\ now' = now
  BY DEF InterestInv, LockInv, FtTransferSucceeds, FtTransferFails, OnStakePanics, InFlight
<1>2. PICK status \in {"succeeded", "failed"} :
            /\ receipts[s].kind = "stake" => status = "failed"
            /\ receipts' = [receipts EXCEPT ![s].status = status]
  BY DEF FtTransferSucceeds, FtTransferFails, OnStakePanics
<1>3. HoldsKept
  BY <1>1, <1>2, AnswerHolds
<1>4. ChangedAt(s)
  BY <1>1, <1>2, AnswerType DEF ChangedAt
<1> QED BY <1>1, <1>3, <1>4, Untouched DEF HoldsKept

\* Refunds and the callbacks of the fee payout.
LEMMA SettledInterest ==
    ASSUME NoScoreBased, InterestInv, TypeInv', Audit, NEW s \in Slots,
           RefundStake(s) \/ AfterFeeWithdrawn(s) \/ AfterFailedFeeWithdrawal(s)
    PROVE  InterestKept
<1>1. /\ TypeInv /\ s \in DOMAIN receipts /\ UNCHANGED accounts /\ now' = now
      /\ Consume(s) /\ receipts[s].kind \in {"stake", "fee"}
  BY DEF InterestInv, LockInv, RefundStake, AfterFeeWithdrawn, AfterFailedFeeWithdrawal, InFlight
<1>2. ChangedAt(s) /\ DOMAIN receipts' = DOMAIN receipts \ {s}
  BY <1>1, ConsumeChanges
<1> QED BY <1>1, <1>2, Untouched

\* Deposits and fees set out.
LEMMA SendInterest ==
    ASSUME NoScoreBased, InterestInv, TypeInv', Audit, NEW s \in FreeSlots,
           \/ \E sender, a, p, amount, timezone : Stake(s, sender, a, p, amount, timezone)
           \/ WithdrawFee(s)
    PROVE  InterestKept
<1>1. UNCHANGED accounts /\ now' = now
  BY DEF Stake, WithdrawFee
<1>2. \E r : Send(s, r) /\ r.kind \in {"stake", "fee"}
  <2>1. CASE WithdrawFee(s)
    <3> DEFINE r == [kind |-> "fee", status |-> "sent", account |-> FeeAccount,
                     amount |-> fee_amount, jars |-> NoJars]
    <3>1. Send(s, r) /\ r.kind = "fee"
      BY <2>1 DEF WithdrawFee
    <3> HIDE DEF r
    <3> QED BY <3>1
  <2>2. ASSUME NEW sender, NEW a, NEW p, NEW amount, NEW timezone,
               Stake(s, sender, a, p, amount, timezone)
        PROVE  \E r : Send(s, r) /\ r.kind \in {"stake", "fee"}
    <3> DEFINE r == [kind |-> "stake", status |-> "sent", account |-> a, sender |-> sender,
                     product |-> p, amount |-> amount, timezone |-> timezone, jars |-> NoJars]
    <3>1. Send(s, r) /\ r.kind = "stake"
      BY <2>2 DEF Stake
    <3> HIDE DEF r
    <3> QED BY <3>1
  <2> QED BY <2>1, <2>2
<1> PICK r : Send(s, r) /\ r.kind \in {"stake", "fee"}
  BY <1>2
<1>3. /\ ChangedAt(s) /\ s \notin DOMAIN receipts /\ receipts'[s] = r
      /\ DOMAIN receipts' = DOMAIN receipts \cup {s}
  BY SendChanges
<1> QED BY <1>1, <1>3, Untouched

\* Stuttering, and the manager.
LEMMA IdleInterest ==
    ASSUME NoScoreBased, InterestInv, TypeInv', Audit, UNCHANGED <<now, accounts, receipts>>
    PROVE  InterestKept
<1>1. ChangedAt(0)
  BY DEF ChangedAt
<1>2. \A s \in DOMAIN receipts : SameRequest(receipts[s], receipts'[s])
  BY DEF SameRequest
<1> QED BY <1>1, <1>2, Untouched

\* A deposit arrives.
LEMMA OnStakeInterest ==
    ASSUME NoScoreBased, InterestInv, TypeInv', Audit, NEW s \in Slots, OnStake(s)
    PROVE  InterestKept
<1> DEFINE r == receipts[s]
<1>1. s \in DOMAIN receipts /\ IsStake(r) /\ now \in Nat /\ TypeInv
  BY ReceiptKinds DEF OnStake, InFlight, InterestInv, LockInv, TypeInv
<1>2. /\ r.account \in AccountIds /\ r.product \in ProductIds /\ r.amount \in Nat
      /\ r.kind = "stake"
  BY <1>1 DEF IsStake
<1>3. PICK a, p, amount : a = r.account /\ p = r.product /\ amount = r.amount
  OBVIOUS
<1>4. PICK before : before = AccountOrNew(a)
  OBVIOUS
<1>5. AccountBy(before, now)
  BY <1>1, <1>2, <1>3, <1>4, AccountOrNewType
<1>6. StakeTarget(r) = before
  BY <1>2, <1>3, <1>4 DEF StakeTarget, NoScoreBased
<1> DEFINE deposited == DepositTo(before, p, amount, now)
           after == UpdateJarCaches(deposited, {p}, now)
<1>7. SetAccount(a, after) /\ Consume(s) /\ now' = now
  BY <1>3, <1>6 DEF OnStake
<1>8. /\ AccountBy(deposited, now) /\ KeepsDue(before, deposited, now)
      /\ DOMAIN before.jars \subseteq DOMAIN deposited.jars
  <2>1. AccountBy(deposited, now) /\ JarAdded(before, deposited, p)
    BY <1>1, <1>2, <1>3, <1>5, DepositToType
  <2>2. KeepsDue(before, deposited, now)
    BY <1>1, <1>2, <1>3, <1>5, DepositKeeps
  <2> QED BY <2>1, <2>2 DEF JarAdded
<1> HIDE DEF deposited
<1>9. /\ AccountBy(after, now) /\ KeepsDue(deposited, after, now)
      /\ DOMAIN deposited.jars = DOMAIN after.jars
  BY <1>1, <1>8, UpdateJarCachesType, CachesKeep DEF SameJars
<1> HIDE DEF after
<1>10. KeepsDue(before, after, now)
  <2>1. KeepsBut(before, after, {} \cup {}, now)
    BY <1>8, <1>9, KeepsThen DEF KeepsDue
  <2> QED BY <2>1 DEF KeepsDue
<1>11. DueIn(after, now) = DueIn(before, now)
  BY <1>10, KeptDue
<1>12. ChangedAt(s) /\ ReceiptsStay /\ DOMAIN receipts' = DOMAIN receipts \ {s}
  BY <1>1, <1>7, ConsumeChanges
<1>13. DOMAIN before.jars \subseteq DOMAIN after.jars
  BY <1>8, <1>9
<1> QED BY <1>2, <1>3, <1>4, <1>7, <1>9, <1>10, <1>11, <1>12, <1>13, KeptStep DEF KeepsDue

\* A method that keeps what the account is due, and sends a payout or nothing.
LEMMA SendingStep ==
    ASSUME NoScoreBased, InterestInv, TypeInv', now' = now, Audit,
           NEW a \in AccountIds, NEW before, before = AccountOrNew(a),
           NEW after, AccountBy(after, now), SetAccount(a, after),
           NEW S, KeepsBut(before, after, S, now), \A p \in S : ~IsLocked(a, p),
           DueIn(after, now) = DueIn(before, now),
           DOMAIN before.jars \subseteq DOMAIN after.jars,
           \/ UNCHANGED receipts
           \/ \E s \in FreeSlots : \E r : Send(s, r) /\ r.kind \in {"withdraw", "restake"}
    PROVE  InterestKept
<1>1. CASE UNCHANGED receipts
  <2>1. ChangedAt(0) /\ ReceiptsStay /\ DOMAIN receipts' = DOMAIN receipts
    BY <1>1 DEF ChangedAt, ReceiptsStay
  <2> QED BY <2>1, KeptStep
<1>2. ASSUME NEW s \in FreeSlots, NEW r, Send(s, r), r.kind \in {"withdraw", "restake"}
      PROVE  InterestKept
  <2>1. /\ ChangedAt(s) /\ ReceiptsStay /\ s \notin DOMAIN receipts
        /\ DOMAIN receipts' = DOMAIN receipts \cup {s} /\ receipts'[s] = r
    BY <1>2, SendChanges
  <2> QED BY <1>2, <2>1, KeptStep
<1> QED BY <1>1, <1>2

\* withdraw.
LEMMA WithdrawInterest ==
    ASSUME NoScoreBased, InterestInv, TypeInv', Audit, NEW s \in FreeSlots, NEW a \in AccountIds,
           NEW p \in ProductIds, Withdraw(s, a, p)
    PROVE  InterestKept
<1>1. /\ TypeInv /\ now \in Nat /\ a \in DOMAIN accounts /\ now' = now
      /\ AccountOrNew(a) = accounts[a]
  BY DEF InterestInv, LockInv, TypeInv, Withdraw, AccountOrNew
<1>2. PICK before : before = accounts[a]
  OBVIOUS
<1> DEFINE updated == UpdateJarCaches(before, {p}, now)
           after == LockJars(updated, {p})
<1>3. AccountBy(before, now) /\ SetAccount(a, after)
  BY <1>1, <1>2, AccountOrNewType DEF Withdraw
<1>4. \E r : Send(s, r) /\ r.kind = "withdraw"
  <2>1. PICK requests : SendWithdrawal(s, a, requests)
    BY DEF Withdraw
  <2> QED BY <2>1 DEF SendWithdrawal
<1>5. /\ AccountBy(updated, now) /\ SameJars(before, updated)
      /\ KeepsDue(before, updated, now)
  BY <1>1, <1>3, UpdateJarCachesType, CachesKeep
<1> HIDE DEF updated
<1>6. AccountBy(after, now) /\ LocksSet(updated, after, {p}, TRUE) /\ KeepsDue(updated, after, now)
  BY <1>1, <1>5, LockJarsType, LocksKeep
<1> HIDE DEF after
<1>7. KeepsDue(before, after, now)
  <2>1. KeepsBut(before, after, {} \cup {}, now)
    BY <1>5, <1>6, KeepsThen DEF KeepsDue
  <2> QED BY <2>1 DEF KeepsDue
<1>8. DOMAIN before.jars \subseteq DOMAIN after.jars
  BY <1>5, <1>6 DEF SameJars, LocksSet
<1> QED BY <1>1, <1>2, <1>3, <1>4, <1>6, <1>7, <1>8, KeptDue, SendingStep DEF KeepsDue

\* withdraw_all.
LEMMA WithdrawAllInterest ==
    ASSUME NoScoreBased, InterestInv, TypeInv', Audit, NEW s \in FreeSlots, NEW a \in AccountIds,
           NEW ps \in SUBSET ProductIds, WithdrawAll(s, a, ps)
    PROVE  InterestKept
<1>1. /\ TypeInv /\ now \in Nat /\ a \in DOMAIN accounts /\ now' = now
      /\ AccountOrNew(a) = accounts[a]
  BY DEF InterestInv, LockInv, TypeInv, WithdrawAll, CanWithdrawAll, AccountOrNew
<1>2. PICK before : before = accounts[a]
  OBVIOUS
<1>3. PICK requests : requests = BulkRequests(a, ps)
  OBVIOUS
<1> DEFINE updated == UpdateAccountCache(before, now)
           after == LockJars(updated, DOMAIN requests)
<1>4. AccountBy(before, now) /\ SetAccount(a, after)
  BY <1>1, <1>2, <1>3, AccountOrNewType DEF WithdrawAll
<1>5. UNCHANGED receipts \/ \E r : Send(s, r) /\ r.kind = "withdraw"
  <2>1. UNCHANGED receipts \/ SendWithdrawal(s, a, requests)
    BY <1>3 DEF WithdrawAll
  <2> QED BY <2>1 DEF SendWithdrawal
<1>6. /\ AccountBy(updated, now) /\ SameJars(before, updated)
      /\ KeepsDue(before, updated, now)
  BY <1>1, <1>4, UpdateAccountCacheType, AccountCacheKeeps
<1> HIDE DEF updated
<1>7. /\ AccountBy(after, now) /\ LocksSet(updated, after, DOMAIN requests, TRUE)
      /\ KeepsDue(updated, after, now)
  BY <1>1, <1>6, LockJarsType, LocksKeep
<1> HIDE DEF after
<1>8. KeepsDue(before, after, now)
  <2>1. KeepsBut(before, after, {} \cup {}, now)
    BY <1>6, <1>7, KeepsThen DEF KeepsDue
  <2> QED BY <2>1 DEF KeepsDue
<1>9. DOMAIN before.jars \subseteq DOMAIN after.jars
  BY <1>6, <1>7 DEF SameJars, LocksSet
<1> QED BY <1>1, <1>2, <1>4, <1>5, <1>7, <1>8, <1>9, KeptDue, SendingStep DEF KeepsDue

\* A withdrawal or a restake whose payout failed only unlocks.
LEMMA AfterFailureInterest ==
    ASSUME NoScoreBased, InterestInv, TypeInv', Audit, NEW s \in Slots,
           AfterFailedWithdraw(s) \/ AfterFailedTransferRemainder(s)
    PROVE  InterestKept
<1>1. /\ TypeInv /\ now \in Nat /\ s \in DOMAIN receipts /\ now' = now
      /\ HasJars(receipts[s]) /\ Consume(s) /\ receipts[s].status = "failed"
      /\ receipts[s].kind \in {"withdraw", "restake"}
      /\ SetAccount(receipts[s].account,
                    UnlockJars(accounts[receipts[s].account], DOMAIN receipts[s].jars))
  BY DEF InterestInv, LockInv, TypeInv, AfterFailedWithdraw, AfterFailedTransferRemainder,
         InFlight, CanFinishWithdrawal
<1>2. PICK a, ps : a = receipts[s].account /\ ps = DOMAIN receipts[s].jars
  OBVIOUS
<1>3. PICK before : before = accounts[a]
  OBVIOUS
<1>4. a \in AccountIds /\ before = AccountOrNew(a) /\ AccountBy(before, now)
  <2>1. a \in AccountIds /\ a \in DOMAIN accounts
    BY <1>1, <1>2, ReceiptsKnown DEF Known, HasJars
  <2> QED BY <1>1, <1>3, <2>1, AccountOrNewType DEF AccountOrNew
<1> DEFINE after == UnlockJars(before, ps)
<1>5. SetAccount(a, after)
  BY <1>1, <1>2, <1>3
<1>6. AccountBy(after, now) /\ LocksSet(before, after, ps, FALSE) /\ KeepsDue(before, after, now)
  BY <1>1, <1>4, UnlockJarsType, LocksKeep
<1> HIDE DEF after
<1>7. ChangedAt(s) /\ ReceiptsStay /\ DOMAIN receipts' = DOMAIN receipts \ {s}
  BY <1>1, ConsumeChanges
<1>8. DOMAIN before.jars \subseteq DOMAIN after.jars
  BY <1>6 DEF LocksSet
<1>9. DueIn(after, now) = DueIn(before, now)
  BY <1>6, KeptDue
<1> QED BY <1>1, <1>2, <1>4, <1>5, <1>6, <1>7, <1>8, <1>9, KeptStep DEF KeepsDue

\* What set_timezone, record_score and apply_booster leave as it was.
LEMMA ScoresWrite ==
    ASSUME NoScoreBased, TypeInv, NEW a \in AccountIds, NEW before, before = AccountOrNew(a),
           \/ \E tz \in Timezones : SetTimezone(a, tz)
           \/ \E i \in Increments : RecordScore(a, i)
           \/ \E d \in 0 .. 2, v \in Boosters : ApplyBooster(a, d, v)
    PROVE  \E after : /\ SetAccount(a, after) /\ AccountBy(after, now)
                     /\ after.jars = before.jars /\ after.features = before.features
<1>1. now \in Nat /\ AccountBy(before, now)
  BY AccountOrNewType DEF TypeInv
<1>2. ASSUME NEW tz \in Timezones, SetTimezone(a, tz)
      PROVE  \E after : /\ SetAccount(a, after) /\ AccountBy(after, now)
                        /\ after.jars = before.jars /\ after.features = before.features
  <2> DEFINE after == TrySetTimezone(before, tz)
  <2>1. SetAccount(a, after)
    BY <1>2 DEF SetTimezone
  <2>2. AccountBy(after, now) /\ after.jars = before.jars
    BY <1>1, TrySetTimezoneType
  <2>3. after.features = before.features
    BY <1>1 DEF TrySetTimezone, AccountBy
  <2> HIDE DEF after
  <2> QED BY <2>1, <2>2, <2>3
<1> DEFINE settled == SettleInterest(before, now)
<1>3. /\ AccountBy(settled, now) /\ settled.jars = before.jars
      /\ settled.features = before.features
  BY <1>1, SettleInterestType, SettledJars
<1> HIDE DEF settled
<1>4. ASSUME NEW score \in AccountScore, SetAccount(a, [settled EXCEPT !.score = score])
      PROVE  \E after : /\ SetAccount(a, after) /\ AccountBy(after, now)
                        /\ after.jars = before.jars /\ after.features = before.features
  <2> DEFINE after == [settled EXCEPT !.score = score]
  <2>1. AccountBy(after, now) /\ after.jars = before.jars
    BY <1>1, <1>3, WithScore
  <2>2. after.features = before.features
    BY <1>3 DEF AccountBy
  <2>3. SetAccount(a, after)
    BY <1>4
  <2> HIDE DEF after
  <2> QED BY <2>1, <2>2, <2>3
<1>5. settled.score \in AccountScore
  BY <1>3 DEF AccountBy
<1>6. ASSUME NEW i \in Increments, RecordScore(a, i)
      PROVE  \E score \in AccountScore : SetAccount(a, [settled EXCEPT !.score = score])
  <2>1. before = accounts[a]
    BY <1>6 DEF RecordScore, HasTimezone, AccountOrNew
  <2>2. SetAccount(a, [settled EXCEPT !.score = UpdateScore(@, i, now)])
    BY <1>6, <2>1 DEF RecordScore, settled
  <2>3. UpdateScore(settled.score, i, now) \in AccountScore
    BY <1>1, <1>5, SweatJarAssumption, UpdateScoreType
  <2> QED BY <2>2, <2>3
<1>7. ASSUME NEW d \in 0 .. 2, NEW v \in Boosters, ApplyBooster(a, d, v)
      PROVE  \E score \in AccountScore : SetAccount(a, [settled EXCEPT !.score = score])
  <2>1. before = accounts[a]
    BY <1>7 DEF ApplyBooster, HasTimezone, AccountOrNew
  <2>2. SetAccount(a, [settled EXCEPT !.score = ApplyBoosterTo(@, d, v, now)])
    BY <1>7, <2>1 DEF ApplyBooster, settled
  <2>3. ApplyBoosterTo(settled.score, d, v, now) \in AccountScore
    BY <1>1, <1>5, SweatJarAssumption, ApplyBoosterToType
  <2> QED BY <2>2, <2>3
<1> QED BY <1>2, <1>4, <1>6, <1>7

\* set_timezone, record_score and apply_booster.
LEMMA ScoresInterest ==
    ASSUME NoScoreBased, InterestInv, TypeInv', Audit, NEW a \in AccountIds,
           \/ \E tz \in Timezones : SetTimezone(a, tz)
           \/ \E i \in Increments : RecordScore(a, i)
           \/ \E d \in 0 .. 2, v \in Boosters : ApplyBooster(a, d, v)
    PROVE  InterestKept
<1>1. TypeInv /\ now \in Nat /\ now' = now /\ UNCHANGED receipts
  BY DEF InterestInv, LockInv, TypeInv, SetTimezone, RecordScore, ApplyBooster
<1>2. PICK before : before = AccountOrNew(a)
  OBVIOUS
<1>3. AccountBy(before, now)
  BY <1>1, <1>2, AccountOrNewType
<1>4. PICK after : /\ SetAccount(a, after) /\ AccountBy(after, now)
                   /\ after.jars = before.jars /\ after.features = before.features
  BY <1>1, <1>2, ScoresWrite
<1>5. KeepsDue(before, after, now)
  BY <1>4, KeepsSame
<1>6. DueIn(after, now) = DueIn(before, now)
  BY <1>5, KeptDue
<1> QED BY <1>1, <1>2, <1>4, <1>5, <1>6, SendingStep DEF KeepsDue

\* Deposits that leave a jar that was just cached take nothing along.
LEMMA LeavesNothing ==
    ASSUME NEW t \in Nat, NEW account, AccountBy(account, t), NEW partition,
           CanCleanUpJars(account, partition),
           \A p \in DOMAIN partition :
                partition[p] \in Nat /\ account.jars[p].cache.updated_at = t
    PROVE  SumFunctionOnSet(LeftWith(account, partition, t), ProductIds) = 0
<1> DEFINE left == LeftWith(account, partition, t)
<1>1. ASSUME NEW p \in ProductIds
      PROVE  left[p] = 0
  <2>1. CASE p \in DOMAIN partition
    <3> DEFINE jar == account.jars[p]
               n == partition[p]
               yields == Yields(ApyOf(account, p), p, jar.deposits, jar.cache.updated_at, t)
    <3>1. /\ jar \in JarBy(t) /\ jar.cache.updated_at = t /\ n \in Nat
          /\ n <= Len(jar.deposits)
      BY <2>1 DEF AccountBy, JarsBy, CanCleanUpJars, CanCleanUp
    <3>2. jar.deposits \in DepositsBy(t) /\ Len(jar.deposits) \in Nat /\ ApyOf(account, p) \in Nat
      BY <3>1, ApyNat DEF JarBy, DepositsBy
    <3>3. left[p] = SumFunctionOnSet(yields, 1 .. n)
      BY <2>1 DEF LeftWith
    <3>4. \A i \in 1 .. n : yields[i] = 0
      <4> SUFFICES ASSUME NEW i \in 1 .. n PROVE yields[i] = 0
        OBVIOUS
      <4> HIDE DEF jar, n
      <4>1. i \in 1 .. Len(jar.deposits)
        BY <3>1, <3>2
      <4>2. t \in 0 .. t
        OBVIOUS
      <4>3. /\ jar.deposits[i] \in DepositBy(t)
            /\ Rate(ApyOf(account, p), jar.deposits[i].principal) \in Nat
        BY <3>2, <4>1, <4>2, YieldsNat
      <4>4. Waited(p, jar.deposits[i], t, t) = 0
        BY <4>2, <4>3, WaitedNat
      <4>5. yields[i] = Rate(ApyOf(account, p), jar.deposits[i].principal)
                            * Waited(p, jar.deposits[i], t, t)
        BY <3>1, <4>1 DEF Yields
      <4>6. \A x \in Nat : x * 0 = 0
        OBVIOUS
      <4> QED BY <4>3, <4>4, <4>5, <4>6
    <3> HIDE DEF yields, n, left
    <3>5. IsFiniteSet(1 .. n)
      BY <3>1, FS_Interval
    <3> QED BY <3>3, <3>4, <3>5, SumZero
  <2>2. CASE p \notin DOMAIN partition
    BY <2>2 DEF LeftWith
  <2> QED BY <2>1, <2>2
<1> HIDE DEF left
<1>2. SumFunctionOnSet(left, ProductIds) = 0
  BY <1>1, AccountAssumption, SumZero
<1> QED BY <1>2 DEF left

\* restake_internal: what moves at once was just cached and takes nothing
\* along.
LEMMA RestakeFromInterest ==
    ASSUME NoScoreBased, InterestInv, TypeInv', Audit, NEW s \in FreeSlots, NEW a \in AccountIds,
           a \in DOMAIN accounts, NEW ps \in SUBSET Unlocked(a), NEW fee,
           NEW target \in ProductIds, NEW amount \in Amounts, NEW timezone \in Offered,
           RestakeFrom(s, a, ps, fee, target, amount, timezone)
    PROVE  InterestKept
<1>1. /\ TypeInv /\ now \in Nat /\ now' = now /\ amount \in Nat
      /\ AccountOrNew(a) = accounts[a] /\ ps \in SUBSET DOMAIN accounts[a].jars
      /\ \A p \in ps : ~IsLocked(a, p)
  BY SweatJarAssumption
     DEF InterestInv, LockInv, TypeInv, RestakeFrom, AccountOrNew, Unlocked, JarsOf, IsLocked
<1>2. PICK before : before = accounts[a]
  OBVIOUS
<1> DEFINE updated == UpdateJarCaches(before, ps, now)
           partition == [p \in ps |-> PartitionIndex(updated.jars[p], TermsOf(p), now)]
<1>3. AccountBy(before, now)
  BY <1>1, <1>2, AccountOrNewType
<1>4. /\ AccountBy(updated, now) /\ SameJars(before, updated)
      /\ KeepsDue(before, updated, now)
      /\ \A p \in ps : updated.jars[p].cache.updated_at = now
  <2>1. AccountBy(updated, now) /\ SameJars(before, updated)
    BY <1>1, <1>3, UpdateJarCachesType
  <2>2. /\ KeepsDue(before, updated, now)
        /\ \A p \in DOMAIN before.jars : p \in ps => updated.jars[p].cache.updated_at = now
    BY <1>1, <1>3, CachesKeep
  <2> QED BY <1>1, <1>2, <2>1, <2>2
<1>5. \/ SetAccount(a, MoveDeposits(updated, partition, target, amount)) /\ UNCHANGED receipts
      \/ SetAccount(a, LockJars(updated, ps)) /\ \E r : Send(s, r) /\ r.kind = "restake"
  <2>1. ~IsScoreBased(TermsOf(target))
    BY DEF NoScoreBased
  <2> QED BY <1>2, <2>1 DEF RestakeFrom
<1>6. /\ CanCleanUpJars(updated, partition) /\ DOMAIN partition = ps
      /\ \A p \in ps : partition[p] \in Nat
  <2> SUFFICES ASSUME NEW p \in ps
               PROVE  /\ p \in DOMAIN updated.jars /\ partition[p] \in Nat
                      /\ partition[p] <= Len(updated.jars[p].deposits)
    BY DEF CanCleanUpJars, CanCleanUp
  <2> DEFINE jar == updated.jars[p]
  <2>1. p \in DOMAIN updated.jars /\ jar \in JarBy(now)
    <3> HIDE DEF updated
    <3> QED BY <1>1, <1>2, <1>4 DEF SameJars, AccountBy, JarsBy
  <2>2. partition[p] = PartitionIndex(jar, TermsOf(p), now)
    OBVIOUS
  <2> HIDE DEF jar, partition
  <2>3. partition[p] \in 0 .. Len(jar.deposits) /\ Len(jar.deposits) \in Nat
    BY <1>1, <2>1, <2>2, PartitionIndexType DEF JarBy, DepositsBy
  <2> QED BY <2>1, <2>3 DEF jar
<1> HIDE DEF updated, partition
<1>7. CASE SetAccount(a, LockJars(updated, ps)) /\ \E r : Send(s, r) /\ r.kind = "restake"
  <2> DEFINE after == LockJars(updated, ps)
  <2>1. AccountBy(after, now) /\ LocksSet(updated, after, ps, TRUE) /\ KeepsDue(updated, after, now)
    BY <1>1, <1>4, LockJarsType, LocksKeep
  <2>2. SetAccount(a, after)
    BY <1>7
  <2> HIDE DEF after
  <2>3. KeepsDue(before, after, now)
    <3>1. KeepsBut(before, after, {} \cup {}, now)
      BY <1>4, <2>1, KeepsThen DEF KeepsDue
    <3> QED BY <3>1 DEF KeepsDue
  <2>4. DOMAIN before.jars \subseteq DOMAIN after.jars
    BY <1>4, <2>1 DEF SameJars, LocksSet
  <2> QED BY <1>1, <1>2, <1>7, <2>1, <2>2, <2>3, <2>4, KeptDue, SendingStep DEF KeepsDue
<1>8. CASE SetAccount(a, MoveDeposits(updated, partition, target, amount)) /\ UNCHANGED receipts
  <2> DEFINE cleaned == CleanUpJars(updated, partition)
             after == DepositTo(cleaned, target, amount, now)
             left == SumFunctionOnSet(LeftWith(updated, partition, now), ProductIds)
  <2>1. /\ AccountBy(cleaned, now) /\ DOMAIN cleaned.jars = DOMAIN updated.jars
    BY <1>1, <1>4, <1>6, CleanUpJarsType
  <2>2. /\ KeepsBut(updated, cleaned, DOMAIN partition, now)
        /\ DueIn(updated, now) = DueIn(cleaned, now) + left
    BY <1>1, <1>4, <1>6, CleanUpLoses
  <2>3. left = 0
    BY <1>1, <1>4, <1>6, LeavesNothing
  <2> HIDE DEF cleaned, left
  <2>4. AccountBy(after, now) /\ JarAdded(cleaned, after, target)
    BY <1>1, <2>1, DepositToType
  <2>5. KeepsDue(cleaned, after, now)
    BY <1>1, <2>1, DepositKeeps
  <2>6. SetAccount(a, after)
    BY <1>8 DEF MoveDeposits, cleaned
  <2> HIDE DEF after
  <2>7. KeepsBut(before, after, ps, now)
    <3>1. KeepsBut(before, cleaned, {} \cup ps, now)
      BY <1>4, <1>6, <2>2, KeepsThen DEF KeepsDue
    <3>2. KeepsBut(before, after, ({} \cup ps) \cup {}, now)
      BY <2>5, <3>1, KeepsThen DEF KeepsDue
    <3>3. ({} \cup ps) \cup {} = ps
      OBVIOUS
    <3> QED BY <3>2, <3>3
  <2>8. DueIn(after, now) = DueIn(before, now)
    <3>1. DueIn(cleaned, now) \in Nat
      BY <1>1, <2>1, JarDueNat
    <3>2. DueIn(after, now) = DueIn(cleaned, now) /\ DueIn(updated, now) = DueIn(before, now)
      BY <1>4, <2>5, KeptDue
    <3> QED BY <2>2, <2>3, <3>1, <3>2
  <2>9. DOMAIN before.jars \subseteq DOMAIN after.jars
    BY <1>4, <2>1, <2>4 DEF SameJars, JarAdded
  <2> QED BY <1>1, <1>2, <1>8, <2>4, <2>6, <2>7, <2>8, <2>9, SendingStep
<1> QED BY <1>5, <1>7, <1>8

\* restake and restake_all.
LEMMA RestakeInterest ==
    ASSUME NoScoreBased, InterestInv, TypeInv', Audit, NEW s \in FreeSlots, NEW a \in AccountIds,
           NEW target \in ProductIds, NEW amount \in Amounts, NEW timezone \in Offered,
           \/ \E from \in ProductIds : Restake(s, a, from, target, amount, timezone)
           \/ RestakeAll(s, a, target, amount, timezone)
    PROVE  InterestKept
<1>1. TypeInv /\ s \in Slots
  BY DEF InterestInv, LockInv, FreeSlots
<1>2. /\ a \in DOMAIN accounts
      /\ \E ps \in SUBSET Unlocked(a) : \E fee : RestakeFrom(s, a, ps, fee, target, amount, timezone)
  BY <1>1, RestakesFrom
<1> QED BY <1>2, RestakeFromInterest

\* claim_total, from jars that were cached before.
LEMMA ClaimTotalInterest ==
    ASSUME NoScoreBased, InterestInv, TypeInv', Audit, ClaimsCached,
           NEW s \in FreeSlots, NEW a \in AccountIds, ClaimTotal(s, a)
    PROVE  InterestKept
<1>1. /\ TypeInv /\ Owned /\ now \in Nat /\ a \in DOMAIN accounts /\ now' = now
      /\ AccountOrNew(a) = accounts[a]
  BY DEF InterestInv, LockInv, TypeInv, ClaimTotal, AccountOrNew
<1>2. PICK before : before = accounts[a]
  OBVIOUS
<1> DEFINE settled == SettleInterest(before, now)
           claimed == Claimable(a)
           after == ClaimJars(settled, claimed)
           taken == [p \in claimed |-> InterestOf(settled, p, now).interest]
           r == [kind |-> "claim", status |-> "sent", account |-> a, amount |-> Total(taken),
                 jars |-> [p \in claimed |-> ToRollback(settled.jars[p])],
                 timezone |-> settled.timezone, score |-> settled.score]
<1>3. /\ AccountBy(before, now) /\ SetAccount(a, after) /\ claimed \in SUBSET Unlocked(a)
      /\ (claimed = {} /\ UNCHANGED receipts) \/ Send(s, r)
  BY <1>1, <1>2, AccountOrNewType DEF ClaimTotal, Claimable
<1>4. /\ AccountBy(settled, now) /\ settled.jars = before.jars
      /\ settled.features = before.features
  BY <1>1, <1>3, SettleInterestType, SettledJars
<1>5. claimed \in SUBSET DOMAIN settled.jars /\ \A p \in claimed : ~IsLocked(a, p)
  BY <1>2, <1>3, <1>4 DEF Unlocked, JarsOf, IsLocked
<1>6. /\ r.kind = "claim" /\ r.account = a /\ r.amount = Total(taken)
      /\ r.jars = [p \in claimed |-> ToRollback(settled.jars[p])] /\ DOMAIN r.jars = claimed
  OBVIOUS
<1> HIDE DEF settled, claimed, r
<1>7. AccountBy(after, now)
  BY <1>1, <1>4, ClaimJarsType
<1>8. /\ Total(taken) \in Nat
      /\ DueIn(settled, now) = DueIn(after, now) + Total(taken) * MsInYear
  BY <1>1, <1>4, <1>5, ClaimLoses
<1>9. KeepsBut(settled, after, claimed, now) /\ DOMAIN after.jars = DOMAIN settled.jars
  BY <1>1, <1>4, <1>5, ClaimKeeps
<1>10. (\A p \in claimed : r.jars[p].cache # NoCache) => Restorable(r, after, now)
  BY <1>1, <1>4, <1>5, <1>6, ClaimRestores
<1> HIDE DEF after, taken
<1>11. KeepsDue(before, settled, now) /\ DueIn(settled, now) = DueIn(before, now)
  <2>1. KeepsDue(before, settled, now)
    BY <1>4, KeepsSame
  <2> QED BY <2>1, KeptDue
<1>12. KeepsBut(before, after, claimed, now)
  <2>1. KeepsBut(before, after, {} \cup claimed, now)
    BY <1>9, <1>11, KeepsThen DEF KeepsDue
  <2>2. {} \cup claimed = claimed
    OBVIOUS
  <2> QED BY <2>1, <2>2
<1>13. DOMAIN before.jars \subseteq DOMAIN after.jars
  BY <1>4, <1>9
<1>14. CASE claimed = {} /\ UNCHANGED receipts
  <2>1. KeepsDue(before, after, now)
    BY <1>12, <1>14 DEF KeepsDue
  <2>2. DueIn(after, now) = DueIn(before, now)
    BY <2>1, KeptDue
  <2> QED BY <1>1, <1>2, <1>3, <1>5, <1>7, <1>12, <1>13, <1>14, <2>2, SendingStep
<1>15. CASE Send(s, r)
  <2>1. /\ ChangedAt(s) /\ ReceiptsStay /\ s \notin DOMAIN receipts
        /\ DOMAIN receipts' = DOMAIN receipts \cup {s} /\ receipts'[s] = r
    BY <1>15, SendChanges
  <2>2. ClaimAt(s, a) = 0 /\ ClaimAt(s, a)' = Total(taken)
    BY <1>6, <2>1 DEF ClaimAt
  <2>3. 0 * MsInYear = 0
    BY InterestAssumption
  <2>4. DueIn(before, now) \in Nat /\ DueIn(after, now) \in Nat /\ Total(taken) * MsInYear \in Nat
    BY <1>1, <1>3, <1>7, <1>8, JarDueNat, YearsNat
  <2>5. DueIn(before, now) + ClaimAt(s, a) * MsInYear
            = DueIn(after, now) + ClaimAt(s, a)' * MsInYear
    BY <1>8, <1>11, <2>2, <2>3, <2>4
  <2>6. AccountOrNew(a)' = after /\ a \in DOMAIN accounts'
    BY <1>1, <1>3, <1>7, Written
  <2>7. Books(a)
    BY <1>1, <1>2, <1>13, <2>1, <2>5, <2>6, QuietBooks
  <2>8. Restorable(r, after, now)
    <3>1. s \in Slots /\ s \in DOMAIN receipts'
      BY <2>1 DEF FreeSlots
    <3>2. \A p \in claimed : r.jars[p].cache # NoCache
      BY <1>6, <2>1, <3>1 DEF ClaimsCached
    <3> QED BY <1>10, <3>2
  <2>9. ASSUME NEW q \in DOMAIN receipts \cap DOMAIN receipts', receipts[q].kind = "claim",
               receipts[q].account = a
        PROVE  DOMAIN receipts[q].jars \cap claimed = {}
    <3>1. \A p \in DOMAIN receipts[q].jars : IsLocked(a, p)
      BY <1>1, <2>9, ClaimCovers
    <3> QED BY <1>5, <3>1
  <2> QED BY <1>1, <1>2, <1>3, <1>6, <1>7, <1>12, <2>1, <2>7, <2>8, <2>9, Touched
<1> QED BY <1>3, <1>14, <1>15

\* What unlocking jars leaves as it was.
LEMMA UnlockedSame ==
    ASSUME NEW t \in Nat, NEW account, AccountBy(account, t), NEW ps
    PROVE  LET unlocked == UnlockJars(account, ps)
           IN  /\ DOMAIN unlocked.jars = DOMAIN account.jars
               /\ unlocked.features = account.features
               /\ \A p \in DOMAIN account.jars :
                    /\ unlocked.jars[p].deposits = account.jars[p].deposits
                    /\ unlocked.jars[p].cache = account.jars[p].cache
                    /\ unlocked.jars[p].claim_remainder = account.jars[p].claim_remainder
<1> DEFINE jars == [p \in DOMAIN account.jars |->
                        IF p \in ps THEN Unlock(account.jars[p]) ELSE account.jars[p]]
<1>1. /\ UnlockJars(account, ps) = [account EXCEPT !.jars = jars]
      /\ [account EXCEPT !.jars = jars].jars = jars
      /\ [account EXCEPT !.jars = jars].features = account.features
  <2>1. UnlockJars(account, ps) = [account EXCEPT !.jars = jars]
    BY DEF UnlockJars, AccountBy
  <2> HIDE DEF jars
  <2> QED BY <2>1, WrittenJars
<1>2. ASSUME NEW p \in DOMAIN account.jars
      PROVE  /\ jars[p].deposits = account.jars[p].deposits
             /\ jars[p].cache = account.jars[p].cache
             /\ jars[p].claim_remainder = account.jars[p].claim_remainder
  <2>1. account.jars[p] \in JarBy(t)
    BY DEF AccountBy, JarsBy
  <2>2. PICK jar \in JarBy(t) : jar = account.jars[p]
    BY <2>1
  <2>3. /\ Unlock(jar).deposits = jar.deposits /\ Unlock(jar).cache = jar.cache
        /\ Unlock(jar).claim_remainder = jar.claim_remainder
    BY DEF Unlock, JarBy
  <2>4. jars[p] = IF p \in ps THEN Unlock(jar) ELSE jar
    BY <2>2
  <2> HIDE DEF jars
  <2> QED BY <2>2, <2>3, <2>4
<1>3. DOMAIN jars = DOMAIN account.jars
  OBVIOUS
<1> HIDE DEF jars
<1> QED BY <1>1, <1>2, <1>3

\* A callback that changes the jars of its receipt, and no other.
LEMMA CallbackInterest ==
    ASSUME NoScoreBased, InterestInv, TypeInv', now' = now, Audit,
           NEW s \in DOMAIN receipts, Consume(s), HasJars(receipts[s]),
           NEW a \in AccountIds, a = receipts[s].account, NEW before, before = accounts[a],
           NEW after, AccountBy(after, now), SetAccount(a, after),
           NEW ps, ps = DOMAIN receipts[s].jars, KeepsBut(before, after, ps, now), Books(a)
    PROVE  InterestKept
<1>1. /\ TypeInv /\ Owned /\ now \in Nat /\ a \in DOMAIN accounts
      /\ AccountOrNew(a) = accounts[a]
  BY DEF InterestInv, LockInv, TypeInv, HasJars, AccountOrNew
<1>2. ChangedAt(s) /\ ReceiptsStay /\ DOMAIN receipts' = DOMAIN receipts \ {s}
  BY <1>1, ConsumeChanges
<1>3. ASSUME NEW q \in DOMAIN receipts \cap DOMAIN receipts', receipts[q].kind = "claim",
             receipts[q].account = a
      PROVE  DOMAIN receipts[q].jars \cap ps = {}
  <2>1. q # s /\ q \in Slots /\ s \in Slots
    BY <1>1, <1>2, ReceiptsKnown DEF Known
  <2>2. \A p \in DOMAIN receipts[q].jars : p \in ProductIds /\ Covers(q, a, p)
    BY <1>1, <1>3, ClaimCovers
  <2>3. \A p \in ps : Covers(s, a, p)
    BY DEF Covers
  <2> QED BY <1>1, <2>1, <2>2, <2>3 DEF Owned
<1> QED BY <1>1, <1>2, <1>3, Touched

\* One that finishes its payout, or its claim.
LEMMA FinishedInterest ==
    ASSUME NoScoreBased, InterestInv, TypeInv', now' = now, Audit,
           NEW s \in DOMAIN receipts, Consume(s), HasJars(receipts[s]),
           NEW a \in AccountIds, a = receipts[s].account, NEW before, before = accounts[a],
           NEW after, AccountBy(after, now), SetAccount(a, after),
           NEW ps, ps = DOMAIN receipts[s].jars, KeepsBut(before, after, ps, now),
           Gone(a) \in Nat, PaidNow(a) \in Nat,
           DueIn(before, now) + ClaimAt(s, a) * MsInYear
                = DueIn(after, now) + PaidNow(a) * MsInYear + Gone(a)
    PROVE  InterestKept
<1>1. TypeInv /\ now \in Nat /\ AccountOrNew(a) = accounts[a]
  BY DEF InterestInv, LockInv, TypeInv, HasJars, AccountOrNew
<1>2. ChangedAt(s) /\ DOMAIN receipts' = DOMAIN receipts \ {s}
  BY <1>1, ConsumeChanges
<1>3. AccountOrNew(a)' = after
  BY <1>1, Written
<1>4. ClaimAt(s, a)' = 0
  BY <1>2 DEF ClaimAt
<1>5. ClaimAt(s, a)' + PaidNow(a) = PaidNow(a)
  BY <1>4
<1>6. Books(a)
  BY <1>1, <1>2, <1>3, <1>5, BooksAt
<1> QED BY <1>6, CallbackInterest

\* A claim that was paid: its amount has arrived, and jars that are closed
\* take their fraction of a unit along.
LEMMA AfterClaimInterest ==
    ASSUME NoScoreBased, InterestInv, TypeInv', Audit, NEW s \in Slots, AfterClaim(s)
    PROVE  InterestKept
<1>1. /\ TypeInv /\ now \in Nat /\ s \in DOMAIN receipts /\ now' = now
      /\ HasJars(receipts[s]) /\ Consume(s) /\ receipts[s].status = "succeeded"
      /\ receipts[s].kind = "claim"
      /\ SetAccount(receipts[s].account,
            CloseJars(UnlockJars(accounts[receipts[s].account], DOMAIN receipts[s].jars),
                      DOMAIN receipts[s].jars))
  BY DEF InterestInv, LockInv, TypeInv, AfterClaim, InFlight
<1>2. PICK a, ps : a = receipts[s].account /\ ps = DOMAIN receipts[s].jars
  OBVIOUS
<1>3. PICK before : before = accounts[a]
  OBVIOUS
<1>4. /\ a \in AccountIds /\ a \in DOMAIN accounts /\ before = AccountOrNew(a)
      /\ AccountBy(before, now) /\ receipts[s].amount \in Nat
  <2>1. a \in AccountIds /\ a \in DOMAIN accounts /\ receipts[s].amount \in Nat
    BY <1>1, <1>2, ReceiptsKnown DEF Known, HasJars
  <2> QED BY <1>1, <1>3, <2>1, AccountOrNewType DEF AccountOrNew
<1> DEFINE unlocked == UnlockJars(before, ps)
           after == CloseJars(unlocked, ps)
<1>5. SetAccount(a, after)
  BY <1>1, <1>2, <1>3
<1>6. /\ AccountBy(unlocked, now) /\ KeepsDue(before, unlocked, now)
      /\ DOMAIN unlocked.jars = DOMAIN before.jars
      /\ \A p \in DOMAIN before.jars :
            unlocked.jars[p].claim_remainder = before.jars[p].claim_remainder
  <2>1. AccountBy(unlocked, now) /\ KeepsDue(before, unlocked, now)
    BY <1>1, <1>4, UnlockJarsType, LocksKeep
  <2>2. /\ DOMAIN unlocked.jars = DOMAIN before.jars
        /\ \A p \in DOMAIN before.jars :
            /\ unlocked.jars[p].deposits = before.jars[p].deposits
            /\ unlocked.jars[p].cache = before.jars[p].cache
            /\ unlocked.jars[p].claim_remainder = before.jars[p].claim_remainder
    BY <1>1, <1>4, UnlockedSame
  <2> HIDE DEF unlocked
  <2> QED BY <2>1, <2>2
<1> HIDE DEF unlocked
<1>7. /\ AccountBy(after, now) /\ KeepsBut(unlocked, after, ps, now)
      /\ SumFunctionOnSet(GoneWith(unlocked, after), ProductIds) \in Nat
      /\ DueIn(unlocked, now) = DueIn(after, now)
            + SumFunctionOnSet(GoneWith(unlocked, after), ProductIds)
  BY <1>1, <1>6, CloseJarsType, CloseLoses
<1> HIDE DEF after
<1>8. GoneWith(before, after) = GoneWith(unlocked, after)
  BY <1>6 DEF GoneWith
<1>9. KeepsBut(before, after, ps, now) /\ DueIn(unlocked, now) = DueIn(before, now)
  <2>1. KeepsBut(before, after, {} \cup ps, now)
    BY <1>6, <1>7, KeepsThen DEF KeepsDue
  <2>2. {} \cup ps = ps
    OBVIOUS
  <2> QED BY <1>6, <2>1, <2>2, KeptDue
<1>10. /\ PaidNow(a) = receipts[s].amount
       /\ Gone(a) = SumFunctionOnSet(GoneWith(before, after), ProductIds)
  <2>1. PaidNow(a) = receipts[s].amount /\ Leaving(a) = 0
    BY <1>1, <1>2, ClaimFinishes
  <2>2. accounts'[a] = after
    BY <1>1, <1>4, <1>5, <1>7, Written DEF AccountOrNew
  <2>3. Closing(a) = SumFunctionOnSet(GoneWith(before, after), ProductIds)
    BY <1>1, <1>3, <1>4, <2>2, ClosingGone
  <2> QED BY <1>4, <1>7, <1>8, <2>1, <2>3 DEF Gone
<1>11. ClaimAt(s, a) = receipts[s].amount
  BY <1>1, <1>2 DEF ClaimAt
<1>12. /\ DueIn(before, now) \in Nat /\ DueIn(after, now) \in Nat
       /\ receipts[s].amount * MsInYear \in Nat
  BY <1>1, <1>4, <1>7, JarDueNat, YearsNat
<1>13. DueIn(before, now) + ClaimAt(s, a) * MsInYear
            = DueIn(after, now) + PaidNow(a) * MsInYear + Gone(a)
  <2> DEFINE y == receipts[s].amount * MsInYear
  <2>1. ClaimAt(s, a) * MsInYear = y /\ PaidNow(a) * MsInYear = y /\ y \in Nat
    BY <1>10, <1>11, <1>12
  <2> HIDE DEF y
  <2> QED BY <1>7, <1>8, <1>9, <1>10, <1>12, <2>1
<1> QED BY <1>1, <1>2, <1>3, <1>4, <1>5, <1>7, <1>8, <1>9, <1>10, <1>13, FinishedInterest

\* A claim that failed: its amount goes back into the jars.
LEMMA AfterFailedClaimInterest ==
    ASSUME NoScoreBased, InterestInv, TypeInv', Audit, NEW s \in Slots, AfterFailedClaim(s)
    PROVE  InterestKept
<1>1. /\ TypeInv /\ Owned /\ now \in Nat /\ s \in DOMAIN receipts /\ now' = now
      /\ HasJars(receipts[s]) /\ Consume(s) /\ receipts[s].status = "failed"
      /\ receipts[s].kind = "claim"
      /\ SetAccount(receipts[s].account,
                    RestoreAccount(accounts[receipts[s].account], receipts[s]))
  BY DEF InterestInv, LockInv, TypeInv, AfterFailedClaim, InFlight
<1>2. PICK a, ps : a = receipts[s].account /\ ps = DOMAIN receipts[s].jars
  OBVIOUS
<1>3. PICK before, r : before = accounts[a] /\ r = receipts[s]
  OBVIOUS
<1>4. /\ a \in AccountIds /\ a \in DOMAIN accounts /\ before = AccountOrNew(a)
      /\ AccountBy(before, now) /\ r.amount \in Nat
  <2>1. a \in AccountIds /\ a \in DOMAIN accounts /\ r.amount \in Nat
    BY <1>1, <1>2, <1>3, ReceiptsKnown DEF Known, HasJars
  <2> QED BY <1>1, <1>3, <2>1, AccountOrNewType DEF AccountOrNew
<1>5. /\ Snapshots(r, now) /\ DOMAIN r.jars \subseteq DOMAIN before.jars
      /\ r.timezone \in Timezones \cup {InvalidTimezone} /\ r.score \in AccountScore
  BY <1>1, <1>2, <1>3, <1>4, ClaimCovers
<1>6. Restorable(r, before, now)
  BY <1>1, <1>2, <1>3, <1>4 DEF InterestInv, ClaimsRestorable
<1> DEFINE after == RestoreAccount(before, r)
<1>7. SetAccount(a, after)
  BY <1>1, <1>2, <1>3
<1>8. AccountBy(after, now) /\ DOMAIN after.jars = DOMAIN before.jars
  <2>1. \A p \in DOMAIN r.jars : r.jars[p] \in [claim_remainder : Nat, cache : CacheBy(now)]
    BY <1>5 DEF Snapshots
  <2>2. AccountBy(after, now) /\ LocksSet(before, after, DOMAIN r.jars, FALSE)
    BY <1>1, <1>4, <1>5, <2>1, RestoreAccountType
  <2> HIDE DEF after
  <2> QED BY <2>2 DEF LocksSet
<1>9. /\ KeepsBut(before, after, DOMAIN r.jars, now)
      /\ DueIn(after, now) = DueIn(before, now) + r.amount * MsInYear
  BY <1>1, <1>4, <1>5, <1>6, RestoreGains
<1> HIDE DEF after
<1>10. ChangedAt(s) /\ DOMAIN receipts' = DOMAIN receipts \ {s}
  BY <1>1, ConsumeChanges
<1>11. ClaimAt(s, a) = r.amount /\ ClaimAt(s, a)' = 0
  BY <1>1, <1>2, <1>3, <1>10 DEF ClaimAt
<1>12. AccountOrNew(a)' = after /\ a \in DOMAIN accounts'
  BY <1>1, <1>4, <1>7, <1>8, Written
<1>13. DueIn(before, now) + ClaimAt(s, a) * MsInYear
            = DueIn(after, now) + ClaimAt(s, a)' * MsInYear
  <2>1. /\ DueIn(before, now) \in Nat /\ DueIn(after, now) \in Nat
        /\ r.amount * MsInYear \in Nat
    BY <1>1, <1>4, <1>8, JarDueNat, YearsNat
  <2>2. 0 * MsInYear = 0
    BY InterestAssumption
  <2> QED BY <1>9, <1>11, <2>1, <2>2
<1>14. Books(a)
  BY <1>1, <1>4, <1>8, <1>10, <1>12, <1>13, QuietBooks
<1> QED BY <1>1, <1>2, <1>3, <1>4, <1>7, <1>8, <1>9, <1>14, CallbackInterest

\* Unlocking jars and draining them loses what the deposits take along.
LEMMA UnlockCleanUp ==
    ASSUME NEW t \in Nat, NEW account, AccountBy(account, t), NEW partition,
           NEW unlocked, unlocked = UnlockJars(account, DOMAIN partition),
           CanCleanUpJars(account, partition) \/ CanCleanUpJars(unlocked, partition),
           \A p \in DOMAIN partition : partition[p] \in Nat,
           NEW cleaned, cleaned = CleanUpJars(unlocked, partition)
    PROVE  /\ CanCleanUpJars(account, partition)
           /\ AccountBy(cleaned, t) /\ DOMAIN cleaned.jars = DOMAIN account.jars
           /\ KeepsBut(account, cleaned, DOMAIN partition, t)
           /\ \A p \in DOMAIN account.jars :
                cleaned.jars[p].claim_remainder = account.jars[p].claim_remainder
           /\ SumFunctionOnSet(LeftWith(account, partition, t), ProductIds) \in Nat
           /\ DueIn(account, t) = DueIn(cleaned, t)
                + SumFunctionOnSet(LeftWith(account, partition, t), ProductIds)
<1>1. /\ DOMAIN unlocked.jars = DOMAIN account.jars
      /\ unlocked.features = account.features
      /\ \A p \in DOMAIN account.jars :
            /\ unlocked.jars[p].deposits = account.jars[p].deposits
            /\ unlocked.jars[p].cache = account.jars[p].cache
            /\ unlocked.jars[p].claim_remainder = account.jars[p].claim_remainder
  BY UnlockedSame
<1>2. AccountBy(unlocked, t) /\ KeepsDue(account, unlocked, t)
  BY UnlockJarsType, LocksKeep
<1>3. CanCleanUpJars(account, partition) /\ CanCleanUpJars(unlocked, partition)
  BY <1>1 DEF CanCleanUpJars, CanCleanUp
<1>4. LeftWith(account, partition, t) = LeftWith(unlocked, partition, t)
  <2>1. \A p \in DOMAIN partition : p \in DOMAIN account.jars
    BY <1>3 DEF CanCleanUpJars
  <2>2. \A p : ApyOf(unlocked, p) = ApyOf(account, p)
    BY <1>1 DEF ApyOf
  <2> QED BY <1>1, <2>1, <2>2 DEF LeftWith
<1>5. AccountBy(cleaned, t) /\ DOMAIN cleaned.jars = DOMAIN unlocked.jars
  BY <1>2, <1>3, CleanUpJarsType
<1>6. /\ KeepsBut(unlocked, cleaned, DOMAIN partition, t)
      /\ \A p \in DOMAIN unlocked.jars :
            /\ cleaned.jars[p].cache = unlocked.jars[p].cache
            /\ cleaned.jars[p].claim_remainder = unlocked.jars[p].claim_remainder
      /\ SumFunctionOnSet(LeftWith(unlocked, partition, t), ProductIds) \in Nat
      /\ DueIn(unlocked, t) = DueIn(cleaned, t)
            + SumFunctionOnSet(LeftWith(unlocked, partition, t), ProductIds)
  BY <1>2, <1>3, CleanUpLoses
<1>7. KeepsBut(account, cleaned, DOMAIN partition, t)
  <2>1. KeepsBut(account, cleaned, {} \cup DOMAIN partition, t)
    BY <1>2, <1>6, KeepsThen DEF KeepsDue
  <2>2. {} \cup DOMAIN partition = DOMAIN partition
    OBVIOUS
  <2> QED BY <2>1, <2>2
<1>8. DueIn(unlocked, t) = DueIn(account, t)
  BY <1>2, KeptDue
<1> QED BY <1>1, <1>3, <1>4, <1>5, <1>6, <1>7, <1>8

\* What the callback of a payout that was made finds.
LEMMA PaidPayout ==
    ASSUME InterestInv, NEW s \in DOMAIN receipts, HasJars(receipts[s]),
           IsPayout(receipts[s]), NEW a, a = receipts[s].account
    PROVE  /\ TypeInv /\ now \in Nat /\ a \in AccountIds /\ a \in DOMAIN accounts
           /\ accounts[a] = AccountOrNew(a) /\ AccountBy(accounts[a], now)
           /\ ClaimAt(s, a) = 0
           /\ DOMAIN PartitionOf(receipts[s]) = DOMAIN receipts[s].jars
           /\ \A p \in DOMAIN PartitionOf(receipts[s]) : PartitionOf(receipts[s])[p] \in Nat
<1>1. /\ TypeInv /\ now \in Nat /\ a \in DOMAIN accounts /\ accounts[a] = AccountOrNew(a)
      /\ receipts[s].kind \in {"withdraw", "restake"}
  BY DEF InterestInv, LockInv, TypeInv, HasJars, AccountOrNew, IsPayout
<1>2. a \in AccountIds
  BY <1>1, ReceiptsKnown DEF Known
<1>3. AccountBy(accounts[a], now)
  BY <1>1, <1>2, AccountOrNewType
<1>4. ClaimAt(s, a) = 0
  BY <1>1 DEF ClaimAt
<1>5. DOMAIN PartitionOf(receipts[s]) = DOMAIN receipts[s].jars
  BY DEF PartitionOf
<1> QED BY <1>1, <1>2, <1>3, <1>4, <1>5, PartitionType

\* A withdrawal that was paid: the deposits leave with what they earned, and
\* jars that are closed take their fraction of a unit along.
LEMMA AfterWithdrawInterest ==
    ASSUME NoScoreBased, InterestInv, TypeInv', Audit, NEW s \in Slots, AfterWithdraw(s)
    PROVE  InterestKept
<1>1. /\ s \in DOMAIN receipts /\ now' = now
      /\ HasJars(receipts[s]) /\ Consume(s) /\ receipts[s].status = "succeeded"
      /\ IsPayout(receipts[s])
      /\ CanCleanUpJars(accounts[receipts[s].account], PartitionOf(receipts[s]))
      /\ SetAccount(receipts[s].account,
            CloseJars(CleanUpJars(
                    UnlockJars(accounts[receipts[s].account], DOMAIN receipts[s].jars),
                    PartitionOf(receipts[s])),
                DOMAIN receipts[s].jars))
  BY DEF AfterWithdraw, InFlight, CanFinishWithdrawal, IsPayout
<1>2. PICK a, ps, partition : /\ a = receipts[s].account /\ ps = DOMAIN receipts[s].jars
                              /\ partition = PartitionOf(receipts[s])
  OBVIOUS
<1>3. PICK before, unlocked : before = accounts[a] /\ unlocked = UnlockJars(before, ps)
  OBVIOUS
<1>4. PICK cleaned, after :
        cleaned = CleanUpJars(unlocked, partition) /\ after = CloseJars(cleaned, ps)
  OBVIOUS
<1>5. PICK left, gone :
        /\ left = SumFunctionOnSet(LeftWith(before, partition, now), ProductIds)
        /\ gone = SumFunctionOnSet(GoneWith(cleaned, after), ProductIds)
  OBVIOUS
<1>6. /\ TypeInv /\ now \in Nat /\ a \in AccountIds /\ a \in DOMAIN accounts
      /\ before = AccountOrNew(a) /\ AccountBy(before, now)
      /\ ClaimAt(s, a) = 0 /\ DOMAIN partition = ps
      /\ \A p \in DOMAIN partition : partition[p] \in Nat
  BY <1>1, <1>2, <1>3, PaidPayout
<1>7. CanCleanUpJars(before, partition) /\ SetAccount(a, after)
  BY <1>1, <1>2, <1>3, <1>4
<1>8. /\ AccountBy(cleaned, now) /\ DOMAIN cleaned.jars = DOMAIN before.jars
      /\ KeepsBut(before, cleaned, ps, now)
      /\ \A p \in DOMAIN before.jars :
            cleaned.jars[p].claim_remainder = before.jars[p].claim_remainder
      /\ left \in Nat /\ DueIn(before, now) = DueIn(cleaned, now) + left
  BY <1>3, <1>4, <1>5, <1>6, <1>7, UnlockCleanUp
<1>9. /\ AccountBy(after, now) /\ KeepsBut(cleaned, after, ps, now)
      /\ gone \in Nat /\ DueIn(cleaned, now) = DueIn(after, now) + gone
  BY <1>4, <1>5, <1>6, <1>8, CloseJarsType, CloseLoses
<1>10. GoneWith(before, after) = GoneWith(cleaned, after)
  BY <1>8 DEF GoneWith
<1>11. PaidNow(a) = 0 /\ Gone(a) = left + gone
  <2>1. PaidNow(a) = 0 /\ Leaving(a) = left
    BY <1>1, <1>2, <1>3, <1>5, <1>6, <1>7, PayoutFinishes
  <2>2. accounts'[a] = after
    <3>1. AccountOrNew(a)' = after /\ a \in DOMAIN accounts'
      BY <1>1, <1>6, <1>7, <1>9, Written
    <3> QED BY <3>1 DEF AccountOrNew
  <2>3. Closing(a) = gone
    BY <1>3, <1>5, <1>6, <1>10, <2>2, ClosingGone
  <2> QED BY <1>6, <2>1, <2>3 DEF Gone
<1>12. KeepsBut(before, after, ps, now)
  <2>1. KeepsBut(before, after, ps \cup ps, now)
    BY <1>8, <1>9, KeepsThen
  <2>2. ps \cup ps = ps
    OBVIOUS
  <2> QED BY <2>1, <2>2
<1>13. DueIn(before, now) + ClaimAt(s, a) * MsInYear
            = DueIn(after, now) + PaidNow(a) * MsInYear + Gone(a)
  <2>1. 0 * MsInYear = 0
    BY InterestAssumption
  <2>2. DueIn(after, now) \in Nat
    BY <1>6, <1>9, JarDueNat
  <2> QED BY <1>6, <1>8, <1>9, <1>11, <2>1, <2>2
<1>14. Gone(a) \in Nat /\ PaidNow(a) \in Nat
  BY <1>8, <1>9, <1>11
<1> QED BY <1>1, <1>2, <1>3, <1>6, <1>7, <1>9, <1>12, <1>13, <1>14, FinishedInterest

\* A restake whose remainder was paid: the deposits leave, and what moves
\* starts anew.
LEMMA AfterTransferRemainderInterest ==
    ASSUME NoScoreBased, InterestInv, TypeInv', Audit, NEW s \in Slots, AfterTransferRemainder(s)
    PROVE  InterestKept
<1>1. /\ s \in DOMAIN receipts /\ now' = now
      /\ HasJars(receipts[s]) /\ Consume(s) /\ receipts[s].status = "succeeded"
      /\ IsPayout(receipts[s]) /\ receipts[s].kind = "restake"
      /\ CanCleanUpJars(UnlockJars(accounts[receipts[s].account], DOMAIN receipts[s].jars),
                        PartitionOf(receipts[s]))
      /\ SetAccount(receipts[s].account,
            DepositTo(CleanUpJars(
                    UnlockJars(accounts[receipts[s].account], DOMAIN receipts[s].jars),
                    PartitionOf(receipts[s])),
                receipts[s].target, receipts[s].deposit, now))
  BY DEF AfterTransferRemainder, InFlight, IsPayout, MoveDeposits
<1>2. PICK a, ps, partition : /\ a = receipts[s].account /\ ps = DOMAIN receipts[s].jars
                              /\ partition = PartitionOf(receipts[s])
  OBVIOUS
<1>3. PICK before, unlocked, target, deposit :
        /\ before = accounts[a] /\ unlocked = UnlockJars(before, ps)
        /\ target = receipts[s].target /\ deposit = receipts[s].deposit
  OBVIOUS
<1>4. PICK cleaned, after : /\ cleaned = CleanUpJars(unlocked, partition)
                            /\ after = DepositTo(cleaned, target, deposit, now)
  OBVIOUS
<1>5. PICK left : left = SumFunctionOnSet(LeftWith(before, partition, now), ProductIds)
  OBVIOUS
<1>6. /\ TypeInv /\ now \in Nat /\ a \in AccountIds /\ a \in DOMAIN accounts
      /\ before = AccountOrNew(a) /\ AccountBy(before, now)
      /\ ClaimAt(s, a) = 0 /\ DOMAIN partition = ps
      /\ \A p \in DOMAIN partition : partition[p] \in Nat
  BY <1>1, <1>2, <1>3, PaidPayout
<1>7. CanCleanUpJars(unlocked, partition) /\ SetAccount(a, after)
  BY <1>1, <1>2, <1>3, <1>4
<1>8. target \in ProductIds /\ deposit \in Nat
  BY <1>1, <1>3, <1>6, ReceiptKinds DEF IsRestake
<1>9. /\ CanCleanUpJars(before, partition)
      /\ AccountBy(cleaned, now) /\ DOMAIN cleaned.jars = DOMAIN before.jars
      /\ KeepsBut(before, cleaned, ps, now)
      /\ left \in Nat /\ DueIn(before, now) = DueIn(cleaned, now) + left
  BY <1>3, <1>4, <1>5, <1>6, <1>7, UnlockCleanUp
<1>10. /\ AccountBy(after, now) /\ JarAdded(cleaned, after, target)
       /\ KeepsDue(cleaned, after, now)
  BY <1>4, <1>6, <1>8, <1>9, DepositToType, DepositKeeps
<1>11. DOMAIN before.jars \ DOMAIN after.jars = {}
  BY <1>9, <1>10 DEF JarAdded
<1>12. PaidNow(a) = 0 /\ Gone(a) = left
  <2>1. PaidNow(a) = 0 /\ Leaving(a) = left
    BY <1>1, <1>2, <1>3, <1>5, <1>6, <1>9, PayoutFinishes
  <2>2. accounts'[a] = after
    <3>1. AccountOrNew(a)' = after /\ a \in DOMAIN accounts'
      BY <1>1, <1>6, <1>7, <1>10, Written
    <3> QED BY <3>1 DEF AccountOrNew
  <2>3. Closing(a) = 0
    <3> DEFINE g == GoneWith(before, after)
    <3>1. Closing(a) = SumFunctionOnSet(g, ProductIds)
      BY <1>3, <1>6, <2>2, ClosingGone
    <3>2. \A p \in ProductIds : g[p] = 0
      BY <1>11 DEF GoneWith
    <3> HIDE DEF g
    <3> QED BY <3>1, <3>2, AccountAssumption, SumZero
  <2> QED BY <1>6, <1>9, <2>1, <2>3 DEF Gone
<1>13. KeepsBut(before, after, ps, now) /\ DueIn(after, now) = DueIn(cleaned, now)
  <2>1. KeepsBut(before, after, ps \cup {}, now)
    BY <1>9, <1>10, KeepsThen DEF KeepsDue
  <2>2. ps \cup {} = ps
    OBVIOUS
  <2> QED BY <1>10, <2>1, <2>2, KeptDue
<1>14. DueIn(before, now) + ClaimAt(s, a) * MsInYear
            = DueIn(after, now) + PaidNow(a) * MsInYear + Gone(a)
  <2>1. 0 * MsInYear = 0
    BY InterestAssumption
  <2>2. DueIn(after, now) \in Nat
    BY <1>6, <1>10, JarDueNat
  <2> QED BY <1>6, <1>9, <1>12, <1>13, <2>1, <2>2
<1>15. Gone(a) \in Nat /\ PaidNow(a) \in Nat
  BY <1>9, <1>12
<1> QED BY <1>1, <1>2, <1>3, <1>6, <1>7, <1>10, <1>13, <1>14, <1>15, FinishedInterest

\* set_feature_enabled and set_penalty: what was earned is cached first, so
\* the new rates do not change what the account is due; a snapshot that a
\* claim in flight took would restore it at the new rates.
LEMMA FeatureInterest ==
    ASSUME NoScoreBased, InterestInv, TypeInv', Audit, RatesSteady, NEW a \in AccountIds,
           NEW feature \in Features, NEW is_enabled \in BOOLEAN,
           SetFeatureEnabled(a, feature, is_enabled)
    PROVE  InterestKept
<1>1. TypeInv /\ Owned /\ now \in Nat /\ now' = now /\ UNCHANGED receipts
  BY DEF InterestInv, LockInv, TypeInv, SetFeatureEnabled
<1>2. PICK before : before = AccountOrNew(a)
  OBVIOUS
<1>3. AccountBy(before, now)
  BY <1>1, <1>2, AccountOrNewType
<1> DEFINE updated == IF a \in DOMAIN accounts THEN UpdateAccountCache(before, now) ELSE before
           features == IF is_enabled THEN updated.features \cup {feature}
                       ELSE updated.features \ {feature}
           after == [updated EXCEPT !.features = features]
<1>4. SetAccount(a, after)
  BY <1>2 DEF SetFeatureEnabled, AccountOrNew
<1>5. /\ AccountBy(updated, now) /\ KeepsDue(before, updated, now)
      /\ DOMAIN updated.jars = DOMAIN before.jars
      /\ \A p \in DOMAIN before.jars : \A rate \in Nat :
            Due(rate, p, updated.jars[p], now) = Due(ApyOf(before, p), p, before.jars[p], now)
  <2>1. CASE a \in DOMAIN accounts
    <3> DEFINE cached == UpdateAccountCache(before, now)
    <3>1. AccountBy(cached, now) /\ SameJars(before, cached)
      BY <1>1, <1>3, UpdateAccountCacheType
    <3>2. /\ KeepsDue(before, cached, now)
          /\ \A p \in DOMAIN before.jars : \A rate \in Nat :
                Due(rate, p, cached.jars[p], now) = Due(ApyOf(before, p), p, before.jars[p], now)
      BY <1>1, <1>3, AccountCacheKeeps
    <3>3. updated = cached
      BY <2>1
    <3> HIDE DEF cached, updated
    <3> QED BY <3>1, <3>2, <3>3 DEF SameJars
  <2>2. CASE a \notin DOMAIN accounts
    <3>1. updated = before /\ DOMAIN before.jars = {}
      BY <1>2, <2>2 DEF AccountOrNew, EmptyAccount, EmptyMap
    <3>2. KeepsDue(before, before, now)
      BY KeepsSame
    <3> HIDE DEF updated
    <3> QED BY <1>3, <3>1, <3>2
  <2> QED BY <2>1, <2>2
<1> HIDE DEF updated
<1>6. features \in SUBSET Features
  BY <1>5 DEF AccountBy
<1> HIDE DEF features
<1>7. AccountBy(after, now) /\ after.jars = updated.jars
  BY <1>1, <1>5, <1>6, WithFeatures
<1> HIDE DEF after
<1>8. DOMAIN after.jars = DOMAIN before.jars
  BY <1>5, <1>7
<1>9. DueIn(after, now) = DueIn(before, now)
  <2>1. \A p \in ProductIds : JarsDue(after, now)[p] = JarsDue(before, now)[p]
    <3> SUFFICES ASSUME NEW p \in ProductIds PROVE JarDue(after, p, now) = JarDue(before, p, now)
      BY DEF JarsDue
    <3>1. ApyOf(after, p) \in Nat
      BY ApyNat
    <3> QED BY <1>5, <1>7, <1>8, <3>1 DEF JarDue
  <2> QED BY <2>1, AccountAssumption, SumCongruent DEF DueIn
<1>10. /\ AccountOrNew(a)' = after /\ a \in DOMAIN accounts'
       /\ \A b \in AccountIds : b # a => AccountOrNew(b)' = AccountOrNew(b)
       /\ DOMAIN accounts \subseteq DOMAIN accounts'
  BY <1>1, <1>4, <1>7, Written
<1>11. CASE \E s \in DOMAIN receipts : receipts[s].kind = "claim" /\ receipts[s].account = a
  <2>1. after.features = before.features
    BY <1>2, <1>10, <1>11 DEF RatesSteady
  <2>2. updated.features = before.features
    BY <1>5 DEF KeepsDue, KeepsBut
  <2>3. KeepsDue(updated, after, now)
    BY <1>7, <2>1, <2>2, KeepsSame
  <2>4. KeepsBut(before, after, {} \cup {}, now)
    BY <1>5, <2>3, KeepsThen DEF KeepsDue
  <2>5. KeepsBut(before, after, {}, now)
    BY <2>4
  <2> QED BY <1>1, <1>2, <1>4, <1>7, <1>8, <1>9, <2>5, SendingStep
<1>12. CASE ~ \E s \in DOMAIN receipts : receipts[s].kind = "claim" /\ receipts[s].account = a
  <2>1. ChangedAt(0) /\ DOMAIN receipts' = DOMAIN receipts
    BY <1>1 DEF ChangedAt
  <2>2. \A b : ClaimAt(0, b)' = ClaimAt(0, b)
    BY <1>1 DEF ClaimAt
  <2>3. ASSUME NEW b \in AccountIds PROVE Books(b)
    <3>1. CASE b = a
      <4>1. DueIn(before, now) + ClaimAt(0, a) * MsInYear
                = DueIn(after, now) + ClaimAt(0, a)' * MsInYear
        BY <1>9, <2>2
      <4>2. Books(a)
        BY <1>1, <1>2, <1>8, <1>10, <2>1, <4>1, QuietBooks
      <4> QED BY <3>1, <4>2
    <3>2. CASE b # a
      BY <1>1, <1>10, <2>1, <2>2, <3>2, OtherBooks
    <3> QED BY <3>1, <3>2
  <2>4. LedgerType' /\ Balanced'
    BY <1>1, <2>3, BooksBalance
  <2>5. ASSUME NEW q \in DOMAIN receipts', NEW b \in AccountIds,
               receipts'[q].kind = "claim", receipts'[q].account = b
        PROVE  Restorable(receipts'[q], AccountOrNew(b)', now)
    <3>1. receipts'[q] = receipts[q] /\ q \in DOMAIN receipts
      BY <1>1
    <3>2. b # a
      BY <1>12, <2>5, <3>1
    <3>3. Restorable(receipts[q], AccountOrNew(b), now)
      BY <2>5, <3>1 DEF InterestInv, ClaimsRestorable
    <3>4. AccountOrNew(b)' = AccountOrNew(b)
      BY <1>10, <3>2
    <3> QED BY <3>1, <3>3, <3>4
  <2>6. ClaimsRestorable'
    BY <1>1, <2>5 DEF ClaimsRestorable
  <2> QED BY <2>4, <2>6 DEF InterestKept
<1> QED BY <1>11, <1>12

\* In a tick every account is due more by what the ledger counts as earned.
LEMMA TickDue ==
    ASSUME NoScoreBased, TypeInv, Tick, NEW a \in AccountIds, NEW t, t = now
    PROVE  /\ DueIn(AccountOrNew(a), now) \in Nat /\ Earns(a) \in Nat
           /\ DueIn(AccountOrNew(a), now)' = DueIn(AccountOrNew(a), now) + Earns(a)
<1>1. t \in Nat /\ now' = t + 1 /\ UNCHANGED accounts
  BY DEF TypeInv, Tick
<1>2. DueIn(AccountOrNew(a), now) \in Nat
  BY DuesAreKnown DEF DuesKnown
<1>3. CASE a \in DOMAIN accounts
  <2>1. PICK x : x = accounts[a]
    OBVIOUS
  <2>2. AccountOrNew(a) = x /\ AccountOrNew(a)' = x /\ AccountBy(x, t)
    <3>1. AccountOrNew(a) = x /\ AccountOrNew(a)' = x
      BY <1>1, <1>3, <2>1 DEF AccountOrNew
    <3> QED BY <1>3, <2>1, <3>1, AccountOrNewType
  <2>3. DueIn(AccountOrNew(a), now)' = DueIn(x, t + 1)
    BY <1>1, <2>2
  <2>4. DueIn(x, t + 1) = DueIn(x, t) + SumFunctionOnSet(Paces(x, t), ProductIds)
    BY <1>1, <2>2, AccountTick
  <2>5. Earns(a) \in Nat /\ Earns(a) = SumFunctionOnSet(Paces(x, t), ProductIds)
    BY <1>3, <2>1, EarnsPace
  <2> QED BY <1>2, <2>2, <2>3, <2>4, <2>5
<1>4. CASE a \notin DOMAIN accounts
  <2>1. ASSUME NEW u PROVE DueIn(EmptyAccount(u), u) = 0
    <3> DEFINE f == JarsDue(EmptyAccount(u), u)
    <3>1. \A p \in ProductIds : f[p] = 0
      BY DEF JarsDue, JarDue, EmptyAccount, EmptyMap
    <3> HIDE DEF f
    <3>2. SumFunctionOnSet(f, ProductIds) = 0
      BY <3>1, AccountAssumption, SumZero
    <3> QED BY <3>2 DEF DueIn, f
  <2>2. AccountOrNew(a) = EmptyAccount(now) /\ AccountOrNew(a)' = EmptyAccount(now')
    BY <1>1, <1>4 DEF AccountOrNew
  <2>3. Earns(a) = 0
    BY <1>4, EarnsPace
  <2>4. DueIn(AccountOrNew(a), now)' = DueIn(EmptyAccount(now'), now')
    BY <2>2
  <2> QED BY <2>1, <2>2, <2>3, <2>4
<1> QED BY <1>2, <1>3, <1>4

\* The clock ticks.
LEMMA TickInterest ==
    ASSUME NoScoreBased, InterestInv, TypeInv', Audit, Tick
    PROVE  InterestKept
<1>1. /\ TypeInv /\ Owned /\ Present /\ UNCHANGED <<accounts, receipts>>
  BY DEF InterestInv, LockInv, Tick
<1>2. PICK t : t = now
  OBVIOUS
<1>3. t \in Nat /\ now' = t + 1
  BY <1>1, <1>2 DEF TypeInv, Tick
<1>4. ASSUME NEW a \in AccountIds
      PROVE  PaidNow(a) = 0 /\ Gone(a) = 0
  <2>1. ChangedAt(0) /\ DOMAIN receipts' = DOMAIN receipts
    BY <1>1 DEF ChangedAt
  <2>2. PaidNow(a) = 0 /\ Leaving(a) = 0
    BY <2>1, NothingFinishes
  <2>3. a \in DOMAIN accounts => Closing(a) = 0
    <3> SUFFICES ASSUME a \in DOMAIN accounts PROVE Closing(a) = 0
      OBVIOUS
    <3>1. PICK x : x = accounts[a]
      OBVIOUS
    <3>2. Closing(a) = SumFunctionOnSet(GoneWith(x, x), ProductIds)
      BY <1>1, <3>1, ClosingGone
    <3>3. \A p \in ProductIds : GoneWith(x, x)[p] = 0
      BY DEF GoneWith
    <3> QED BY <3>2, <3>3, AccountAssumption, SumZero
  <2> QED BY <2>2, <2>3 DEF Gone
<1>5. ASSUME NEW a \in AccountIds
      PROVE  /\ earned'[a] = earned[a] + Earns(a) /\ earned[a] \in Nat /\ Earns(a) \in Nat
             /\ paid'[a] = paid[a] /\ paid[a] \in Nat
             /\ forgone'[a] = forgone[a] /\ forgone[a] \in Nat
  <2>1. /\ earned[a] \in Nat /\ paid[a] \in Nat /\ forgone[a] \in Nat
    BY DEF InterestInv, LedgerType
  <2>2. Earns(a) \in Nat
    BY <1>1, EarnsPace
  <2>3. earned'[a] = earned[a] + (now' - now) * Earns(a)
    BY DEF Audit
  <2>4. now' - now = 1 /\ \A e \in Nat : 1 * e = e
    BY <1>2, <1>3
  <2>5. paid'[a] = paid[a] + PaidNow(a) /\ forgone'[a] = forgone[a] + Gone(a)
    BY DEF Audit, Gone
  <2> QED BY <1>4, <2>1, <2>2, <2>3, <2>4, <2>5
<1>6. LedgerType'
  <2>1. /\ earned' = [a \in AccountIds |-> earned'[a]]
        /\ paid' = [a \in AccountIds |-> paid'[a]]
        /\ forgone' = [a \in AccountIds |-> forgone'[a]]
    BY DEF Audit
  <2>2. \A a \in AccountIds : earned'[a] \in Nat /\ paid'[a] \in Nat /\ forgone'[a] \in Nat
    BY <1>5
  <2> QED BY <2>1, <2>2 DEF LedgerType
<1>7. ASSUME NEW a \in AccountIds
      PROVE  (InterestHad(a) * MsInYear + DueIn(AccountOrNew(a), now) + forgone[a] = earned[a])'
  <2> DEFINE due == DueIn(AccountOrNew(a), now)
             duo == DueIn(AccountOrNew(a), now)'
             had == InterestHad(a)
             have == InterestHad(a)'
  <2>1. due \in Nat /\ duo = due + Earns(a)
    BY <1>1, TickDue
  <2>2. had * MsInYear + due + forgone[a] = earned[a]
    BY DEF InterestInv, Balanced
  <2>3. have = had /\ had \in Nat
    <3>1. Claiming(a)' = Claiming(a)
      BY <1>1 DEF Claiming
    <3>2. ChangedAt(0)
      BY <1>1 DEF ChangedAt
    <3>3. Claiming(a) \in Nat
      BY <1>1, <3>2, ClaimingChange DEF InterestInv
    <3> QED BY <1>5, <3>1, <3>3 DEF InterestHad
  <2> HIDE DEF due, duo, had, have
  <2> DEFINE hadY == had * MsInYear
  <2>4. hadY \in Nat /\ have * MsInYear = hadY /\ hadY + due + forgone[a] = earned[a]
    BY <2>2, <2>3, YearsNat
  <2> HIDE DEF hadY
  <2>5. have * MsInYear + duo + forgone'[a] = earned'[a]
    BY <1>5, <2>1, <2>4
  <2> QED BY <2>5 DEF duo, have
<1>8. ASSUME NEW s \in DOMAIN receipts', NEW a \in AccountIds,
             receipts'[s].kind = "claim", receipts'[s].account = a
      PROVE  Restorable(receipts'[s], AccountOrNew(a)', now')
  <2>1. PICK r, x : r = receipts[s] /\ x = accounts[a]
    OBVIOUS
  <2>2. s \in DOMAIN receipts /\ receipts'[s] = r /\ r.kind = "claim" /\ r.account = a
    BY <1>1, <1>8, <2>1
  <2>3. a \in DOMAIN accounts
    BY <1>1, <2>1, <2>2 DEF Present
  <2>4. AccountOrNew(a) = x /\ AccountOrNew(a)' = x /\ AccountBy(x, t)
    <3>1. AccountOrNew(a) = x /\ AccountOrNew(a)' = x
      BY <1>1, <2>1, <2>3 DEF AccountOrNew
    <3> QED BY <1>1, <1>2, <2>1, <2>3, <3>1, AccountOrNewType
  <2>5. Snapshots(r, t) /\ DOMAIN r.jars \subseteq DOMAIN x.jars
    BY <1>1, <1>2, <2>1, <2>2, <2>4, ClaimCovers
  <2>6. Restorable(r, x, t)
    BY <1>2, <2>1, <2>2, <2>4 DEF InterestInv, ClaimsRestorable
  <2>7. Restorable(r, x, t + 1)
    BY <1>3, <2>4, <2>5, <2>6, RestoresTick
  <2> QED BY <1>3, <2>2, <2>4, <2>7
<1>9. ClaimsRestorable'
  BY <1>8 DEF ClaimsRestorable
<1> QED BY <1>6, <1>7, <1>9 DEF InterestKept, Balanced

-----------------------------------------------------------------------------
(* The invariant, and what it says of the calculator's results.             *)

\* Finitely many receipts are in flight.
LEMMA FiniteNext ==
    ASSUME TypeInv, IsFiniteSet(DOMAIN receipts), [Next]_vars
    PROVE  IsFiniteSet(DOMAIN receipts')
<1>1. ASSUME NEW s, Consume(s)
      PROVE  IsFiniteSet(DOMAIN receipts')
  <2>1. DOMAIN receipts' = DOMAIN receipts \ {s}
    BY <1>1, ConsumeType
  <2> QED BY <2>1, FS_Subset
<1>2. ASSUME NEW s \in DOMAIN receipts, NEW status \in {"succeeded", "failed"},
             receipts[s].kind = "stake" => status = "failed",
             receipts' = [receipts EXCEPT ![s].status = status]
      PROVE  IsFiniteSet(DOMAIN receipts')
  BY <1>2
<1>3. ASSUME NEW s, NEW r, Send(s, r)
      PROVE  IsFiniteSet(DOMAIN receipts')
  <2>1. DOMAIN receipts' = DOMAIN receipts \cup {s}
    BY <1>3 DEF Send, Put
  <2> QED BY <2>1, FS_AddElement
<1> QED BY <1>1, <1>2, <1>3, ReceiptsFrom

\* No callback panics: the account is there, and the locks hold its jars.
LEMMA NoPanic ==
    ASSUME InterestInv, NEW s \in Slots
    PROVE  ~CallbackPanics(s)
<1> SUFFICES ASSUME CallbackPanics(s) PROVE FALSE
  OBVIOUS
<1>1. LockInv /\ Present
  BY DEF InterestInv
<1>2. DOMAIN receipts[s].jars = {}
  BY <1>1, HolderRuns
<1>3. receipts[s].account \in DOMAIN accounts
  BY <1>1 DEF CallbackPanics, Present
<1> QED BY <1>2, <1>3 DEF CallbackPanics, CanFinishWithdrawal, HasJars, CanCleanUpJars,
           PartitionOf

\* Every step of the contract keeps the balance.
LEMMA InterestKeptNext ==
    ASSUME ~MaintainerUnlocks, NoScoreBased, InterestInv, TypeInv', Next, Audit,
           ClaimsCached, RatesSteady
    PROVE  InterestKept
<1>1. CASE \E s \in Slots : TokenReceipt(s) \/ ContractReceipt(s)
  <2> PICK s \in Slots : TokenReceipt(s) \/ ContractReceipt(s)
    BY <1>1
  <2>1. ~CallbackPanics(s)
    BY NoPanic
  <2> QED BY <2>1, AnswerInterest, SettledInterest, OnStakeInterest, AfterWithdrawInterest,
             AfterFailureInterest, AfterClaimInterest, AfterFailedClaimInterest,
             AfterTransferRemainderInterest
          DEF TokenReceipt, ContractReceipt, PayoutReceipt
<1>2. CASE \E s \in FreeSlots, a \in AccountIds : UserCall(s, a)
  <2> PICK s \in FreeSlots, a \in AccountIds : UserCall(s, a)
    BY <1>2
  <2> QED BY SendInterest, WithdrawInterest, WithdrawAllInterest, ClaimTotalInterest,
             RestakeInterest DEF UserCall, PayoutCall
<1>3. CASE \E s \in FreeSlots : WithdrawFee(s)
  BY <1>3, SendInterest
<1>4. CASE \E a \in AccountIds : OperatorCall(a)
  <2> PICK a \in AccountIds : OperatorCall(a)
    BY <1>4
  <2> QED BY OracleCalls, FeatureInterest, ScoresInterest
<1>5. CASE \E p \in Managed, e \in BOOLEAN : SetEnabled(p, e)
  BY <1>5, IdleInterest DEF SetEnabled
<1>6. CASE Tick
  BY <1>6, TickInterest
<1> QED BY <1>1, <1>2, <1>3, <1>4, <1>5, <1>6 DEF Next

\* The invariant holds initially: no account has earned anything.
LEMMA InterestInvInit == AuditInit => InterestInv
<1> SUFFICES ASSUME AuditInit PROVE InterestInv
  OBVIOUS
<1>1. Init /\ LockInv /\ TypeInv
  BY LockInvInit DEF AuditInit, LockInv
<1>2. DOMAIN receipts = {} /\ DOMAIN accounts = {}
  BY <1>1 DEF Init, EmptyMap
<1>3. Present /\ ClaimsRestorable /\ IsFiniteSet(DOMAIN receipts)
  BY <1>2, FS_EmptySet DEF Present, ClaimsRestorable
<1>4. LedgerType
  BY DEF AuditInit, ByAccount, LedgerType
<1>5. Balanced
  <2> SUFFICES ASSUME NEW a \in AccountIds
               PROVE  InterestHad(a) * MsInYear + DueIn(AccountOrNew(a), now) + forgone[a]
                        = earned[a]
    BY DEF Balanced
  <2>1. earned[a] = 0 /\ forgone[a] = 0 /\ paid[a] = 0
    BY DEF AuditInit, ByAccount
  <2>2. Claiming(a) = 0
    <3> DEFINE claims == {t \in DOMAIN receipts : receipts[t].kind = "claim"
                                                    /\ receipts[t].account = a}
               f == [s \in claims |-> receipts[s].amount]
    <3>1. claims = {} /\ DOMAIN f = claims
      BY <1>2
    <3>2. Claiming(a) = SumFunctionOnSet(f, DOMAIN f)
      BY DEF Claiming, Total
    <3> HIDE DEF f, claims
    <3> QED BY <3>1, <3>2, SumEmpty
  <2>3. DueIn(AccountOrNew(a), now) = 0
    <3> DEFINE f == JarsDue(AccountOrNew(a), now)
    <3>1. \A p \in ProductIds : f[p] = 0
      BY <1>2 DEF AccountOrNew, JarsDue, JarDue, EmptyAccount, EmptyMap
    <3> HIDE DEF f
    <3>2. SumFunctionOnSet(f, ProductIds) = 0
      BY <3>1, AccountAssumption, SumZero
    <3> QED BY <3>2 DEF DueIn, f
  <2>4. 0 * MsInYear = 0
    BY InterestAssumption
  <2>5. InterestHad(a) = 0
    BY <2>1, <2>2 DEF InterestHad
  <2> QED BY <2>1, <2>3, <2>4, <2>5
<1> QED BY <1>1, <1>3, <1>4, <1>5 DEF InterestInv

\* Every step that is not one of the two that break it keeps it.
LEMMA InterestInvNext ==
    ASSUME ~MaintainerUnlocks, NoScoreBased, InterestInv, [Next /\ Audit]_auditVars,
           [ClaimsCached /\ RatesSteady]_auditVars
    PROVE  InterestInv'
<1>1. TypeInv /\ LockInv /\ Present /\ IsFiniteSet(DOMAIN receipts)
  BY DEF InterestInv, LockInv
<1>2. [Next]_vars
  BY DEF auditVars
<1>3. LockInv' /\ TypeInv' /\ Present' /\ IsFiniteSet(DOMAIN receipts')
  BY <1>1, <1>2, LockInvNext, PresentNext, FiniteNext DEF LockInv
<1>4. LedgerType' /\ Balanced' /\ ClaimsRestorable'
  <2>1. CASE UNCHANGED auditVars
    <3>1. UNCHANGED <<now, accounts, receipts, earned, forgone, paid>>
      BY <2>1 DEF auditVars, vars
    <3>2. LedgerType /\ Balanced /\ ClaimsRestorable
      BY DEF InterestInv
    <3>3. LedgerType'
      BY <3>1, <3>2 DEF LedgerType
    <3>4. Balanced'
      BY <3>1, <3>2 DEF Balanced, InterestHad, Claiming, AccountOrNew
    <3>5. ClaimsRestorable'
      BY <3>1, <3>2 DEF ClaimsRestorable, AccountOrNew
    <3> QED BY <3>3, <3>4, <3>5
  <2>2. CASE Next /\ Audit /\ ClaimsCached /\ RatesSteady
    BY <1>3, <2>2, InterestKeptNext DEF InterestKept
  <2> QED BY <2>1, <2>2
<1> QED BY <1>3, <1>4 DEF InterestInv

\* The calculator's results for an account add up to what it is due.
LEMMA AccountInterestDue ==
    ASSUME NoScoreBased, NEW t \in Nat, NEW account, AccountBy(account, t),
           NEW whole, whole = [p \in DOMAIN account.jars |-> InterestOf(account, p, t).interest],
           NEW rest, rest = [p \in DOMAIN account.jars |-> InterestOf(account, p, t).remainder]
    PROVE  /\ Total(whole) \in Nat /\ Total(rest) \in Nat
           /\ DueIn(account, t) = Total(whole) * MsInYear + Total(rest)
<1> DEFINE D == DOMAIN account.jars
           years == [p \in ProductIds |-> IF p \in D THEN whole[p] * MsInYear ELSE 0]
           fractions == [p \in ProductIds |-> IF p \in D THEN rest[p] ELSE 0]
           dues == JarsDue(account, t)
<1>1. D \in SUBSET ProductIds /\ IsFiniteSet(ProductIds)
  BY AccountAssumption DEF AccountBy, IsMap
<1>2. ASSUME NEW p \in D
      PROVE  /\ whole[p] \in Nat /\ rest[p] \in Nat
             /\ whole[p] * MsInYear + rest[p] = Due(ApyOf(account, p), p, account.jars[p], t)
  <2> DEFINE accrual == InterestOf(account, p, t)
  <2>1. /\ accrual \in Accrual
        /\ accrual.interest * MsInYear + accrual.remainder
                = Due(ApyOf(account, p), p, account.jars[p], t)
    BY InterestDue
  <2>2. whole[p] = accrual.interest /\ rest[p] = accrual.remainder
    OBVIOUS
  <2> HIDE DEF accrual
  <2>3. accrual.interest \in Nat /\ accrual.remainder \in Nat
    BY <2>1 DEF Accrual
  <2> QED BY <2>1, <2>2, <2>3
<1>3. whole \in [D -> Nat]
  <2>1. whole = [p \in D |-> whole[p]]
    OBVIOUS
  <2> HIDE DEF D
  <2> QED BY <1>2, <2>1
<1>4. Total(whole) \in Nat /\ SumFunctionOnSet(years, ProductIds) = Total(whole) * MsInYear
  BY <1>1, <1>3, YearsOver
<1>5. ASSUME NEW p \in ProductIds
      PROVE  /\ years[p] \in Nat /\ fractions[p] \in Nat
             /\ dues[p] = years[p] + fractions[p]
  <2>1. CASE p \in D
    <3>1. years[p] = whole[p] * MsInYear /\ fractions[p] = rest[p]
      BY <2>1
    <3>2. dues[p] = Due(ApyOf(account, p), p, account.jars[p], t)
      BY <2>1 DEF JarsDue, JarDue
    <3>3. whole[p] \in Nat /\ rest[p] \in Nat /\ whole[p] * MsInYear \in Nat
      BY <1>2, <2>1, YearsNat
    <3> QED BY <1>2, <2>1, <3>1, <3>2, <3>3
  <2>2. CASE p \notin D
    BY <2>2 DEF JarsDue, JarDue
  <2> QED BY <2>1, <2>2
<1>6. Total(rest) = SumFunctionOnSet(fractions, ProductIds)
  <2>1. Total(rest) = SumFunctionOnSet(rest, D)
    BY DEF Total
  <2>2. \A p \in D : fractions[p] \in Int /\ rest[p] = fractions[p]
    <3> SUFFICES ASSUME NEW p \in D PROVE fractions[p] \in Int /\ rest[p] = fractions[p]
      OBVIOUS
    <3>1. p \in ProductIds /\ rest[p] \in Nat
      BY <1>1, <1>2
    <3>2. fractions[p] = rest[p]
      BY <3>1
    <3> HIDE DEF fractions
    <3> QED BY <3>1, <3>2
  <2>3. \A p \in ProductIds \ D : fractions[p] = 0
    OBVIOUS
  <2> HIDE DEF D, fractions
  <2>4. \A g : (\A p \in D : fractions[p] \in Int /\ g[p] = fractions[p]) =>
            SumFunctionOnSet(fractions, ProductIds) = SumFunctionOnSet(g, D)
    BY <1>1, <2>3, SumSupport
  <2> QED BY <2>1, <2>2, <2>4
<1> HIDE DEF D, years, fractions, dues
<1>7. /\ SumFunctionOnSet(years, ProductIds) \in Nat /\ SumFunctionOnSet(fractions, ProductIds) \in Nat
      /\ SumFunctionOnSet(dues, ProductIds)
            = SumFunctionOnSet(years, ProductIds) + SumFunctionOnSet(fractions, ProductIds)
  <2>1. \A p \in ProductIds : years[p] \in Int /\ fractions[p] \in Int
    BY <1>5
  <2> QED BY <1>1, <1>5, <2>1, SumNat, SumPlus
<1> QED BY <1>4, <1>6, <1>7 DEF DueIn, dues

\* The interest of an account that is on its way is a natural number.
LEMMA ClaimingNat ==
    ASSUME TypeInv, IsFiniteSet(DOMAIN receipts), NEW a
    PROVE  Claiming(a) \in Nat
<1> DEFINE S == {x \in DOMAIN receipts : receipts[x].kind = "claim" /\ receipts[x].account = a}
           f == [x \in S |-> receipts[x].amount]
<1>1. IsFiniteSet(S)
  BY FS_Subset
<1>2. \A x \in S : f[x] \in Nat
  BY ReceiptsKnown DEF Known
<1>3. Claiming(a) = SumFunctionOnSet(f, S)
  BY DEF Claiming, Total
<1> HIDE DEF S, f
<1> QED BY <1>1, <1>2, <1>3, SumNat

\* What the invariant says of the calculator's results.
LEMMA InterestInvConserved == NoScoreBased /\ InterestInv => InterestConserved
<1> SUFFICES ASSUME NoScoreBased, InterestInv, NEW a \in AccountIds
             PROVE  (InterestHad(a) + Claimables(a)) * MsInYear + Fractions(a) + forgone[a]
                        = earned[a]
  BY DEF InterestConserved
<1>1. TypeInv /\ now \in Nat
  BY DEF InterestInv, LockInv, TypeInv
<1>2. PICK x : x = AccountOrNew(a)
  OBVIOUS
<1>3. AccountBy(x, now)
  BY <1>1, <1>2, AccountOrNewType
<1> DEFINE whole == [p \in DOMAIN x.jars |-> InterestOf(x, p, now).interest]
           rest == [p \in DOMAIN x.jars |-> InterestOf(x, p, now).remainder]
<1>4. Claimables(a) = Total(whole) /\ Fractions(a) = Total(rest)
  <2>1. JarIds(a) = DOMAIN x.jars
    BY <1>2 DEF JarIds, AccountOrNew, EmptyAccount, EmptyMap, JarsOf
  <2>2. \A p \in JarIds(a) : accounts[a] = x
    BY <1>2 DEF JarIds, AccountOrNew
  <2>3. [p \in JarIds(a) |-> InterestOf(accounts[a], p, now).interest] = whole
    BY <2>1, <2>2
  <2>4. [p \in JarIds(a) |-> InterestOf(accounts[a], p, now).remainder] = rest
    BY <2>1, <2>2
  <2> HIDE DEF whole, rest
  <2> QED BY <2>3, <2>4 DEF Claimables, Fractions
<1>5. /\ Total(whole) \in Nat /\ Total(rest) \in Nat
      /\ DueIn(x, now) = Total(whole) * MsInYear + Total(rest)
  BY <1>1, <1>3, AccountInterestDue
<1> HIDE DEF whole, rest
<1> DEFINE had == InterestHad(a)
<1>6. had \in Nat /\ forgone[a] \in Nat /\ earned[a] \in Nat
  <2>1. Claiming(a) \in Nat
    BY <1>1, ClaimingNat DEF InterestInv
  <2> QED BY <2>1 DEF InterestInv, LedgerType, InterestHad
<1>7. had * MsInYear + DueIn(x, now) + forgone[a] = earned[a]
  BY <1>2 DEF InterestInv, Balanced
<1> HIDE DEF had
<1>8. \A m, n \in Nat : /\ m * MsInYear \in Nat
                        /\ (m + n) * MsInYear = m * MsInYear + n * MsInYear
  BY InterestAssumption
<1> DEFINE hadY == had * MsInYear
           wholeY == Total(whole) * MsInYear
           both == (had + Total(whole)) * MsInYear
<1>9. both = hadY + wholeY /\ hadY \in Nat /\ wholeY \in Nat
  BY <1>5, <1>6, <1>8
<1>10. hadY + (wholeY + Total(rest)) + forgone[a] = earned[a]
  BY <1>5, <1>7
<1> HIDE DEF hadY, wholeY, both
<1>11. both + Total(rest) + forgone[a] = earned[a]
  BY <1>5, <1>6, <1>9, <1>10
<1> QED BY <1>4, <1>11 DEF both, had

\* Whatever the interleaving of deposits, claims, withdrawals, restakes, their
\* callbacks and rollbacks and the clock, of fixed and flexible products: what
\* the deposits of an account earned at the rate of each millisecond has been
\* paid to it, is on its way, is what the calculator would pay for its jars,
\* or was given up with a deposit that left, exactly once, to the last
\* fraction of a unit. Two calls break this, and are ruled out: a claim of the
\* interest of a jar that was never cached, and a change of an account's
\* features while a claim of it is in flight.
THEOREM InterestIsConserved ==
    ASSUME ~MaintainerUnlocks, NoScoreBased
    PROVE  AuditSpec /\ [][ClaimsCached /\ RatesSteady]_auditVars => []InterestConserved
<1>1. AuditInit => InterestInv
  BY InterestInvInit
<1>2. InterestInv /\ [Next /\ Audit]_auditVars /\ [ClaimsCached /\ RatesSteady]_auditVars
        => InterestInv'
  BY InterestInvNext
<1>3. InterestInv => InterestConserved
  BY InterestInvConserved
<1> QED BY <1>1, <1>2, <1>3, PTL DEF AuditSpec

-----------------------------------------------------------------------------
(* What the callback of a failed claim restores.                            *)

\* What a claim took from a jar can be claimed again, jar by jar.
LEMMA RestoredInterest ==
    ASSUME NoScoreBased, NEW t \in Nat, NEW account, AccountBy(account, t), NEW r,
           r.timezone \in Timezones \cup {InvalidTimezone}, r.score \in AccountScore,
           Snapshots(r, t), DOMAIN r.jars \subseteq DOMAIN account.jars,
           Restorable(r, account, t)
    PROVE  InterestIn(RestoreAccount(account, r), DOMAIN r.jars, t) >= r.amount
<1> DEFINE jars == [p \in DOMAIN account.jars |->
                IF p \in DOMAIN r.jars THEN ApplyRollback(account.jars[p], r.jars[p])
                ELSE account.jars[p]]
<1>1. PICK after, settled : /\ after = RestoreAccount(account, r)
                            /\ settled = SettleInterest(after, t)
  OBVIOUS
<1>2. PICK D : D = DOMAIN r.jars
  OBVIOUS
<1>3. after.jars = jars /\ after.features = account.features
  <2>1. after = [account EXCEPT !.jars = jars, !.timezone = r.timezone, !.score = r.score]
    BY <1>1 DEF RestoreAccount
  <2> HIDE DEF jars
  <2> QED BY <2>1 DEF AccountBy
<1>4. AccountBy(after, t)
  BY <1>1, RestoreAccountType DEF Snapshots
<1>5. /\ AccountBy(settled, t) /\ settled.jars = jars /\ settled.features = account.features
  BY <1>1, <1>3, <1>4, SettledJars, SettleInterestType
<1>6. PICK taken \in [D -> Nat] : Restores(r, account, t, taken)
  BY <1>2 DEF Restorable
<1> DEFINE got == [p \in D |-> InterestOf(settled, p, t).interest]
<1>7. ASSUME NEW p \in D
      PROVE  got[p] \in Nat /\ taken[p] \in Nat /\ taken[p] <= got[p]
  <2>1. PICK n, before : /\ n = InterestOf(settled, p, t)
                         /\ before = Due(ApyOf(account, p), p, account.jars[p], t)
    OBVIOUS
  <2>2. p \in DOMAIN account.jars /\ p \in DOMAIN settled.jars /\ p \in ProductIds
    BY <1>2, <1>5 DEF AccountBy, IsMap
  <2>3. settled.jars[p] = ApplyRollback(account.jars[p], r.jars[p])
    BY <1>2, <1>5, <2>2
  <2>4. ApyOf(settled, p) = ApyOf(account, p)
    BY <1>5 DEF ApyOf
  <2>5. /\ n \in Accrual /\ n.remainder < MsInYear
        /\ n.interest * MsInYear + n.remainder
            = Due(ApyOf(settled, p), p, settled.jars[p], t)
    BY <1>5, <2>1, <2>2, InterestSplit, InterestDue
  <2>6. Due(ApyOf(account, p), p, ApplyRollback(account.jars[p], r.jars[p]), t)
            = before + taken[p] * MsInYear
    BY <1>2, <1>6, <2>1 DEF Restores
  <2>7. before \in Nat
    <3>1. account.jars[p] \in JarBy(t)
      BY <2>2 DEF AccountBy, JarsBy
    <3> QED BY <2>1, <2>2, <3>1, ApyNat, DueNat
  <2>8. n.interest \in Nat /\ n.remainder \in Nat /\ taken[p] \in Nat
    BY <2>5 DEF Accrual
  <2>9. taken[p] * MsInYear \in Nat /\ n.interest * MsInYear \in Nat
    BY <2>8, YearsNat
  <2>10. taken[p] * MsInYear + 0 <= n.interest * MsInYear + n.remainder
    <3>1. PICK u \in Nat, v \in Nat : u = taken[p] * MsInYear /\ v = n.interest * MsInYear
      BY <2>9
    <3>2. v + n.remainder = before + u
      BY <2>3, <2>4, <2>5, <2>6, <3>1
    <3>3. u + 0 <= v + n.remainder
      BY <2>7, <2>8, <3>2
    <3> QED BY <3>1, <3>3
  <2>11. taken[p] <= n.interest
    BY <2>5, <2>8, <2>10, InterestAssumption, QuotientsOrdered
  <2> QED BY <2>1, <2>8, <2>11
<1>8. IsFiniteSet(D)
  <2>1. D \subseteq ProductIds
    BY <1>2 DEF Snapshots
  <2> QED BY <2>1, AccountAssumption, FS_Subset
<1>9. Total(taken) = r.amount /\ Total(taken) = SumFunctionOnSet(taken, D)
  BY <1>6 DEF Restores, Total
<1>10. InterestIn(after, D, t) = SumFunctionOnSet(got, D)
  BY <1>1 DEF InterestIn, Total
<1> HIDE DEF got
<1>11. /\ SumFunctionOnSet(taken, D) \in Nat /\ SumFunctionOnSet(got, D) \in Nat
       /\ SumFunctionOnSet(taken, D) <= SumFunctionOnSet(got, D)
  BY <1>7, <1>8, SumOrdered
<1> QED BY <1>1, <1>2, <1>9, <1>10, <1>11

\* The callback of a failed claim restores its amount.
LEMMA FailedClaimRestored ==
    ASSUME NoScoreBased, InterestInv, [Next]_vars, NEW r \in Failing({"claim"})
    PROVE  InterestIn(accounts'[r.account], DOMAIN r.jars, now') >= r.amount
<1>1. PICK s \in DOMAIN receipts :
        /\ receipts[s] = r /\ s \notin DOMAIN receipts'
        /\ r.kind = "claim" /\ r.status = "failed"
  BY DEF Failing
<1>2. TypeInv /\ now \in Nat /\ s \in Slots
  BY DEF InterestInv, LockInv, TypeInv, ReceiptsBy, IsMap
<1>3. AfterFailedClaim(s)
  <2>1. RefundStake(s) \/ ContractReceipt(s)
    BY <1>1, Consumed
  <2>2. ~RefundStake(s) /\ ~OnStake(s) /\ ~OnStakePanics(s)
    BY <1>1 DEF RefundStake, OnStake, OnStakePanics, InFlight
  <2>3. /\ ~AfterWithdraw(s) /\ ~AfterFailedWithdraw(s) /\ ~AfterClaim(s)
        /\ ~AfterTransferRemainder(s) /\ ~AfterFailedTransferRemainder(s)
    BY <1>1 DEF AfterWithdraw, AfterFailedWithdraw, AfterClaim, AfterTransferRemainder,
                AfterFailedTransferRemainder, InFlight
  <2>4. ~AfterFeeWithdrawn(s) /\ ~AfterFailedFeeWithdrawal(s)
    BY <1>1 DEF AfterFeeWithdrawn, AfterFailedFeeWithdrawal, InFlight
  <2> QED BY <1>2, <2>1, <2>2, <2>3, <2>4, NoPanic DEF ContractReceipt, PayoutReceipt
<1>4. /\ now' = now /\ HasJars(r) /\ SetAccount(r.account, RestoreAccount(accounts[r.account], r))
  BY <1>1, <1>3 DEF AfterFailedClaim
<1>5. PICK a, x : a = r.account /\ x = accounts[a]
  OBVIOUS
<1>6. /\ a \in AccountIds /\ a \in DOMAIN accounts /\ x = AccountOrNew(a) /\ AccountBy(x, now)
  <2>1. a \in AccountIds /\ a \in DOMAIN accounts
    BY <1>1, <1>2, <1>4, <1>5, ReceiptsKnown DEF Known, HasJars
  <2> QED BY <1>2, <1>5, <2>1, AccountOrNewType DEF AccountOrNew
<1>7. /\ Snapshots(r, now) /\ DOMAIN r.jars \subseteq DOMAIN x.jars
      /\ r.timezone \in Timezones \cup {InvalidTimezone} /\ r.score \in AccountScore
  <2>1. LockInv /\ Owned
    BY DEF InterestInv, LockInv
  <2> QED BY <1>1, <1>2, <1>4, <1>5, <1>6, <2>1, ClaimCovers
<1>8. Restorable(r, x, now)
  BY <1>1, <1>5, <1>6 DEF InterestInv, ClaimsRestorable
<1>9. InterestIn(RestoreAccount(x, r), DOMAIN r.jars, now) >= r.amount
  BY <1>2, <1>6, <1>7, <1>8, RestoredInterest
<1>10. accounts'[a] = RestoreAccount(x, r)
  <2>1. PICK y : y = RestoreAccount(x, r)
    OBVIOUS
  <2>2. accounts' = Put(accounts, a, y)
    BY <1>4, <1>5, <2>1 DEF SetAccount
  <2>3. IsMap(accounts, AccountIds)
    BY <1>2 DEF TypeInv, AccountsBy
  <2> QED BY <1>6, <2>1, <2>2, <2>3, PutMap, SMTT(20)
<1> QED BY <1>4, <1>5, <1>9, <1>10

\* When the transfer of a claim of fixed or flexible products fails, at least
\* its amount can be claimed again from its jars, whatever was deposited,
\* withdrawn, cached or counted in days since (claim_rollback "must cover every
\* piece of account state claim_total mutates"). The rollback of a jar that
\* was never cached, and a change of the rates in flight, are ruled out.
THEOREM FailedClaimsRestored ==
    ASSUME ~MaintainerUnlocks, NoScoreBased
    PROVE  AuditSpec /\ [][ClaimsCached /\ RatesSteady]_auditVars => FailedClaimKeepsInterest
<1>1. AuditInit => InterestInv
  BY InterestInvInit
<1>2. InterestInv /\ [Next /\ Audit]_auditVars /\ [ClaimsCached /\ RatesSteady]_auditVars
        => InterestInv'
  BY InterestInvNext
<1>3. ASSUME InterestInv, [Next /\ Audit]_auditVars
      PROVE  [\A r \in Failing({"claim"}) :
                InterestIn(accounts'[r.account], DOMAIN r.jars, now') >= r.amount]_vars
  <2>1. [Next]_vars
    BY <1>3 DEF auditVars
  <2> QED BY <1>3, <2>1, FailedClaimRestored
<1> QED BY <1>1, <1>2, <1>3, PTL DEF AuditSpec, FailedClaimKeepsInterest

-----------------------------------------------------------------------------
(* Where nothing is restaked and no feature switched, the two cases that   *)
(* break the law cannot arise.                                             *)

\* No rate of the account can change, and every jar but those in S was cached.
PlainBut(account, S) ==
    account.features = {} /\ \A p \in DOMAIN account.jars \ S : account.jars[p].cache # NoCache

Plain(account) == PlainBut(account, {})

AllPlain == \A a \in DOMAIN accounts : Plain(accounts[a])

NoRestake == \A s \in DOMAIN receipts : receipts[s].kind # "restake"

\* Caching jars leaves none of them without a cache.
LEMMA CachesPlain ==
    ASSUME NEW t \in Nat \ {0}, NEW account, AccountBy(account, t), NEW ps, PlainBut(account, ps)
    PROVE  Plain(UpdateJarCaches(account, ps, t))
<1> DEFINE jars == [p \in DOMAIN account.jars |->
                IF p \in ps THEN UpdateCache(account.jars[p], InterestOf(account, p, t), t)
                ELSE account.jars[p]]
<1>1. UpdateJarCaches(account, ps, t) = [account EXCEPT !.jars = jars]
  BY DEF UpdateJarCaches
<1>2. ASSUME NEW p \in DOMAIN account.jars
      PROVE  jars[p].cache # NoCache
  <2>1. CASE p \in ps
    <3> DEFINE accrual == InterestOf(account, p, t)
    <3>1. account.jars[p] \in JarBy(t)
      BY DEF AccountBy, JarsBy
    <3>2. jars[p] = UpdateCache(account.jars[p], accrual, t)
      BY <2>1
    <3> HIDE DEF accrual, jars
    <3>3. jars[p].cache.updated_at = t
      BY <3>1, <3>2 DEF UpdateCache, JarBy
    <3> QED BY <3>3 DEF NoCache
  <2>2. CASE p \notin ps
    BY <2>2 DEF PlainBut
  <2> QED BY <2>1, <2>2
<1>3. DOMAIN jars = DOMAIN account.jars
  OBVIOUS
<1> HIDE DEF jars
<1> QED BY <1>1, <1>2, <1>3, WrittenJars DEF Plain, PlainBut

\* A method that keeps the caches and the features, of the jars it keeps.
LEMMA KeepsPlain ==
    ASSUME NEW account, Plain(account), NEW after, after.features = account.features,
           DOMAIN after.jars \subseteq DOMAIN account.jars,
           \A p \in DOMAIN after.jars : after.jars[p].cache = account.jars[p].cache
    PROVE  Plain(after)
BY DEF Plain, PlainBut

\* Locks, which are not caches.
LEMMA LocksPlain ==
    ASSUME NEW t \in Nat, NEW account, AccountBy(account, t), Plain(account), NEW ps
    PROVE  Plain(LockJars(account, ps)) /\ Plain(UnlockJars(account, ps))
<1> DEFINE locked == [p \in DOMAIN account.jars |->
                IF p \in ps THEN Lock(account.jars[p]) ELSE account.jars[p]]
<1>1. Plain(UnlockJars(account, ps))
  <2>1. /\ DOMAIN UnlockJars(account, ps).jars = DOMAIN account.jars
        /\ UnlockJars(account, ps).features = account.features
        /\ \A p \in DOMAIN account.jars :
                UnlockJars(account, ps).jars[p].cache = account.jars[p].cache
    BY UnlockedSame
  <2> QED BY <2>1, KeepsPlain
<1>2. Plain(LockJars(account, ps))
  <2>1. LockJars(account, ps) = [account EXCEPT !.jars = locked]
    BY DEF LockJars
  <2>2. \A p \in DOMAIN account.jars : locked[p].cache = account.jars[p].cache
    <3> SUFFICES ASSUME NEW p \in DOMAIN account.jars
                 PROVE  locked[p].cache = account.jars[p].cache
      OBVIOUS
    <3>1. account.jars[p] \in JarBy(t)
      BY DEF AccountBy, JarsBy
    <3> QED BY <3>1 DEF Lock, JarBy
  <2>3. DOMAIN locked = DOMAIN account.jars
    OBVIOUS
  <2> HIDE DEF locked
  <2>4. LockJars(account, ps).jars = locked /\ LockJars(account, ps).features = account.features
    BY <2>1, WrittenJars
  <2> QED BY <2>2, <2>3, <2>4, KeepsPlain
<1> QED BY <1>1, <1>2

\* The jars a claim takes its interest from are cached by it.
LEMMA ClaimPlain ==
    ASSUME NEW account, AccountBy(account, now), now \in Nat \ {0}, Plain(account), NEW ps
    PROVE  Plain(ClaimJars(account, ps))
<1> DEFINE jars == [p \in DOMAIN account.jars |->
                IF p \in ps
                THEN Lock(UpdateCache(account.jars[p],
                        [interest |-> 0, remainder |-> InterestOf(account, p, now).remainder],
                        now))
                ELSE account.jars[p]]
<1>1. ClaimJars(account, ps) = [account EXCEPT !.jars = jars]
  BY DEF ClaimJars
<1>2. ASSUME NEW p \in DOMAIN account.jars
      PROVE  jars[p].cache # NoCache
  <2>1. CASE p \in ps
    <3> DEFINE accrual == [interest |-> 0, remainder |-> InterestOf(account, p, now).remainder]
    <3>1. account.jars[p] \in JarBy(now)
      BY DEF AccountBy, JarsBy
    <3>2. jars[p] = Lock(UpdateCache(account.jars[p], accrual, now))
      BY <2>1
    <3> HIDE DEF accrual, jars
    <3>3. jars[p].cache.updated_at = now
      BY <3>1, <3>2 DEF UpdateCache, Lock, JarBy
    <3> QED BY <3>3 DEF NoCache
  <2>2. CASE p \notin ps
    BY <2>2 DEF Plain, PlainBut
  <2> QED BY <2>1, <2>2
<1>3. DOMAIN jars = DOMAIN account.jars
  OBVIOUS
<1> HIDE DEF jars
<1> QED BY <1>1, <1>2, <1>3, WrittenJars DEF Plain, PlainBut

\* A snapshot without a cache restores none.
LEMMA RestorePlain ==
    ASSUME NEW t \in Nat, NEW account, AccountBy(account, t), Plain(account), NEW rollback
    PROVE  Plain(RestoreAccount(account, rollback))
<1> DEFINE jars == [p \in DOMAIN account.jars |->
                IF p \in DOMAIN rollback.jars
                THEN ApplyRollback(account.jars[p], rollback.jars[p]) ELSE account.jars[p]]
           after == RestoreAccount(account, rollback)
<1>1. after.jars = jars /\ after.features = account.features
  BY DEF RestoreAccount, AccountBy
<1>2. ASSUME NEW p \in DOMAIN account.jars
      PROVE  jars[p].cache # NoCache
  <2>1. account.jars[p] \in JarBy(t) /\ account.jars[p].cache # NoCache
    BY DEF AccountBy, JarsBy, Plain, PlainBut
  <2>2. CASE p \in DOMAIN rollback.jars
    <3>1. jars[p] = ApplyRollback(account.jars[p], rollback.jars[p])
      BY <2>2
    <3> HIDE DEF jars
    <3>2. jars[p].cache = IF rollback.jars[p].cache = NoCache THEN account.jars[p].cache
                          ELSE rollback.jars[p].cache
      BY <2>1, <3>1 DEF ApplyRollback, JarBy
    <3> QED BY <2>1, <3>2
  <2>3. CASE p \notin DOMAIN rollback.jars
    BY <2>1, <2>3
  <2> QED BY <2>2, <2>3
<1>3. DOMAIN jars = DOMAIN account.jars
  OBVIOUS
<1> HIDE DEF jars, after
<1> QED BY <1>1, <1>2, <1>3 DEF Plain, PlainBut, after

\* Closing a jar keeps the caches of the others.
LEMMA ClosePlain ==
    ASSUME NEW t \in Nat, NEW account, AccountBy(account, t), Plain(account), NEW ps
    PROVE  Plain(CloseJars(account, ps))
<1>1. CloseJars(account, ps).features = account.features
  BY DEF CloseJars, AccountBy
<1>2. \A p \in DOMAIN CloseJars(account, ps).jars :
        p \in DOMAIN account.jars /\ CloseJars(account, ps).jars[p] = account.jars[p]
  BY CloseJarsType DEF JarsClosed
<1> QED BY <1>1, <1>2, KeepsPlain

\* Draining a jar keeps its cache.
LEMMA CleanUpPlain ==
    ASSUME NEW t \in Nat, NEW account, AccountBy(account, t), Plain(account), NEW partition,
           CanCleanUpJars(account, partition), \A p \in DOMAIN partition : partition[p] \in Nat
    PROVE  Plain(CleanUpJars(account, partition))
<1> DEFINE after == CleanUpJars(account, partition)
<1>1. \A p \in DOMAIN account.jars : after.jars[p].cache = account.jars[p].cache
  BY CleanUpLoses
<1>2. DOMAIN after.jars = DOMAIN account.jars
  BY CleanUpJarsType
<1>3. after.features = account.features
  BY DEF CleanUpJars, AccountBy
<1> HIDE DEF after
<1> QED BY <1>1, <1>2, <1>3, KeepsPlain DEF after

\* The step writes no account, or a plain one, and sends at most a request
\* that is no restake and whose snapshots, if it is a claim, are of caches.
Harmless(r) ==
    /\ r.kind # "restake"
    /\ r.kind = "claim" => \A p \in DOMAIN r.jars : r.jars[p].cache # NoCache

PlainKept == AllPlain' /\ NoRestake' /\ ClaimsCached

\* What is enough for that.
LEMMA PlainStep ==
    ASSUME TypeInv, AllPlain, NoRestake,
           \/ UNCHANGED accounts
           \/ \E a, after : SetAccount(a, after) /\ Plain(after),
           \/ UNCHANGED receipts
           \/ \E s \in DOMAIN receipts : Consume(s)
           \/ HoldsKept
           \/ \E s \in FreeSlots : \E r : Send(s, r) /\ Harmless(r)
    PROVE  PlainKept
<1>1. AllPlain'
  <2>1. CASE UNCHANGED accounts
    BY <2>1 DEF AllPlain
  <2>2. ASSUME NEW a, NEW after, SetAccount(a, after), Plain(after)
        PROVE  AllPlain'
    BY <2>2 DEF AllPlain, SetAccount, Put
  <2> QED BY <2>1, <2>2
<1>2. NoRestake' /\ ClaimsCached
  <2>1. CASE UNCHANGED receipts
    BY <2>1 DEF NoRestake, ClaimsCached
  <2>2. ASSUME NEW s \in DOMAIN receipts, Consume(s)
        PROVE  NoRestake' /\ ClaimsCached
    <3>1. ReceiptsStay /\ DOMAIN receipts' = DOMAIN receipts \ {s}
      BY <2>2, ConsumeChanges
    <3> QED BY <3>1 DEF NoRestake, ClaimsCached, ReceiptsStay
  <2>3. CASE HoldsKept
    BY <2>3 DEF HoldsKept, SameRequest, NoRestake, ClaimsCached
  <2>4. ASSUME NEW s \in FreeSlots, NEW r, Send(s, r), Harmless(r)
        PROVE  NoRestake' /\ ClaimsCached
    <3>1. /\ ReceiptsStay /\ s \notin DOMAIN receipts
          /\ DOMAIN receipts' = DOMAIN receipts \cup {s} /\ receipts'[s] = r
      BY <2>4, SendChanges
    <3>2. NoRestake'
      <4>1. \A q \in DOMAIN receipts' : receipts'[q].kind # "restake"
        BY <2>4, <3>1 DEF NoRestake, ReceiptsStay, Harmless
      <4> QED BY <4>1 DEF NoRestake
    <3>3. ClaimsCached
      BY <2>4, <3>1 DEF ClaimsCached, Harmless
    <3> QED BY <3>2, <3>3
  <2> QED BY <2>1, <2>2, <2>3, <2>4
<1> QED BY <1>1, <1>2 DEF PlainKept

\* The accounts of a plain state.
LEMMA PlainAccounts ==
    ASSUME TypeInv, AllPlain
    PROVE  /\ now \in Nat \ {0}
           /\ \A a \in AccountIds : AccountBy(AccountOrNew(a), now) /\ Plain(AccountOrNew(a))
           /\ \A a \in AccountIds \cap DOMAIN accounts :
                AccountBy(accounts[a], now) /\ Plain(accounts[a])
<1>1. now \in Nat \ {0}
  BY SweatJarAssumption, ScoreAssumption DEF TypeInv
<1>2. Plain(EmptyAccount(now))
  BY DEF Plain, PlainBut, EmptyAccount, EmptyMap
<1> QED BY <1>1, <1>2, AccountOrNewType DEF AllPlain, AccountOrNew

\* Steps that write no account.
LEMMA NoAccountPlain ==
    ASSUME TypeInv, AllPlain, NoRestake, UNCHANGED accounts,
           \/ \E s \in Slots : \/ TokenReceipt(s) \/ OnStakePanics(s) \/ AfterFeeWithdrawn(s)
                               \/ AfterFailedFeeWithdrawal(s) \/ CallbackPanics(s)
           \/ \E s \in FreeSlots : \E sender, a, p, amount, timezone :
                Stake(s, sender, a, p, amount, timezone)
           \/ \E s \in FreeSlots : WithdrawFee(s)
           \/ UNCHANGED receipts
    PROVE  PlainKept
<1>1. ASSUME NEW s \in Slots, FtTransferSucceeds(s) \/ FtTransferFails(s) \/ OnStakePanics(s)
      PROVE  HoldsKept
  <2>1. s \in DOMAIN receipts
    BY <1>1 DEF FtTransferSucceeds, FtTransferFails, OnStakePanics, InFlight
  <2>2. PICK status \in {"succeeded", "failed"} :
            /\ receipts[s].kind = "stake" => status = "failed"
            /\ receipts' = [receipts EXCEPT ![s].status = status]
    BY <1>1 DEF FtTransferSucceeds, FtTransferFails, OnStakePanics
  <2> QED BY <2>1, <2>2, AnswerHolds
<1>2. ASSUME NEW s \in Slots, \/ RefundStake(s) \/ AfterFeeWithdrawn(s)
                              \/ AfterFailedFeeWithdrawal(s) \/ CallbackPanics(s)
      PROVE  s \in DOMAIN receipts /\ Consume(s)
  BY <1>2 DEF RefundStake, AfterFeeWithdrawn, AfterFailedFeeWithdrawal, CallbackPanics, InFlight
<1>3. ASSUME NEW s \in FreeSlots, NEW sender, NEW a, NEW p, NEW amount, NEW timezone,
             Stake(s, sender, a, p, amount, timezone)
      PROVE  \E r : Send(s, r) /\ Harmless(r)
  <2> DEFINE r == [kind |-> "stake", status |-> "sent", account |-> a, sender |-> sender,
                   product |-> p, amount |-> amount, timezone |-> timezone, jars |-> NoJars]
  <2>1. Send(s, r)
    BY <1>3 DEF Stake
  <2>2. Harmless(r)
    BY DEF Harmless
  <2> QED BY <2>1, <2>2
<1>4. ASSUME NEW s \in FreeSlots, WithdrawFee(s)
      PROVE  \E r : Send(s, r) /\ Harmless(r)
  <2> DEFINE r == [kind |-> "fee", status |-> "sent", account |-> FeeAccount,
                   amount |-> fee_amount, jars |-> NoJars]
  <2>1. Send(s, r)
    BY <1>4 DEF WithdrawFee
  <2>2. Harmless(r)
    BY DEF Harmless
  <2> QED BY <2>1, <2>2
<1> QED BY <1>1, <1>2, <1>3, <1>4, PlainStep DEF TokenReceipt

\* Deposits: the jar they create is cached at once.
LEMMA OnStakePlain ==
    ASSUME NoScoreBased, TypeInv, AllPlain, NoRestake, NEW s \in Slots, OnStake(s)
    PROVE  PlainKept
<1> DEFINE r == receipts[s]
<1>1. /\ s \in DOMAIN receipts /\ r.account \in AccountIds /\ r.product \in ProductIds
      /\ r.amount \in Nat
  BY ReceiptKinds DEF OnStake, InFlight, IsStake
<1>2. PICK before, p, amount : before = AccountOrNew(r.account) /\ p = r.product /\ amount = r.amount
  OBVIOUS
<1>3. StakeTarget(r) = before
  BY <1>1, <1>2 DEF StakeTarget, NoScoreBased
<1> DEFINE deposited == DepositTo(before, p, amount, now)
<1>4. /\ now \in Nat \ {0} /\ p \in ProductIds /\ amount \in Nat
      /\ AccountBy(before, now) /\ Plain(before)
  BY <1>1, <1>2, PlainAccounts
<1>5. AccountBy(deposited, now)
  BY <1>4, DepositToType
<1>6. PlainBut(deposited, {p})
  <2>1. deposited.features = before.features
    BY <1>4 DEF DepositTo, AccountBy
  <2>2. deposited.jars = Put(before.jars, p, AddDeposit(JarOrNew(before, p), amount, now))
    BY <1>4 DEF DepositTo, AccountBy
  <2>3. \A q \in DOMAIN deposited.jars \ {p} :
            q \in DOMAIN before.jars /\ deposited.jars[q] = before.jars[q]
    BY <2>2 DEF Put
  <2> HIDE DEF deposited
  <2> QED BY <1>4, <2>1, <2>3 DEF Plain, PlainBut
<1>7. SetAccount(r.account, UpdateJarCaches(deposited, {p}, now)) /\ Consume(s)
  BY <1>2, <1>3 DEF OnStake
<1> HIDE DEF deposited
<1>8. Plain(UpdateJarCaches(deposited, {p}, now))
  BY <1>4, <1>5, <1>6, CachesPlain
<1> QED BY <1>1, <1>7, <1>8, PlainStep

\* Bringing the whole account up to date.
LEMMA AccountCachePlain ==
    ASSUME NoScoreBased, NEW t \in Nat \ {0}, NEW account, AccountBy(account, t), Plain(account)
    PROVE  /\ AccountBy(SettleInterest(account, t), t) /\ Plain(SettleInterest(account, t))
           /\ AccountBy(UpdateAccountCache(account, t), t) /\ Plain(UpdateAccountCache(account, t))
<1> DEFINE settled == SettleInterest(account, t)
<1>1. AccountBy(settled, t) /\ Plain(settled)
  BY SettleInterestType, SettledJars DEF Plain, PlainBut
<1>2. AccountBy(UpdateAccountCache(account, t), t)
  BY UpdateAccountCacheType
<1>3. UpdateAccountCache(account, t) = UpdateJarCaches(settled, DOMAIN account.jars, t)
  BY DEF UpdateAccountCache
<1> HIDE DEF settled
<1>4. PlainBut(settled, DOMAIN account.jars)
  BY <1>1 DEF Plain, PlainBut
<1>5. Plain(UpdateJarCaches(settled, DOMAIN account.jars, t))
  BY <1>1, <1>4, CachesPlain
<1> QED BY <1>1, <1>2, <1>3, <1>5 DEF settled

\* withdraw and withdraw_all.
LEMMA WithdrawPlain ==
    ASSUME NoScoreBased, TypeInv, AllPlain, NoRestake, NEW s \in FreeSlots, NEW a \in AccountIds,
           \/ \E p \in ProductIds : Withdraw(s, a, p)
           \/ \E ps \in SUBSET ProductIds : WithdrawAll(s, a, ps)
    PROVE  PlainKept
<1>1. a \in DOMAIN accounts
  BY DEF Withdraw, WithdrawAll, CanWithdrawAll
<1>2. PICK before : before = accounts[a]
  OBVIOUS
<1>3. now \in Nat \ {0} /\ AccountBy(before, now) /\ Plain(before)
  BY <1>1, <1>2, PlainAccounts
<1>4. ASSUME NEW requests, SendWithdrawal(s, a, requests)
      PROVE  \E r : Send(s, r) /\ Harmless(r)
  <2> DEFINE r == [kind |-> "withdraw", status |-> "sent", account |-> a,
                   amount |-> TotalNetAmount(requests), jars |-> requests]
  <2>1. Send(s, r)
    BY <1>4 DEF SendWithdrawal
  <2>2. Harmless(r)
    BY DEF Harmless
  <2> QED BY <2>1, <2>2
<1>5. \E after : SetAccount(a, after) /\ Plain(after)
  <2>1. ASSUME NEW p \in ProductIds, Withdraw(s, a, p)
        PROVE  \E after : SetAccount(a, after) /\ Plain(after)
    <3> DEFINE updated == UpdateJarCaches(before, {p}, now)
    <3>1. PlainBut(before, {p})
      BY <1>3 DEF Plain, PlainBut
    <3>2. AccountBy(updated, now) /\ Plain(updated)
      BY <1>3, <3>1, UpdateJarCachesType, CachesPlain
    <3>3. SetAccount(a, LockJars(updated, {p}))
      BY <1>2, <2>1 DEF Withdraw
    <3> HIDE DEF updated
    <3> QED BY <1>3, <3>2, <3>3, LocksPlain
  <2>2. ASSUME NEW ps \in SUBSET ProductIds, WithdrawAll(s, a, ps)
        PROVE  \E after : SetAccount(a, after) /\ Plain(after)
    <3> DEFINE updated == UpdateAccountCache(before, now)
    <3>1. AccountBy(updated, now) /\ Plain(updated)
      BY <1>3, AccountCachePlain
    <3>2. SetAccount(a, LockJars(updated, DOMAIN BulkRequests(a, ps)))
      BY <1>2, <2>2 DEF WithdrawAll
    <3> HIDE DEF updated
    <3> QED BY <1>3, <3>1, <3>2, LocksPlain
  <2> QED BY <2>1, <2>2
<1>6. UNCHANGED receipts \/ \E requests : SendWithdrawal(s, a, requests)
  BY DEF Withdraw, WithdrawAll
<1> QED BY <1>4, <1>5, <1>6, PlainStep

\* claim_total takes its interest from jars that were cached.
LEMMA ClaimTotalPlain ==
    ASSUME NoScoreBased, TypeInv, AllPlain, NoRestake, NEW s \in FreeSlots, NEW a \in AccountIds,
           ClaimTotal(s, a)
    PROVE  PlainKept
<1>1. a \in DOMAIN accounts
  BY DEF ClaimTotal
<1>2. PICK before, claimed : before = accounts[a] /\ claimed = Claimable(a)
  OBVIOUS
<1>3. now \in Nat \ {0} /\ AccountBy(before, now) /\ Plain(before)
  BY <1>1, <1>2, PlainAccounts
<1> DEFINE settled == SettleInterest(before, now)
           r == [kind |-> "claim", status |-> "sent", account |-> a,
                 amount |-> Total([p \in claimed |-> InterestOf(settled, p, now).interest]),
                 jars |-> [p \in claimed |-> ToRollback(settled.jars[p])],
                 timezone |-> settled.timezone, score |-> settled.score]
<1>4. SetAccount(a, ClaimJars(settled, claimed)) /\ (UNCHANGED receipts \/ Send(s, r))
  BY <1>2 DEF ClaimTotal
<1>5. AccountBy(settled, now) /\ Plain(settled) /\ settled.jars = before.jars
  BY <1>3, AccountCachePlain, SettledJars
<1>6. claimed \subseteq DOMAIN settled.jars
  BY <1>2, <1>5 DEF Claimable, Unlocked, JarsOf
<1> HIDE DEF settled
<1>7. Plain(ClaimJars(settled, claimed))
  BY <1>3, <1>5, ClaimPlain
<1>8. Harmless(r)
  BY <1>5, <1>6 DEF Harmless, Plain, PlainBut, ToRollback
<1> HIDE DEF r
<1> QED BY <1>4, <1>7, <1>8, PlainStep

\* The callbacks of withdrawals and claims.
LEMMA CallbackPlain ==
    ASSUME NoScoreBased, TypeInv, AllPlain, NoRestake, NEW s \in Slots,
           \/ AfterWithdraw(s) \/ AfterFailedWithdraw(s) \/ AfterClaim(s) \/ AfterFailedClaim(s)
    PROVE  PlainKept
<1> DEFINE r == receipts[s]
<1>1. /\ s \in DOMAIN receipts /\ HasJars(r) /\ Consume(s) /\ r.kind \in {"withdraw", "claim"}
  BY DEF AfterWithdraw, AfterFailedWithdraw, AfterClaim, AfterFailedClaim, InFlight,
         CanFinishWithdrawal
<1>2. r.account \in AccountIds /\ r.account \in DOMAIN accounts
  BY <1>1, ReceiptsKnown DEF Known, HasJars
<1>3. PICK before, ps : before = accounts[r.account] /\ ps = DOMAIN r.jars
  OBVIOUS
<1>4. now \in Nat /\ now \in Nat \ {0} /\ AccountBy(before, now) /\ Plain(before)
  BY <1>2, <1>3, PlainAccounts
<1> DEFINE unlocked == UnlockJars(before, ps)
<1>5. AccountBy(unlocked, now) /\ Plain(unlocked)
  BY <1>4, UnlockJarsType, LocksPlain
<1>6. Plain(CloseJars(unlocked, ps))
  BY <1>4, <1>5, ClosePlain
<1>7. Plain(RestoreAccount(before, r))
  BY <1>4, RestorePlain
<1>8. ASSUME AfterWithdraw(s)
      PROVE  Plain(CloseJars(CleanUpJars(unlocked, PartitionOf(r)), ps))
  <2>2. CanCleanUpJars(before, PartitionOf(r))
    BY <1>3, <1>8 DEF AfterWithdraw, InFlight, CanFinishWithdrawal
  <2>3. DOMAIN PartitionOf(r) = ps /\ \A p \in DOMAIN PartitionOf(r) : PartitionOf(r)[p] \in Nat
    <3>1. r.kind \in {"withdraw", "restake"}
      BY <1>8 DEF AfterWithdraw, InFlight
    <3>2. DOMAIN PartitionOf(r) = ps
      BY <1>3 DEF PartitionOf
    <3> QED BY <1>1, <3>1, <3>2, PartitionType
  <2>4. PICK partition : partition = PartitionOf(r)
    OBVIOUS
  <2>5. CanCleanUpJars(unlocked, partition)
    <3>1. DOMAIN unlocked.jars = DOMAIN before.jars
          /\ \A p \in DOMAIN before.jars : unlocked.jars[p].deposits = before.jars[p].deposits
      BY <1>4, UnlockedSame
    <3> HIDE DEF unlocked
    <3> QED BY <2>2, <2>4, <3>1 DEF CanCleanUpJars, CanCleanUp
  <2> HIDE DEF unlocked
  <2>6. /\ AccountBy(CleanUpJars(unlocked, partition), now)
        /\ Plain(CleanUpJars(unlocked, partition))
    BY <1>4, <1>5, <2>3, <2>4, <2>5, CleanUpJarsType, CleanUpPlain
  <2> QED BY <1>4, <2>4, <2>6, ClosePlain
<1>9. \/ SetAccount(r.account, CloseJars(CleanUpJars(unlocked, PartitionOf(r)), ps)) /\ AfterWithdraw(s)
      \/ SetAccount(r.account, unlocked)
      \/ SetAccount(r.account, CloseJars(unlocked, ps))
      \/ SetAccount(r.account, RestoreAccount(before, r))
  BY <1>3 DEF AfterWithdraw, AfterFailedWithdraw, AfterClaim, AfterFailedClaim
<1> HIDE DEF unlocked
<1>10. \E after : SetAccount(r.account, after) /\ Plain(after)
  BY <1>5, <1>6, <1>7, <1>8, <1>9
<1> QED BY <1>1, <1>10, PlainStep

\* set_timezone, record_score and apply_booster leave the jars alone.
LEMMA ScoresPlain ==
    ASSUME NoScoreBased, TypeInv, AllPlain, NoRestake, NEW a \in AccountIds,
           \/ \E tz \in Timezones : SetTimezone(a, tz)
           \/ \E i \in Increments : RecordScore(a, i)
           \/ \E d \in 0 .. 2, v \in Boosters : ApplyBooster(a, d, v)
    PROVE  PlainKept
<1>1. PICK before : before = AccountOrNew(a)
  OBVIOUS
<1>2. PICK after : /\ SetAccount(a, after) /\ after.jars = before.jars
                   /\ after.features = before.features
  BY <1>1, ScoresWrite
<1>3. Plain(before)
  BY <1>1, PlainAccounts
<1>4. Plain(after)
  BY <1>2, <1>3 DEF Plain, PlainBut
<1>5. UNCHANGED receipts
  BY DEF SetTimezone, RecordScore, ApplyBooster
<1> QED BY <1>2, <1>4, <1>5, PlainStep

\* No restakes and no features to switch.
PayoutsOnly == "restake" \notin Calls /\ "restake_all" \notin Calls /\ FeaturesSet = {}

\* Every step leaves all jars cached and all features off.
LEMMA PlainNext ==
    ASSUME ~MaintainerUnlocks, NoScoreBased, PayoutsOnly, TypeInv, AllPlain, NoRestake, Next
    PROVE  PlainKept
<1>1. CASE \E s \in Slots : TokenReceipt(s) \/ ContractReceipt(s)
  <2> PICK s \in Slots : TokenReceipt(s) \/ ContractReceipt(s)
    BY <1>1
  <2>1. ~AfterTransferRemainder(s) /\ ~AfterFailedTransferRemainder(s)
    BY DEF AfterTransferRemainder, AfterFailedTransferRemainder, InFlight, NoRestake
  <2>2. CASE \/ TokenReceipt(s) \/ OnStakePanics(s) \/ AfterFeeWithdrawn(s)
             \/ AfterFailedFeeWithdrawal(s) \/ CallbackPanics(s)
    <3>1. UNCHANGED accounts
      BY <2>2 DEF TokenReceipt, FtTransferSucceeds, FtTransferFails, RefundStake, OnStakePanics,
                  AfterFeeWithdrawn, AfterFailedFeeWithdrawal, CallbackPanics
    <3> QED BY <2>2, <3>1, NoAccountPlain
  <2> QED BY <2>1, <2>2, OnStakePlain, CallbackPlain DEF ContractReceipt, PayoutReceipt
<1>2. CASE \E s \in FreeSlots, a \in AccountIds : UserCall(s, a)
  <2> PICK s \in FreeSlots, a \in AccountIds : UserCall(s, a)
    BY <1>2
  <2>1. CASE \E b, p, amount, timezone : Stake(s, a, b, p, amount, timezone)
    <3>1. UNCHANGED accounts
      BY <2>1 DEF Stake
    <3> QED BY <2>1, <3>1, NoAccountPlain
  <2>2. (\E b, p, amount, timezone : Stake(s, a, b, p, amount, timezone)) \/ PayoutCall(s, a)
    <3>1. PayoutsOnly /\ UserCall(s, a)
      OBVIOUS
    <3> QED BY <3>1 DEF UserCall, PayoutsOnly
  <2> QED BY <2>1, <2>2, WithdrawPlain, ClaimTotalPlain DEF PayoutCall
<1>3. CASE \E s \in FreeSlots : WithdrawFee(s)
  <2>1. UNCHANGED accounts
    BY <1>3 DEF WithdrawFee
  <2> QED BY <1>3, <2>1, NoAccountPlain
<1>4. CASE \E a \in AccountIds : OperatorCall(a)
  <2> PICK a \in AccountIds : OperatorCall(a)
    BY <1>4
  <2>1. \/ \E tz \in Timezones : SetTimezone(a, tz)
        \/ \E i \in Increments : RecordScore(a, i)
        \/ \E d \in 0 .. 2, v \in Boosters : ApplyBooster(a, d, v)
    BY DEF OperatorCall, PayoutsOnly, UnlockJarsForAccount
  <2> QED BY <2>1, ScoresPlain
<1>5. CASE \E p \in Managed, e \in BOOLEAN : SetEnabled(p, e)
  <2>1. UNCHANGED <<accounts, receipts>>
    BY <1>5 DEF SetEnabled
  <2> QED BY <2>1, NoAccountPlain
<1>6. CASE Tick
  <2>1. UNCHANGED <<accounts, receipts>>
    BY <1>6 DEF Tick
  <2> QED BY <2>1, NoAccountPlain
<1> QED BY <1>1, <1>2, <1>3, <1>4, <1>5, <1>6 DEF Next

\* Features that are off, before and after.
LEMMA PlainSteady ==
    ASSUME AllPlain, AllPlain'
    PROVE  RatesSteady
<1>1. \A a \in AccountIds : AccountOrNew(a).features = {}
  BY DEF AllPlain, Plain, PlainBut, AccountOrNew, EmptyAccount
<1>2. \A a \in AccountIds : AccountOrNew(a)'.features = {}
  BY DEF AllPlain, Plain, PlainBut, AccountOrNew, EmptyAccount
<1> QED BY <1>1, <1>2 DEF RatesSteady

\* The invariant of such an instance.
PlainInv == InterestInv /\ AllPlain /\ NoRestake

\* It holds initially.
LEMMA PlainInvInit == AuditInit => PlainInv
BY InterestInvInit DEF AuditInit, Init, EmptyMap, PlainInv, AllPlain, NoRestake

\* Every step keeps it.
LEMMA PlainInvNext ==
    ASSUME ~MaintainerUnlocks, NoScoreBased, PayoutsOnly, PlainInv, [Next /\ Audit]_auditVars
    PROVE  PlainInv'
<1>1. TypeInv /\ InterestInv /\ AllPlain /\ NoRestake
  BY DEF PlainInv, InterestInv, LockInv
<1>2. CASE Next /\ Audit
  <2>1. PlainKept
    BY <1>1, <1>2, PlainNext
  <2>2. AllPlain' /\ NoRestake' /\ ClaimsCached
    BY <2>1 DEF PlainKept
  <2>3. RatesSteady
    BY <1>1, <2>2, PlainSteady
  <2>4. InterestInv'
    BY <1>1, <1>2, <2>2, <2>3, InterestInvNext
  <2> QED BY <2>2, <2>4 DEF PlainInv
<1>3. CASE UNCHANGED auditVars
  <2>1. InterestInv'
    BY <1>1, <1>3, InterestInvNext
  <2>2. UNCHANGED <<accounts, receipts>>
    BY <1>3 DEF auditVars, vars
  <2>3. AllPlain' /\ NoRestake'
    BY <1>1, <2>2 DEF AllPlain, NoRestake
  <2> QED BY <2>1, <2>3 DEF PlainInv
<1> QED BY <1>2, <1>3

\* Where users deposit, withdraw and claim, one at a time or in bulk, and no
\* feature is switched, the interest of fixed and flexible products is
\* conserved whatever happens: no claim takes from a jar without a cache,
\* since what creates a jar caches it in the same receipt.
THEOREM PayoutsConserveInterest ==
    ASSUME ~MaintainerUnlocks, NoScoreBased, PayoutsOnly
    PROVE  AuditSpec => []InterestConserved
<1>1. AuditInit => PlainInv
  BY PlainInvInit
<1>2. PlainInv /\ [Next /\ Audit]_auditVars => PlainInv'
  BY PlainInvNext
<1>3. PlainInv => InterestConserved
  BY InterestInvConserved DEF PlainInv
<1> QED BY <1>1, <1>2, <1>3, PTL DEF AuditSpec

\* There a failed claim restores its amount whatever happens: every jar it took
\* from had a cache to go back to.
THEOREM PayoutsRestoreClaims ==
    ASSUME ~MaintainerUnlocks, NoScoreBased, PayoutsOnly
    PROVE  AuditSpec => FailedClaimKeepsInterest
<1>1. AuditInit => PlainInv
  BY PlainInvInit
<1>2. PlainInv /\ [Next /\ Audit]_auditVars => PlainInv'
  BY PlainInvNext
<1>3. ASSUME PlainInv, [Next /\ Audit]_auditVars
      PROVE  [\A r \in Failing({"claim"}) :
                InterestIn(accounts'[r.account], DOMAIN r.jars, now') >= r.amount]_vars
  <2>1. InterestInv /\ [Next]_vars
    BY <1>3 DEF PlainInv, auditVars
  <2> QED BY <2>1, FailedClaimRestored
<1> QED BY <1>1, <1>2, <1>3, PTL DEF AuditSpec, FailedClaimKeepsInterest

-----------------------------------------------------------------------------
(* What an account could claim, before and after a call of the oracle.      *)

\* A jar that has more, and whose deposits earn more, pays more.
LEMMA MoreInterest ==
    ASSUME NEW t \in Nat, NEW x, AccountBy(x, t), NEW y, AccountBy(y, t),
           NEW p \in DOMAIN x.jars, p \in DOMAIN y.jars,
           y.jars[p].deposits = x.jars[p].deposits,
           y.jars[p].cache.interest >= x.jars[p].cache.interest,
           y.jars[p].claim_remainder >= x.jars[p].claim_remainder,
           \A i \in DOMAIN x.jars[p].deposits : YieldsNow(x, p, t)[i] <= YieldsNow(y, p, t)[i]
    PROVE  InterestOf(y, p, t).interest >= InterestOf(x, p, t).interest
<1>1. PICK j, k : j = x.jars[p] /\ k = y.jars[p]
  OBVIOUS
<1>2. PICK f, g, S : f = YieldsNow(x, p, t) /\ g = YieldsNow(y, p, t) /\ S = DOMAIN j.deposits
  OBVIOUS
<1>3. PICK m, n : m = InterestOf(x, p, t) /\ n = InterestOf(y, p, t)
  OBVIOUS
<1>4. /\ j \in JarBy(t) /\ k \in JarBy(t) /\ IsFiniteSet(S)
      /\ \A i \in S : f[i] \in Nat /\ g[i] \in Nat /\ f[i] <= g[i]
  BY <1>1, <1>2, YieldsNowNat
<1>5. /\ SumFunctionOnSet(f, S) \in Nat /\ SumFunctionOnSet(g, S) \in Nat
      /\ SumFunctionOnSet(f, S) <= SumFunctionOnSet(g, S)
  BY <1>4, SumOrdered
<1>6. /\ m \in Accrual /\ n \in Accrual /\ n.remainder < MsInYear
      /\ m.interest * MsInYear + m.remainder
            = j.cache.interest * MsInYear + j.claim_remainder + SumFunctionOnSet(f, S)
      /\ n.interest * MsInYear + n.remainder
            = k.cache.interest * MsInYear + k.claim_remainder + SumFunctionOnSet(g, S)
  BY <1>1, <1>2, <1>3, InterestSplit
<1>7. /\ m.interest \in Nat /\ m.remainder \in Nat /\ n.interest \in Nat /\ n.remainder \in Nat
      /\ j.cache.interest \in Nat /\ j.claim_remainder \in Nat
      /\ k.cache.interest \in Nat /\ k.claim_remainder \in Nat
      /\ j.cache.interest <= k.cache.interest /\ j.claim_remainder <= k.claim_remainder
  BY <1>1, <1>4, <1>6 DEF Accrual, JarBy, CacheBy
<1>8. \A u, v \in Nat : u <= v => /\ u * MsInYear \in Nat /\ v * MsInYear \in Nat
                                  /\ u * MsInYear <= v * MsInYear
  <2> SUFFICES ASSUME NEW u \in Nat, NEW v \in Nat, u <= v
               PROVE  /\ u * MsInYear \in Nat /\ v * MsInYear \in Nat
                      /\ u * MsInYear <= v * MsInYear
    OBVIOUS
  <2>1. PICK w \in Nat : v = u + w
    <3>1. v - u \in Nat /\ v = u + (v - u)
      OBVIOUS
    <3> QED BY <3>1
  <2>2. \A z \in Nat : (u + z) * MsInYear = u * MsInYear + z * MsInYear
    BY InterestAssumption
  <2>3. v * MsInYear = u * MsInYear + w * MsInYear
    BY <2>1, <2>2
  <2>4. u * MsInYear \in Nat /\ v * MsInYear \in Nat /\ w * MsInYear \in Nat
    BY InterestAssumption, TimesNat
  <2> QED BY <2>3, <2>4
<1> DEFINE J == j.cache.interest * MsInYear
           K == k.cache.interest * MsInYear
           M == m.interest * MsInYear
           N == n.interest * MsInYear
           F == SumFunctionOnSet(f, S)
           G == SumFunctionOnSet(g, S)
<1>9. J \in Nat /\ K \in Nat /\ J <= K /\ M \in Nat /\ N \in Nat
  BY <1>7, <1>8
<1>10. M + m.remainder = J + j.claim_remainder + F /\ N + n.remainder = K + k.claim_remainder + G
  BY <1>6
<1>11. F \in Nat /\ G \in Nat /\ F <= G
  BY <1>5
<1>12. M + m.remainder <= N + n.remainder
  <2> HIDE DEF J, K, M, N, F, G
  <2> QED BY <1>7, <1>9, <1>10, <1>11
<1>13. m.interest <= n.interest
  BY <1>6, <1>7, <1>12, InterestAssumption, QuotientsOrdered
<1> QED BY <1>3, <1>7, <1>13

\* A jar pays at least what is in its cache.
LEMMA InterestOverCache ==
    ASSUME NEW t \in Nat, NEW account, AccountBy(account, t), NEW p \in DOMAIN account.jars
    PROVE  InterestOf(account, p, t).interest >= account.jars[p].cache.interest
<1>1. PICK j, n : j = account.jars[p] /\ n = InterestOf(account, p, t)
  OBVIOUS
<1>2. PICK F : F = SumFunctionOnSet(YieldsNow(account, p, t), DOMAIN j.deposits)
  OBVIOUS
<1>3. j \in JarBy(t) /\ F \in Nat
  BY <1>1, <1>2, YieldsNowNat, SumNat
<1>4. /\ n \in Accrual /\ n.remainder < MsInYear
      /\ n.interest * MsInYear + n.remainder
            = j.cache.interest * MsInYear + j.claim_remainder + F
  BY <1>1, <1>2, InterestSplit
<1>5. /\ n.interest \in Nat /\ n.remainder \in Nat
      /\ j.cache.interest \in Nat /\ j.claim_remainder \in Nat
  BY <1>3, <1>4 DEF Accrual, JarBy, CacheBy
<1>6. j.cache.interest * MsInYear \in Nat /\ n.interest * MsInYear \in Nat
  BY <1>5, InterestAssumption, TimesNat
<1> DEFINE J == j.cache.interest * MsInYear
           N == n.interest * MsInYear
<1>7. J + 0 <= N + n.remainder
  <2>1. N + n.remainder = J + j.claim_remainder + F
    BY <1>4
  <2> HIDE DEF J, N
  <2>2. J \in Nat /\ N \in Nat
    BY <1>6 DEF J, N
  <2> QED BY <1>3, <1>5, <2>1, <2>2
<1>8. j.cache.interest <= n.interest
  BY <1>4, <1>5, <1>7, InterestAssumption, QuotientsOrdered
<1> QED BY <1>1, <1>5, <1>8

\* What a claim settles first: more in the caches, the same deposits.
LEMMA SettledGrows ==
    ASSUME NEW t \in Nat, NEW account, AccountBy(account, t), NEW settled,
           settled = SettleInterest(account, t)
    PROVE  /\ AccountBy(settled, t) /\ DOMAIN settled.jars = DOMAIN account.jars
           /\ settled.features = account.features /\ settled.timezone = account.timezone
           /\ settled.score.updated_at = account.score.updated_at
           /\ \A p \in DOMAIN account.jars :
                /\ settled.jars[p].deposits = account.jars[p].deposits
                /\ settled.jars[p].cache.interest >= account.jars[p].cache.interest
                /\ settled.jars[p].claim_remainder >= account.jars[p].claim_remainder
                /\ ~IsScoreBased(TermsOf(p)) => settled.jars[p] = account.jars[p]
<1> DEFINE days == DaysSinceUpdate(account.score, account.timezone, t)
           accrual(p) == GetSettledInterest(account, TermsOf(p), account.jars[p], t)
<1>1. AccountBy(settled, t) /\ DOMAIN settled.jars = DOMAIN account.jars
  BY SettleInterestType DEF SameJars
<1>2. CASE account.timezone = InvalidTimezone \/ days < 1
  <2>1. settled = account
    BY <1>2 DEF SettleInterest
  <2>2. \A p \in DOMAIN account.jars : account.jars[p] \in JarBy(t)
    BY DEF AccountBy, JarsBy
  <2> QED BY <1>1, <2>1, <2>2 DEF JarBy, CacheBy
<1>3. CASE ~(account.timezone = InvalidTimezone \/ days < 1)
  <2> DEFINE jars == [p \in DOMAIN account.jars |->
                        IF IsScoreBased(TermsOf(p))
                        THEN UpdateCache(account.jars[p], accrual(p), StartOfTheDay(t))
                        ELSE account.jars[p]]
  <2>1. /\ settled.jars = jars /\ settled.features = account.features
        /\ settled.timezone = account.timezone
        /\ settled.score.updated_at = account.score.updated_at
    BY <1>3 DEF SettleInterest, AccountBy, AccountScore
  <2>2. ASSUME NEW p \in DOMAIN account.jars
        PROVE  /\ jars[p].deposits = account.jars[p].deposits
               /\ jars[p].cache.interest >= account.jars[p].cache.interest
               /\ jars[p].claim_remainder >= account.jars[p].claim_remainder
               /\ ~IsScoreBased(TermsOf(p)) => jars[p] = account.jars[p]
    <3>1. account.jars[p] \in JarBy(t) /\ p \in ProductIds
      BY DEF AccountBy, JarsBy, IsMap
    <3>2. PICK jar, a : jar = account.jars[p] /\ a = accrual(p)
      OBVIOUS
    <3>3. jar.cache.interest \in Nat /\ jar.claim_remainder \in Nat
      BY <3>1, <3>2 DEF JarBy, CacheBy
    <3>4. CASE IsScoreBased(TermsOf(p))
      <4>1. a.interest >= jar.cache.interest /\ a.remainder >= jar.claim_remainder
        BY <3>1, <3>2, SettledInterestNat
      <4>2. jars[p] = UpdateCache(jar, a, StartOfTheDay(t))
        BY <3>2, <3>4
      <4>3. /\ jars[p].deposits = jar.deposits /\ jars[p].cache.interest = a.interest
            /\ jars[p].claim_remainder = a.remainder
        <5> HIDE DEF jars
        <5> QED BY <3>1, <3>2, <4>2 DEF UpdateCache, JarBy
      <4> HIDE DEF jars
      <4> QED BY <3>2, <3>4, <4>1, <4>3
    <3>5. CASE ~IsScoreBased(TermsOf(p))
      <4>1. jars[p] = jar
        BY <3>2, <3>5
      <4> HIDE DEF jars
      <4> QED BY <3>2, <3>3, <4>1
    <3> QED BY <3>4, <3>5
  <2> HIDE DEF jars
  <2> QED BY <1>1, <2>1, <2>2
<1> QED BY <1>2, <1>3

\* A claim of one jar.
LEMMA InterestInOne ==
    ASSUME NEW t \in Nat, NEW account, AccountBy(account, t), NEW p \in DOMAIN account.jars
    PROVE  InterestIn(account, {p}, t) = InterestOf(SettleInterest(account, t), p, t).interest
<1> DEFINE f == [q \in {p} |-> InterestOf(SettleInterest(account, t), q, t).interest]
<1>1. /\ AccountBy(SettleInterest(account, t), t)
      /\ p \in DOMAIN SettleInterest(account, t).jars
  BY SettledGrows
<1>2. InterestOf(SettleInterest(account, t), p, t).interest \in Nat
  BY <1>1, InterestNat DEF Accrual
<1>3. f[p] = InterestOf(SettleInterest(account, t), p, t).interest /\ DOMAIN f = {p}
  OBVIOUS
<1>4. InterestIn(account, {p}, t) = SumFunctionOnSet(f, DOMAIN f)
  BY DEF InterestIn, Total
<1> HIDE DEF f
<1> QED BY <1>2, <1>3, <1>4, SumSingle

\* More steps and more booster.
Better(x, y) == y.value >= x.value /\ y.booster >= x.booster

\* They raise the rate of a product, capped as it is.
LEMMA CappedUp ==
    ASSUME NEW x \in DailyScore, NEW y \in DailyScore, Better(x, y), NEW cap \in Nat,
           NEW tiered \in BOOLEAN
    PROVE  ToCappedApy(x, cap, tiered) <= ToCappedApy(y, cap, tiered)
BY ScoreAssumption, RateScaleAssumption DEF ToCappedApy, Better, Smaller, DailyScore

\* A higher rate yields more.
LEMMA RateUp ==
    ASSUME NEW r \in Nat, NEW s \in Nat, r <= s, NEW x \in Nat
    PROVE  Rate(r, x) \in Nat /\ Rate(s, x) \in Nat /\ Rate(r, x) <= Rate(s, x)
<1>1. PICK d \in Nat : s = r + d
  <2>1. s - r \in Nat /\ s = r + (s - r)
    OBVIOUS
  <2> QED BY <2>1
<1>2. \A z \in Nat : (r + z) * x = r * x + z * x
  OBVIOUS
<1>3. r * x \in Nat /\ s * x \in Nat /\ d * x \in Nat
  BY TimesNat
<1>4. PICK u \in Nat, v \in Nat, w \in Nat : u = r * x /\ v = s * x /\ w = d * x
  BY <1>3
<1>5. u <= v
  BY <1>1, <1>2, <1>4
<1>6. RateScale \in Nat \ {0}
  BY RateScaleAssumption
<1>7. \A z \in Nat : /\ z \div RateScale \in Nat /\ z % RateScale \in Nat
                     /\ z % RateScale < RateScale
                     /\ z = (z \div RateScale) * RateScale + (z % RateScale)
  BY <1>6
<1>8. PICK m \in Nat, n \in Nat, i \in Nat, j \in Nat :
        /\ m = u \div RateScale /\ i = u % RateScale
        /\ n = v \div RateScale /\ j = v % RateScale
  BY <1>7
<1>9. j < RateScale /\ u = m * RateScale + i /\ v = n * RateScale + j
  BY <1>7, <1>8
<1>10. m <= n
  BY <1>5, <1>6, <1>9, QuotientsOrdered
<1> QED BY <1>4, <1>8, <1>10 DEF Rate

\* The score that counts today is one of the two that are stored, or none.
LEMMA LastFinalizedType ==
    ASSUME NEW t, NEW account, AccountBy(account, t)
    PROVE  /\ LastFinalized(account.score, account.timezone, t) \in DailyScore
           /\ account.score.history[1] \in DailyScore
           /\ NoScore \in DailyScore
<1>1. account.score.history[0] \in DailyScore /\ account.score.history[1] \in DailyScore
  BY DEF AccountBy, AccountScore, DaysStored
<1>2. NoScore \in DailyScore
  BY ScoreAssumption DEF NoScore, DailyScore
<1> QED BY <1>1, <1>2 DEF LastFinalized

\* A better score that counts today, or terms that count no score, yield as
\* much; without a score that counts nothing is yielded.
LEMMA YieldsUp ==
    ASSUME NEW t \in Nat, NEW x, AccountBy(x, t), NEW y, AccountBy(y, t),
           NEW p \in DOMAIN x.jars, p \in DOMAIN y.jars,
           y.features = x.features, y.jars[p].deposits = x.jars[p].deposits,
           \/ y.jars[p].cache = x.jars[p].cache /\ ~IsScoreBased(TermsOf(p))
           \/ /\ y.jars[p].cache = x.jars[p].cache /\ y.timezone = x.timezone
              /\ Better(LastFinalized(x.score, x.timezone, t), LastFinalized(y.score, y.timezone, t))
           \/ IsScoreBased(TermsOf(p)) /\ LastFinalized(x.score, x.timezone, t) = NoScore
    PROVE  \A i \in DOMAIN x.jars[p].deposits : YieldsNow(x, p, t)[i] <= YieldsNow(y, p, t)[i]
<1> SUFFICES ASSUME NEW i \in DOMAIN x.jars[p].deposits
             PROVE  YieldsNow(x, p, t)[i] <= YieldsNow(y, p, t)[i]
  OBVIOUS
<1>1. PICK deposit, terms : deposit = x.jars[p].deposits[i] /\ terms = TermsOf(p)
  OBVIOUS
<1>2. PICK r, s : r = EffectiveApy(x, terms, t) /\ s = EffectiveApy(y, terms, t)
  OBVIOUS
<1>3. PICK d, e : /\ d = InterestTerm(x, terms, x.jars[p], deposit, t)
                  /\ e = InterestTerm(y, terms, y.jars[p], deposit, t)
  OBVIOUS
<1>4. /\ p \in ProductIds /\ deposit \in DepositBy(t) /\ d \in Nat /\ e \in Nat
      /\ YieldsNow(x, p, t)[i] \in Nat /\ YieldsNow(y, p, t)[i] \in Nat
  BY <1>1, <1>3, YieldsNowNat
<1>5. /\ YieldsNow(x, p, t)[i] = Rate(r, deposit.principal) * d
      /\ YieldsNow(y, p, t)[i] = Rate(s, deposit.principal) * e
  BY <1>1, <1>2, <1>3 DEF YieldsNow
<1>6. r \in Nat /\ s \in Nat /\ deposit.principal \in Nat
  BY <1>1, <1>2, <1>4, EffectiveApyNat DEF DepositBy
<1>7. CASE y.jars[p].cache = x.jars[p].cache /\ ~IsScoreBased(terms)
  <2>1. r = s
    BY <1>2, <1>7 DEF EffectiveApy
  <2>2. d = e
    <3>1. terms.kind \in {"fixed", "flexible"}
      BY <1>1, <1>4, <1>7, TermsType DEF Terms, TermsKinds, IsScoreBased
    <3> QED BY <1>3, <1>7, <3>1 DEF InterestTerm
  <2> QED BY <1>4, <1>5, <2>1, <2>2
<1>8. CASE /\ IsScoreBased(terms)
           /\ y.jars[p].cache = x.jars[p].cache /\ y.timezone = x.timezone
           /\ Better(LastFinalized(x.score, x.timezone, t), LastFinalized(y.score, y.timezone, t))
  <2>1. d = e
    BY <1>3, <1>8 DEF InterestTerm
  <2>2. r <= s
    <3>1. PICK m, n : /\ m = LastFinalized(x.score, x.timezone, t)
                      /\ n = LastFinalized(y.score, y.timezone, t)
      OBVIOUS
    <3>2. PICK cap, tiered : cap = ScoreCap(x, terms) /\ tiered = (terms.kind = "tiered")
      OBVIOUS
    <3>3. r = ToCappedApy(m, cap, tiered) /\ s = ToCappedApy(n, cap, tiered)
      BY <1>2, <1>8, <3>1, <3>2 DEF EffectiveApy, ScoreCap
    <3>4. m \in DailyScore /\ n \in DailyScore /\ Better(m, n)
      BY <1>8, <3>1, LastFinalizedType
    <3>5. cap \in Nat /\ tiered \in BOOLEAN
      BY <1>1, <1>4, <3>2, ScoreCapNat
    <3> QED BY <3>3, <3>4, <3>5, CappedUp
  <2>3. /\ Rate(r, deposit.principal) \in Nat /\ Rate(s, deposit.principal) \in Nat
        /\ Rate(r, deposit.principal) <= Rate(s, deposit.principal)
    BY <1>6, <2>2, RateUp
  <2> QED BY <1>4, <1>5, <2>1, <2>3, TimesUp
<1>9. CASE IsScoreBased(terms) /\ LastFinalized(x.score, x.timezone, t) = NoScore
  <2>1. ScoreCap(x, terms) \in Nat
    BY <1>1, <1>4, ScoreCapNat
  <2>2. r = 0
    BY <1>2, <1>9, <2>1, RateScaleAssumption DEF EffectiveApy, ToCappedApy, Smaller, NoScore
  <2>3. Rate(r, deposit.principal) = 0
    BY <1>6, <2>2, RateScaleAssumption DEF Rate
  <2>4. YieldsNow(x, p, t)[i] = 0
    BY <1>4, <1>5, <2>3
  <2> QED BY <1>4, <2>4
<1> QED BY <1>1, <1>7, <1>8, <1>9

\* Once settled, the score that counts today is the one of yesterday, or none;
\* and none if a day had to be settled.
LEMMA SettledScore ==
    ASSUME NEW t \in Nat, NEW account, AccountBy(account, t), NEW settled,
           settled = SettleInterest(account, t), NEW days,
           days = DaysSinceUpdate(account.score, account.timezone, t),
           account.timezone # InvalidTimezone
    PROVE  /\ LastFinalized(settled.score, settled.timezone, t)
                \in {NoScore, settled.score.history[1]}
           /\ days # 0 => LastFinalized(settled.score, settled.timezone, t) = NoScore
<1>1. /\ settled.timezone = account.timezone
      /\ DaysSinceUpdate(settled.score, settled.timezone, t) = days
  BY SettledGrows DEF DaysSinceUpdate
<1>2. days \in Int
  <2>1. account.timezone \in Int /\ account.score.updated_at \in Nat /\ MsInDay \in Nat \ {0}
    BY ScoreAssumption, AccountAssumption DEF AccountBy, AccountScore
  <2>2. \A x, y \in Int : (x + y) \div MsInDay \in Int
    BY <2>1
  <2> QED BY <2>1, <2>2 DEF DaysSinceUpdate, DayIn
<1>3. CASE days = 0
  BY <1>1, <1>3 DEF LastFinalized
<1>4. CASE days = 1
  <2>1. settled.score.history = Shift(account.score.history)
    BY <1>4 DEF SettleInterest, AccountBy, AccountScore
  <2>2. account.score.history \in [DaysStored -> DailyScore]
    BY DEF AccountBy, AccountScore
  <2>3. settled.score.history[0] = NoScore
    BY <2>1, <2>2 DEF Shift, DaysStored
  <2>4. LastFinalized(settled.score, settled.timezone, t) = settled.score.history[0]
    BY <1>1, <1>4 DEF LastFinalized
  <2> QED BY <2>3, <2>4
<1>5. CASE days \notin {0, 1}
  BY <1>1, <1>5 DEF LastFinalized
<1> QED BY <1>3, <1>4, <1>5

\* Settling again takes nothing: what is claimed now is settled already.
LEMMA SettledTwice ==
    ASSUME NEW t \in Nat, NEW account, AccountBy(account, t), NEW settled,
           settled = SettleInterest(account, t), NEW p \in DOMAIN account.jars
    PROVE  InterestOf(SettleInterest(settled, t), p, t).interest
                >= InterestOf(settled, p, t).interest
<1>1. PICK days : days = DaysSinceUpdate(account.score, account.timezone, t)
  OBVIOUS
<1>2. PICK again : again = SettleInterest(settled, t)
  OBVIOUS
<1>3. /\ AccountBy(settled, t) /\ p \in DOMAIN settled.jars
      /\ settled.timezone = account.timezone
      /\ DaysSinceUpdate(settled.score, settled.timezone, t) = days
  BY <1>1, SettledGrows DEF DaysSinceUpdate
<1>4. /\ AccountBy(again, t) /\ p \in DOMAIN again.jars /\ again.features = settled.features
      /\ again.jars[p].deposits = settled.jars[p].deposits
      /\ again.jars[p].cache.interest >= settled.jars[p].cache.interest
      /\ again.jars[p].claim_remainder >= settled.jars[p].claim_remainder
      /\ ~IsScoreBased(TermsOf(p)) => again.jars[p] = settled.jars[p]
  BY <1>2, <1>3, SettledGrows
<1>5. CASE account.timezone = InvalidTimezone \/ days < 1
  <2>1. again = settled
    BY <1>2, <1>3, <1>5 DEF SettleInterest
  <2>2. InterestOf(settled, p, t).interest \in Nat
    BY <1>3, InterestNat DEF Accrual
  <2> QED BY <1>2, <2>1, <2>2
<1>6. CASE account.timezone # InvalidTimezone /\ ~(days < 1)
  <2>1. LastFinalized(settled.score, settled.timezone, t) = NoScore
    BY <1>1, <1>6, SettledScore
  <2>2. \A i \in DOMAIN settled.jars[p].deposits :
            YieldsNow(settled, p, t)[i] <= YieldsNow(again, p, t)[i]
    <3>1. CASE IsScoreBased(TermsOf(p))
      BY <1>3, <1>4, <2>1, <3>1, YieldsUp
    <3>2. CASE ~IsScoreBased(TermsOf(p))
      BY <1>3, <1>4, <3>2, YieldsUp
    <3> QED BY <3>1, <3>2
  <2>3. InterestOf(again, p, t).interest >= InterestOf(settled, p, t).interest
    BY <1>3, <1>4, <2>2, MoreInterest
  <2> QED BY <1>2, <2>3
<1> QED BY <1>5, <1>6

\* A better score for yesterday, recorded after settling.
LEMMA ScoreUp ==
    ASSUME NEW t \in Nat, NEW account, AccountBy(account, t), NEW settled,
           settled = SettleInterest(account, t), NEW p \in DOMAIN account.jars,
           account.timezone # InvalidTimezone,
           NEW score \in AccountScore, score.updated_at = t,
           Better(settled.score.history[1], score.history[1])
    PROVE  InterestOf(SettleInterest([settled EXCEPT !.score = score], t), p, t).interest
                >= InterestOf(settled, p, t).interest
<1>1. PICK y : y = [settled EXCEPT !.score = score]
  OBVIOUS
<1>2. /\ AccountBy(settled, t) /\ p \in DOMAIN settled.jars
      /\ settled.timezone = account.timezone
  BY SettledGrows
<1>3. AccountBy(y, t) /\ y.jars = settled.jars
  BY <1>1, <1>2, WithScore
<1>4. y.score = score /\ y.timezone = settled.timezone /\ y.features = settled.features
  BY <1>1, <1>2 DEF AccountBy
<1>5. DaysSinceUpdate(y.score, y.timezone, t) = 0
  <2>1. DayIn(y.timezone, t) \in Int
    <3>1. y.timezone \in Int /\ MsInDay \in Nat \ {0}
      BY <1>3, ScoreAssumption, AccountAssumption DEF AccountBy
    <3>2. \A u \in Int : u \div MsInDay \in Int
      BY <3>1
    <3> QED BY <3>1, <3>2 DEF DayIn
  <2> QED BY <1>4, <2>1 DEF DaysSinceUpdate
<1>6. SettleInterest(y, t) = y
  BY <1>5 DEF SettleInterest
<1>7. LastFinalized(y.score, y.timezone, t) = score.history[1]
  BY <1>4, <1>5 DEF LastFinalized
<1>8. Better(LastFinalized(settled.score, settled.timezone, t), score.history[1])
  <2>1. score.history[1] \in DailyScore
    BY DEF AccountScore, DaysStored
  <2>2. Better(NoScore, score.history[1])
    BY <2>1, ScoreAssumption DEF Better, NoScore, DailyScore
  <2>3. LastFinalized(settled.score, settled.timezone, t) \in {NoScore, settled.score.history[1]}
    BY SettledScore
  <2> QED BY <2>2, <2>3
<1>9. \A i \in DOMAIN settled.jars[p].deposits :
            YieldsNow(settled, p, t)[i] <= YieldsNow(y, p, t)[i]
  BY <1>2, <1>3, <1>4, <1>7, <1>8, YieldsUp
<1>10. settled.jars[p].cache.interest \in Nat /\ settled.jars[p].claim_remainder \in Nat
  BY <1>2 DEF AccountBy, JarsBy, JarBy, CacheBy
<1>11. InterestOf(y, p, t).interest >= InterestOf(settled, p, t).interest
  BY <1>2, <1>3, <1>9, <1>10, MoreInterest
<1> QED BY <1>1, <1>6, <1>11

\* Steps are recorded, and boosters granted, after settling.
LEMMA RecordedScore ==
    ASSUME NEW t \in Nat, NEW account, AccountBy(account, t), NEW settled,
           settled = SettleInterest(account, t), NEW p \in DOMAIN account.jars,
           account.timezone # InvalidTimezone, NEW increments \in [DaysStored -> Nat]
    PROVE  InterestOf(SettleInterest(
                [settled EXCEPT !.score = UpdateScore(@, increments, t)], t), p, t).interest
                >= InterestOf(settled, p, t).interest
<1>1. PICK score : score = UpdateScore(settled.score, increments, t)
  OBVIOUS
<1>2. settled.score \in AccountScore
  BY SettledGrows DEF AccountBy
<1>3. score \in AccountScore /\ score.updated_at = t
  BY <1>1, <1>2, UpdateScoreType DEF UpdateScore
<1>4. Better(settled.score.history[1], score.history[1])
  <2>1. settled.score.history[1] \in DailyScore /\ increments[1] \in Nat
    BY <1>2 DEF AccountScore, DaysStored
  <2>2. score.history[1] = [settled.score.history[1] EXCEPT
                !.value = Smaller(@ + increments[1], MaxScore)]
    BY <1>1 DEF UpdateScore, DaysStored
  <2> QED BY <2>1, <2>2, ScoreAssumption DEF Better, DailyScore, Smaller
<1>5. [settled EXCEPT !.score = UpdateScore(@, increments, t)] = [settled EXCEPT !.score = score]
  BY <1>1
<1>6. InterestOf(SettleInterest([settled EXCEPT !.score = score], t), p, t).interest
            >= InterestOf(settled, p, t).interest
  BY <1>3, <1>4, ScoreUp
<1> QED BY <1>5, <1>6

\* A booster for a day that has one already, or is not stored, is ignored.
LEMMA BoostedScore ==
    ASSUME NEW t \in Nat, NEW account, AccountBy(account, t), NEW settled,
           settled = SettleInterest(account, t), NEW p \in DOMAIN account.jars,
           account.timezone # InvalidTimezone, NEW days_ago, NEW value \in 0 .. MaxScore
    PROVE  InterestOf(SettleInterest(
                [settled EXCEPT !.score = ApplyBoosterTo(@, days_ago, value, t)], t), p, t).interest
                >= InterestOf(settled, p, t).interest
<1>1. PICK score : score = ApplyBoosterTo(settled.score, days_ago, value, t)
  OBVIOUS
<1>2. settled.score \in AccountScore
  BY SettledGrows DEF AccountBy
<1>3. [settled EXCEPT !.score = ApplyBoosterTo(@, days_ago, value, t)]
            = [settled EXCEPT !.score = score]
  BY <1>1
<1>4. CASE CanApplyBooster(settled.score, days_ago)
  <2>1. score \in AccountScore
    BY <1>1, <1>2, ApplyBoosterToType
  <2>2. /\ score.updated_at = t
        /\ score.history = [settled.score.history EXCEPT ![days_ago].booster = value]
    BY <1>1, <1>4 DEF ApplyBoosterTo
  <2>3. Better(settled.score.history[1], score.history[1])
    <3>1. settled.score.history \in [DaysStored -> DailyScore] /\ settled.score.history[1] \in DailyScore
      BY <1>2 DEF AccountScore, DaysStored
    <3>2. days_ago \in DaysStored /\ settled.score.history[days_ago].booster = 0
      BY <1>4 DEF CanApplyBooster
    <3>3. CASE days_ago = 1
      <4>1. score.history[1] = [settled.score.history[1] EXCEPT !.booster = value]
        BY <2>2, <3>1, <3>3 DEF DaysStored
      <4> QED BY <3>1, <3>2, <3>3, <4>1, ScoreAssumption DEF Better, DailyScore
    <3>4. CASE days_ago # 1
      <4>1. score.history[1] = settled.score.history[1]
        BY <2>2, <3>1, <3>4 DEF DaysStored
      <4> QED BY <3>1, <4>1, ScoreAssumption DEF Better, DailyScore
    <3> QED BY <3>3, <3>4
  <2>4. InterestOf(SettleInterest([settled EXCEPT !.score = score], t), p, t).interest
            >= InterestOf(settled, p, t).interest
    BY <2>1, <2>2, <2>3, ScoreUp
  <2> QED BY <1>3, <2>4
<1>5. CASE ~CanApplyBooster(settled.score, days_ago)
  <2>1. score = settled.score
    BY <1>1, <1>5 DEF ApplyBoosterTo
  <2>2. [settled EXCEPT !.score = score] = settled
    BY <2>1, SettledGrows DEF AccountBy
  <2>3. InterestOf(SettleInterest(settled, t), p, t).interest >= InterestOf(settled, p, t).interest
    BY SettledTwice
  <2> QED BY <1>3, <2>2, <2>3
<1> QED BY <1>4, <1>5

\* Features are switched after everything earned so far was cached.
LEMMA FeaturesKeepInterest ==
    ASSUME NEW t \in Nat, NEW account, AccountBy(account, t), NEW settled,
           settled = SettleInterest(account, t), NEW p \in DOMAIN account.jars,
           NEW features \in SUBSET Features
    PROVE  InterestOf(SettleInterest(
                [UpdateAccountCache(account, t) EXCEPT !.features = features], t), p, t).interest
                >= InterestOf(settled, p, t).interest
<1>1. PICK cached, y : /\ cached = UpdateAccountCache(account, t)
                       /\ y = [cached EXCEPT !.features = features]
  OBVIOUS
<1>2. PICK z : z = SettleInterest(y, t)
  OBVIOUS
<1>3. /\ AccountBy(settled, t) /\ p \in DOMAIN settled.jars
      /\ AccountBy(cached, t) /\ p \in DOMAIN cached.jars
  BY <1>1, SettledGrows, UpdateAccountCacheType DEF SameJars
<1>4. PICK earned_now : earned_now = InterestOf(settled, p, t)
  OBVIOUS
<1>5. cached.jars[p].cache.interest = earned_now.interest /\ earned_now.interest \in Nat
  <2>1. cached = UpdateJarCaches(settled, DOMAIN account.jars, t)
    BY <1>1 DEF UpdateAccountCache
  <2>2. cached.jars = [q \in DOMAIN settled.jars |->
            IF q \in DOMAIN account.jars
            THEN UpdateCache(settled.jars[q], InterestOf(settled, q, t), t) ELSE settled.jars[q]]
    BY <1>3, <2>1 DEF UpdateJarCaches, AccountBy
  <2>3. cached.jars[p] = UpdateCache(settled.jars[p], earned_now, t)
    BY <1>3, <1>4, <2>2
  <2>4. settled.jars[p] \in JarBy(t)
    BY <1>3 DEF AccountBy, JarsBy
  <2>5. earned_now \in Accrual
    BY <1>3, <1>4, InterestNat
  <2> QED BY <2>3, <2>4, <2>5 DEF UpdateCache, JarBy, Accrual
<1>6. AccountBy(y, t) /\ y.jars = cached.jars
  BY <1>1, <1>3, WithFeatures
<1>7. /\ AccountBy(z, t) /\ p \in DOMAIN z.jars
      /\ z.jars[p].cache.interest >= y.jars[p].cache.interest
  BY <1>2, <1>3, <1>6, SettledGrows
<1>8. InterestOf(z, p, t).interest >= z.jars[p].cache.interest
  BY <1>7, InterestOverCache
<1>9. /\ z.jars[p].cache.interest \in Nat
      /\ InterestOf(z, p, t).interest \in Nat
  <2>1. z.jars[p] \in JarBy(t)
    BY <1>7 DEF AccountBy, JarsBy
  <2>2. InterestOf(z, p, t) \in Accrual
    BY <1>7, InterestNat
  <2> QED BY <2>1, <2>2 DEF JarBy, CacheBy, Accrual
<1>10. InterestOf(z, p, t).interest >= InterestOf(settled, p, t).interest
  BY <1>4, <1>5, <1>6, <1>7, <1>8, <1>9
<1> QED BY <1>1, <1>2, <1>10

\* The first timezone changes nothing for the jars that can do without one.
LEMMA TimezoneKeepsInterest ==
    ASSUME NEW t \in Nat, NEW account, AccountBy(account, t), NEW settled,
           settled = SettleInterest(account, t), NEW p \in DOMAIN account.jars,
           CanAccrue(account, TermsOf(p), InvalidTimezone),
           NEW timezone \in Timezones \cup {InvalidTimezone}
    PROVE  InterestOf(SettleInterest(TrySetTimezone(account, timezone), t), p, t).interest
                >= InterestOf(settled, p, t).interest
<1>1. PICK y, z : y = TrySetTimezone(account, timezone) /\ z = SettleInterest(y, t)
  OBVIOUS
<1>2. AccountBy(settled, t) /\ p \in DOMAIN settled.jars
  BY SettledGrows
<1>3. CASE account.timezone # InvalidTimezone
  <2>1. z = settled
    BY <1>1, <1>3 DEF TrySetTimezone
  <2>2. InterestOf(settled, p, t).interest \in Nat
    BY <1>2, InterestNat DEF Accrual
  <2> QED BY <1>1, <2>1, <2>2
<1>4. CASE account.timezone = InvalidTimezone
  <2>1. settled = account /\ ~IsScoreBased(TermsOf(p))
    BY <1>4 DEF SettleInterest, CanAccrue
  <2>2. AccountBy(y, t) /\ y.jars = account.jars
    BY <1>1, TrySetTimezoneType
  <2>3. y.features = account.features
    BY <1>1 DEF TrySetTimezone, AccountBy
  <2>4. /\ AccountBy(z, t) /\ p \in DOMAIN z.jars
        /\ z.jars[p] = settled.jars[p] /\ z.features = settled.features
    BY <1>1, <2>1, <2>2, <2>3, SettledGrows
  <2>5. \A i \in DOMAIN settled.jars[p].deposits :
            YieldsNow(settled, p, t)[i] <= YieldsNow(z, p, t)[i]
    BY <1>2, <2>1, <2>4, YieldsUp
  <2>6. settled.jars[p].cache.interest \in Nat /\ settled.jars[p].claim_remainder \in Nat
    BY <1>2 DEF AccountBy, JarsBy, JarBy, CacheBy
  <2>7. InterestOf(z, p, t).interest >= InterestOf(settled, p, t).interest
    BY <1>2, <2>4, <2>5, <2>6, MoreInterest
  <2> QED BY <1>1, <2>7
<1> QED BY <1>3, <1>4

\* Interest does not depend on the locks.
LEMMA UnlockKeepsInterest ==
    ASSUME NEW t \in Nat, NEW account, AccountBy(account, t), NEW settled,
           settled = SettleInterest(account, t), NEW p \in DOMAIN account.jars, NEW ps
    PROVE  InterestOf(SettleInterest(UnlockJars(account, ps), t), p, t).interest
                >= InterestOf(settled, p, t).interest
<1>1. PICK y, z : y = UnlockJars(account, ps) /\ z = SettleInterest(y, t)
  OBVIOUS
<1>2. AccountBy(settled, t) /\ p \in DOMAIN settled.jars
  BY SettledGrows
<1>3. AccountBy(y, t) /\ p \in DOMAIN y.jars
  <2>1. AccountBy(y, t) /\ LocksSet(account, y, ps, FALSE)
    BY <1>1, UnlockJarsType
  <2> QED BY <2>1 DEF LocksSet
<1>4. /\ y.timezone = account.timezone /\ y.score = account.score /\ y.features = account.features
      /\ y.jars = [q \in DOMAIN account.jars |->
                    IF q \in ps THEN Unlock(account.jars[q]) ELSE account.jars[q]]
  BY <1>1 DEF UnlockJars, AccountBy
<1>5. PICK j, k : j = account.jars[p] /\ k = y.jars[p]
  OBVIOUS
<1>6. /\ j \in JarBy(t) /\ k \in JarBy(t) /\ k.deposits = j.deposits /\ k.cache = j.cache
      /\ k.claim_remainder = j.claim_remainder
  <2>1. j \in JarBy(t) /\ k \in JarBy(t)
    BY <1>3, <1>5 DEF AccountBy, JarsBy
  <2>2. k = IF p \in ps THEN Unlock(j) ELSE j
    BY <1>4, <1>5
  <2> QED BY <2>1, <2>2 DEF Unlock, JarBy
<1>7. /\ AccountBy(z, t) /\ p \in DOMAIN z.jars
      /\ z.features = settled.features /\ z.timezone = settled.timezone
  BY <1>1, <1>3, <1>4, SettledGrows
<1>8. /\ z.score = settled.score
      /\ z.jars[p].deposits = settled.jars[p].deposits
      /\ z.jars[p].cache = settled.jars[p].cache
      /\ z.jars[p].claim_remainder = settled.jars[p].claim_remainder
  <2>1. PICK days : /\ days = DaysSinceUpdate(account.score, account.timezone, t)
                    /\ days = DaysSinceUpdate(y.score, y.timezone, t)
    BY <1>4 DEF DaysSinceUpdate
  <2>2. CASE account.timezone = InvalidTimezone \/ days < 1
    <3>1. settled = account /\ z = y
      BY <1>1, <1>4, <2>1, <2>2 DEF SettleInterest
    <3> QED BY <1>4, <1>5, <1>6, <3>1
  <2>3. CASE ~(account.timezone = InvalidTimezone \/ days < 1)
    <3>1. PICK a, b : /\ a = GetSettledInterest(account, TermsOf(p), j, t)
                      /\ b = GetSettledInterest(y, TermsOf(p), k, t)
      OBVIOUS
    <3>2. a = b
      <4>1. DaysToSettle(y, t) = DaysToSettle(account, t)
        BY <1>4 DEF DaysToSettle
      <4>2. ScoreCap(y, TermsOf(p)) = ScoreCap(account, TermsOf(p))
        BY <1>4 DEF ScoreCap
      <4> QED BY <1>4, <1>6, <3>1, <4>1, <4>2 DEF GetSettledInterest
    <3>3. z.score = settled.score
      BY <1>1, <1>4, <2>1, <2>3 DEF SettleInterest, AccountBy
    <3>4. /\ settled.jars[p] = IF IsScoreBased(TermsOf(p))
                               THEN UpdateCache(j, a, StartOfTheDay(t)) ELSE j
          /\ z.jars[p] = IF IsScoreBased(TermsOf(p))
                         THEN UpdateCache(k, b, StartOfTheDay(t)) ELSE k
      <4>1. settled.jars = [q \in DOMAIN account.jars |->
                IF IsScoreBased(TermsOf(q))
                THEN UpdateCache(account.jars[q],
                        GetSettledInterest(account, TermsOf(q), account.jars[q], t),
                        StartOfTheDay(t))
                ELSE account.jars[q]]
        BY <2>1, <2>3 DEF SettleInterest, AccountBy
      <4>2. z.jars = [q \in DOMAIN y.jars |->
                IF IsScoreBased(TermsOf(q))
                THEN UpdateCache(y.jars[q],
                        GetSettledInterest(y, TermsOf(q), y.jars[q], t),
                        StartOfTheDay(t))
                ELSE y.jars[q]]
        BY <1>1, <1>3, <1>4, <2>1, <2>3 DEF SettleInterest, AccountBy
      <4> QED BY <1>3, <1>5, <3>1, <4>1, <4>2
    <3> QED BY <1>6, <3>2, <3>3, <3>4 DEF UpdateCache, JarBy
  <2> QED BY <2>2, <2>3
<1>9. \A i \in DOMAIN settled.jars[p].deposits :
            YieldsNow(settled, p, t)[i] <= YieldsNow(z, p, t)[i]
  <2>1. Better(LastFinalized(settled.score, settled.timezone, t),
               LastFinalized(z.score, z.timezone, t))
    BY <1>2, <1>7, <1>8, LastFinalizedType, ScoreAssumption DEF Better, DailyScore
  <2> QED BY <1>2, <1>7, <1>8, <2>1, YieldsUp
<1>10. settled.jars[p].cache.interest \in Nat /\ settled.jars[p].claim_remainder \in Nat
  BY <1>2 DEF AccountBy, JarsBy, JarBy, CacheBy
<1>11. InterestOf(z, p, t).interest >= InterestOf(settled, p, t).interest
  BY <1>2, <1>7, <1>8, <1>9, <1>10, MoreInterest
<1> QED BY <1>1, <1>11

\* No call of the oracle, of an administrator or of a maintainer takes away
\* interest that could be claimed before it: not from a score-based jar either,
\* whose finished days are settled before a score or a booster is recorded
\* (record_score, apply_booster), and not by a change of the features, before
\* which everything earned is cached (set_feature_enabled, set_penalty).
THEOREM OracleKeepsInterest == Spec => OracleCallsKeepInterest
<1>1. ASSUME TypeInv, [Next]_vars
      PROVE  [\A a \in DOMAIN accounts : OperatorCall(a) => KeepsInterest(a)]_vars
  <2> SUFFICES ASSUME NEW a \in DOMAIN accounts, OperatorCall(a), NEW p \in Accruing(a)
               PROVE  InterestIn(accounts'[a], {p}, now') >= InterestIn(accounts[a], {p}, now)
    BY DEF KeepsInterest
  <2>1. PICK t, x, settled : t = now /\ x = accounts[a] /\ settled = SettleInterest(x, t)
    OBVIOUS
  <2>2. /\ t \in Nat /\ AccountBy(x, t) /\ p \in DOMAIN x.jars
        /\ CanAccrue(x, TermsOf(p), InvalidTimezone)
    BY <1>1, <2>1 DEF TypeInv, AccountsBy, Accruing, JarsOf
  <2>3. PICK y : y = accounts'[a]
    OBVIOUS
  <2>4. IsMap(accounts, AccountIds) /\ a \in AccountIds
    BY <1>1 DEF TypeInv, AccountsBy, IsMap
  <2>5. now' = t
    BY <2>1 DEF OperatorCall, SetFeatureEnabled, SetPenalty, SetTimezone, RecordScore,
                ApplyBooster, UnlockJarsForAccount
  <2>6. \A account : SetAccount(a, account) => y = account
    <3> SUFFICES ASSUME NEW account, SetAccount(a, account) PROVE accounts'[a] = account
      BY <2>3
    <3>1. accounts' = Put(accounts, a, account)
      BY DEF SetAccount
    <3> QED BY <2>4, <3>1, PutMap
  <2> HIDE DEF Accruing
  <2> DEFINE Kept == /\ AccountBy(y, t) /\ p \in DOMAIN y.jars
                     /\ InterestOf(SettleInterest(y, t), p, t).interest
                            >= InterestOf(settled, p, t).interest
  <2>7. ASSUME NEW f \in Features, NEW e \in BOOLEAN, SetFeatureEnabled(a, f, e)
        PROVE  Kept
    <3>1. PICK cached, features :
            /\ cached = UpdateAccountCache(x, t)
            /\ features = IF e THEN cached.features \cup {f} ELSE cached.features \ {f}
      OBVIOUS
    <3>2. AccountBy(cached, t) /\ DOMAIN cached.jars = DOMAIN x.jars
      BY <2>2, <3>1, UpdateAccountCacheType DEF SameJars
    <3>3. features \in SUBSET Features
      BY <2>7, <3>1, <3>2 DEF AccountBy
    <3>4. y = [cached EXCEPT !.features = features]
      <4>1. SetAccount(a, [cached EXCEPT !.features = features])
        BY <2>1, <2>7, <3>1 DEF SetFeatureEnabled
      <4> QED BY <2>6, <4>1
    <3>5. AccountBy(y, t) /\ y.jars = cached.jars
      BY <2>2, <3>2, <3>3, <3>4, WithFeatures
    <3>6. InterestOf(SettleInterest(
                [UpdateAccountCache(x, t) EXCEPT !.features = features], t), p, t).interest
                >= InterestOf(settled, p, t).interest
      BY <2>1, <2>2, <3>3, FeaturesKeepInterest
    <3> QED BY <2>2, <3>1, <3>2, <3>4, <3>5, <3>6
  <2>8. ASSUME NEW timezone \in Timezones, SetTimezone(a, timezone)
        PROVE  Kept
    <3>1. y = TrySetTimezone(x, timezone)
      BY <2>1, <2>6, <2>8 DEF SetTimezone, AccountOrNew
    <3>2. AccountBy(y, t) /\ y.jars = x.jars
      BY <2>2, <3>1, TrySetTimezoneType
    <3>3. InterestOf(SettleInterest(TrySetTimezone(x, timezone), t), p, t).interest
                >= InterestOf(settled, p, t).interest
      BY <2>1, <2>2, TimezoneKeepsInterest
    <3> QED BY <2>2, <3>1, <3>2, <3>3
  <2>9. ASSUME NEW increments \in Increments, RecordScore(a, increments)
        PROVE  Kept
    <3>1. y = [settled EXCEPT !.score = UpdateScore(@, increments, t)]
      BY <2>1, <2>6, <2>9 DEF RecordScore
    <3>2. x.timezone # InvalidTimezone /\ increments \in [DaysStored -> Nat]
      BY <2>1, <2>9, SweatJarAssumption DEF RecordScore, HasTimezone
    <3>3. AccountBy(settled, t) /\ DOMAIN settled.jars = DOMAIN x.jars
      BY <2>1, <2>2, SettledGrows
    <3>4. UpdateScore(settled.score, increments, t) \in AccountScore
      BY <2>2, <3>2, <3>3, UpdateScoreType DEF AccountBy
    <3>5. AccountBy(y, t) /\ y.jars = settled.jars
      BY <2>2, <3>1, <3>3, <3>4, WithScore
    <3>6. InterestOf(SettleInterest(
                [settled EXCEPT !.score = UpdateScore(@, increments, t)], t), p, t).interest
                >= InterestOf(settled, p, t).interest
      BY <2>1, <2>2, <3>2, RecordedScore
    <3> QED BY <2>2, <3>1, <3>3, <3>5, <3>6
  <2>10. ASSUME NEW d \in 0 .. 2, NEW value \in Boosters, ApplyBooster(a, d, value)
         PROVE  Kept
    <3>1. y = [settled EXCEPT !.score = ApplyBoosterTo(@, d, value, t)]
      BY <2>1, <2>6, <2>10 DEF ApplyBooster
    <3>2. x.timezone # InvalidTimezone /\ value \in 0 .. MaxScore
      BY <2>1, <2>10, SweatJarAssumption DEF ApplyBooster, HasTimezone
    <3>3. AccountBy(settled, t) /\ DOMAIN settled.jars = DOMAIN x.jars
      BY <2>1, <2>2, SettledGrows
    <3>4. ApplyBoosterTo(settled.score, d, value, t) \in AccountScore
      BY <2>2, <3>2, <3>3, ApplyBoosterToType DEF AccountBy
    <3>5. AccountBy(y, t) /\ y.jars = settled.jars
      BY <2>2, <3>1, <3>3, <3>4, WithScore
    <3>6. InterestOf(SettleInterest(
                [settled EXCEPT !.score = ApplyBoosterTo(@, d, value, t)], t), p, t).interest
                >= InterestOf(settled, p, t).interest
      BY <2>1, <2>2, <3>2, BoostedScore
    <3> QED BY <2>2, <3>1, <3>3, <3>5, <3>6
  <2>11. ASSUME NEW ps \in SUBSET ProductIds, UnlockJarsForAccount(a, ps)
         PROVE  Kept
    <3>1. y = UnlockJars(x, ps)
      BY <2>1, <2>6, <2>11 DEF UnlockJarsForAccount
    <3>2. AccountBy(y, t) /\ LocksSet(x, y, ps, FALSE)
      BY <2>2, <3>1, UnlockJarsType
    <3>3. InterestOf(SettleInterest(UnlockJars(x, ps), t), p, t).interest
                >= InterestOf(settled, p, t).interest
      BY <2>1, <2>2, UnlockKeepsInterest
    <3> QED BY <2>2, <3>1, <3>2, <3>3 DEF LocksSet
  <2>12. Kept
    <3>1. ASSUME NEW f \in FeaturesSet, NEW e \in BOOLEAN, SetFeatureEnabled(a, f, e)
          PROVE  Kept
      BY <2>7, <3>1, SweatJarAssumption
    <3>2. ASSUME NEW e \in BOOLEAN, "IncreasedApy" \in FeaturesSet, SetPenalty(a, e)
          PROVE  Kept
      <4>1. SetFeatureEnabled(a, "IncreasedApy", ~e)
        BY <3>2 DEF SetPenalty
      <4>2. (~e) \in BOOLEAN
        OBVIOUS
      <4> HIDE DEF Kept
      <4> QED BY <3>1, <3>2, <4>1, <4>2
    <3> HIDE DEF Kept
    <3> QED BY <2>8, <2>9, <2>10, <2>11, <3>1, <3>2 DEF OperatorCall
  <2>13. InterestIn(y, {p}, t) >= InterestIn(x, {p}, t)
    <3>1. InterestIn(y, {p}, t) = InterestOf(SettleInterest(y, t), p, t).interest
      BY <2>2, <2>12, InterestInOne
    <3>2. InterestIn(x, {p}, t) = InterestOf(settled, p, t).interest
      BY <2>1, <2>2, InterestInOne
    <3> QED BY <2>12, <3>1, <3>2
  <2> QED BY <2>1, <2>3, <2>5, <2>13
<1> QED BY <1>1, TypeInvInit, TypeInvNext, PTL DEF Spec, OracleCallsKeepInterest
=============================================================================
