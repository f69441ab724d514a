----------------------------- MODULE Locks_proofs -----------------------------
(***************************************************************************)
(* Who holds the lock of a jar, and whether the jars still hold what the   *)
(* operations in flight counted in them, for any number of accounts,       *)
(* products and transfers in flight, as long as no maintainer unlocks jars *)
(* by hand.                                                                *)
(*                                                                         *)
(* LockOwnership is not inductive by itself: a callback that panicked      *)
(* would leave its jars locked with no transfer in flight. A withdrawal's  *)
(* callback panics when it drains more deposits than there are, so the     *)
(* invariant also says that the jars of a request still have the deposits  *)
(* that were counted when it was sent, at their front (Fitting). That is   *)
(* so because a locked jar only ever gets deposits at its end (Grown).     *)
(***************************************************************************)
EXTENDS SweatJar_proofs

LockedIn(account, p) == p \in DOMAIN account.jars /\ account.jars[p].is_locked = TRUE

Held(a, p) == JarsOf(a)[p].deposits

\* The deposits e are d, and perhaps more after them.
Grown(d, e) ==
    /\ Len(d) \in Nat /\ Len(e) \in Nat /\ Len(d) <= Len(e)
    /\ \A i \in 1 .. Len(d) : e[i] = d[i]

IsPayout(r) == r.kind \in {"withdraw", "restake"}

\* The receipt r was made for the account as it is at time t, and what it
\* pays is what it takes.
Fits(r, account, t) ==
    LET jar(p) == account.jars[p]
        n(p) == r.jars[p].partition_index
        taken(p) == Principal(jar(p).deposits, n(p))
    IN  /\ \A p \in DOMAIN r.jars :
            /\ n(p) \in 0 .. Len(jar(p).deposits)
            /\ \A i \in 1 .. n(p) : IsLiquid(TermsOf(p), jar(p).deposits[i], t)
        /\ r.kind = "withdraw" =>
            /\ \A p \in DOMAIN r.jars : r.jars[p].amount = taken(p)
            /\ CanPay(r.jars) /\ r.amount = TotalNetAmount(r.jars)
        /\ r.kind = "restake" =>
                r.amount + r.fee + r.deposit = Total([p \in DOMAIN r.jars |-> taken(p)])

\* LockOwnership, said of all slots, accounts and products.
Owned ==
    /\ \A s \in Slots, a \in AccountIds, p \in ProductIds :
            Covers(s, a, p) => IsLocked(a, p)
    /\ \A a \in AccountIds, p \in ProductIds :
            IsLocked(a, p) => \E s \in Slots : Covers(s, a, p)
    /\ \A s, t \in Slots, a \in AccountIds, p \in ProductIds :
            Covers(s, a, p) /\ Covers(t, a, p) => s = t

Fitting ==
    \A s \in DOMAIN receipts : IsPayout(receipts[s]) =>
        Fits(receipts[s], accounts[receipts[s].account], now)

LockInv == TypeInv /\ Owned /\ Fitting

\* The clock does not run backwards.
TimeGoesOn == now' \in Nat /\ now <= now'

\* The two ways to say who owns the locks agree.
LEMMA OwnedLocks == TypeInv => (Owned <=> LockOwnership)
<1> SUFFICES ASSUME TypeInv PROVE Owned <=> LockOwnership
  OBVIOUS
<1>1. ASSUME NEW s \in DOMAIN receipts
      PROVE  /\ s \in Slots /\ DOMAIN receipts[s].jars \subseteq ProductIds
             /\ DOMAIN receipts[s].jars # {} => receipts[s].account \in AccountIds
  <2>1. DOMAIN NoJars = {}
    BY DEF NoJars, EmptyMap
  <2>2. ReceiptBy(receipts[s], now) /\ s \in Slots
    BY DEF TypeInv, ReceiptsBy, IsMap
  <2> QED BY <2>1, <2>2 DEF ReceiptBy, IsStake, IsWithdrawal, IsClaim, IsRestake, IsFee,
                           HasFootprint, IsMap
<1>2. ASSUME Owned PROVE LockOwnership
  BY <1>1, <1>2 DEF Owned, LockOwnership, Covers
<1>3. ASSUME LockOwnership PROVE Owned
  BY <1>1, <1>3 DEF Owned, LockOwnership, Covers
<1> QED BY <1>2, <1>3

-----------------------------------------------------------------------------
(* What one method does to the locks of the account it works on: it takes  *)
(* those of the jars taken and frees those of the jars freed. The other    *)
(* locked jars stay locked and lose no deposit.                            *)

Steps(account, after, taken, freed) ==
    \A p \in ProductIds :
        /\ LockedIn(after, p) <=> (LockedIn(account, p) /\ p \notin freed) \/ p \in taken
        /\ LockedIn(account, p) /\ p \notin freed =>
                Grown(account.jars[p].deposits, after.jars[p].deposits)

\* A jar's deposits can be counted.
LEMMA LenNat ==
    ASSUME NEW t \in Nat, NEW account, AccountBy(account, t), NEW p \in DOMAIN account.jars
    PROVE  /\ Len(account.jars[p].deposits) \in Nat
           /\ account.jars[p].is_locked \in BOOLEAN
<1>1. account.jars[p] \in JarBy(t)
  BY DEF AccountBy, JarsBy
<1>2. account.jars[p].deposits \in Seq(DepositBy(t))
  BY <1>1 DEF JarBy, DepositsBy
<1>3. Len(account.jars[p].deposits) \in Nat
  BY <1>2, LenProperties
<1> QED BY <1>1, <1>3 DEF JarBy

\* Deposits that stay what they were have grown, and growth adds up.
LEMMA GrownSame ==
    ASSUME NEW d, Len(d) \in Nat
    PROVE  Grown(d, d)
BY DEF Grown

\* One growth after another.
LEMMA GrownThen ==
    ASSUME NEW d, NEW e, NEW f, Grown(d, e), Grown(e, f)
    PROVE  Grown(d, f)
BY DEF Grown

\* Methods that leave the deposits and the locks alone.
LEMMA SameSteps ==
    ASSUME NEW t \in Nat, NEW account, AccountBy(account, t), NEW after,
           SameJars(account, after) \/ after.jars = account.jars
    PROVE  Steps(account, after, {}, {})
<1> SUFFICES ASSUME NEW p \in ProductIds
             PROVE  /\ LockedIn(after, p) <=> LockedIn(account, p)
                    /\ LockedIn(account, p) =>
                            Grown(account.jars[p].deposits, after.jars[p].deposits)
  BY DEF Steps
<1>1. CASE p \in DOMAIN account.jars
  BY <1>1, LenNat, GrownSame DEF SameJars, LockedIn
<1>2. CASE p \notin DOMAIN account.jars
  BY <1>2 DEF SameJars, LockedIn
<1> QED BY <1>1, <1>2

\* Methods that lock or unlock the jars ps.
LEMMA LockSteps ==
    ASSUME NEW t \in Nat, NEW account, AccountBy(account, t), NEW after, NEW ps,
           LocksSet(account, after, ps, TRUE), ps \subseteq DOMAIN account.jars
    PROVE  Steps(account, after, ps, {})
<1> SUFFICES ASSUME NEW p \in ProductIds
             PROVE  /\ LockedIn(after, p) <=> LockedIn(account, p) \/ p \in ps
                    /\ LockedIn(account, p) =>
                            Grown(account.jars[p].deposits, after.jars[p].deposits)
  BY DEF Steps
<1>1. CASE p \in DOMAIN account.jars
  <2>1. /\ p \in DOMAIN after.jars /\ after.jars[p].deposits = account.jars[p].deposits
        /\ p \in ps => after.jars[p].is_locked = TRUE
        /\ p \notin ps => after.jars[p].is_locked = account.jars[p].is_locked
    BY <1>1 DEF LocksSet
  <2> QED BY <1>1, <2>1, LenNat, GrownSame DEF LockedIn
<1>2. CASE p \notin DOMAIN account.jars
  BY <1>2 DEF LocksSet, LockedIn
<1> QED BY <1>1, <1>2

\* The same for unlocking; afterwards none of ps is locked.
LEMMA UnlockSteps ==
    ASSUME NEW t \in Nat, NEW account, AccountBy(account, t), NEW after, NEW ps,
           LocksSet(account, after, ps, FALSE)
    PROVE  /\ Steps(account, after, {}, ps)
           /\ \A p \in ps : ~LockedIn(after, p)
<1>1. ASSUME NEW p \in ProductIds
      PROVE  /\ LockedIn(after, p) <=> LockedIn(account, p) /\ p \notin ps
             /\ LockedIn(account, p) /\ p \notin ps =>
                     Grown(account.jars[p].deposits, after.jars[p].deposits)
  <2>1. CASE p \in DOMAIN account.jars
    <3>1. /\ p \in DOMAIN after.jars /\ after.jars[p].deposits = account.jars[p].deposits
          /\ p \in ps => after.jars[p].is_locked = FALSE
          /\ p \notin ps => after.jars[p].is_locked = account.jars[p].is_locked
      BY <2>1 DEF LocksSet
    <3> QED BY <2>1, <3>1, LenNat, GrownSame DEF LockedIn
  <2>2. CASE p \notin DOMAIN account.jars
    BY <2>2 DEF LocksSet, LockedIn
  <2> QED BY <2>1, <2>2
<1>2. \A p \in ps : ~LockedIn(after, p)
  BY DEF LocksSet, LockedIn
<1> QED BY <1>1, <1>2 DEF Steps

\* Closing jars that are not locked.
LEMMA CloseSteps ==
    ASSUME NEW t \in Nat, NEW account, AccountBy(account, t), NEW after, NEW ps,
           JarsClosed(account, after, ps), \A p \in ps : ~LockedIn(account, p)
    PROVE  Steps(account, after, {}, {})
<1> SUFFICES ASSUME NEW p \in ProductIds
             PROVE  /\ LockedIn(after, p) <=> LockedIn(account, p)
                    /\ LockedIn(account, p) =>
                            Grown(account.jars[p].deposits, after.jars[p].deposits)
  BY DEF Steps
<1>1. CASE p \in DOMAIN account.jars
  BY <1>1, LenNat, GrownSame DEF JarsClosed, LockedIn
<1>2. CASE p \notin DOMAIN account.jars
  BY <1>2 DEF JarsClosed, LockedIn
<1> QED BY <1>1, <1>2

\* Draining jars that are not locked.
LEMMA CleanUpSteps ==
    ASSUME NEW t \in Nat, NEW account, AccountBy(account, t), NEW partition,
           CanCleanUpJars(account, partition),
           \A p \in DOMAIN partition : partition[p] \in Nat /\ ~LockedIn(account, p)
    PROVE  Steps(account, CleanUpJars(account, partition), {}, {})
<1> DEFINE after == CleanUpJars(account, partition)
<1>1. /\ DOMAIN after.jars = DOMAIN account.jars
      /\ \A p \in DOMAIN account.jars : after.jars[p].is_locked = account.jars[p].is_locked
  BY CleanUpJarsType
<1>2. ASSUME NEW p \in DOMAIN account.jars, p \notin DOMAIN partition
      PROVE  after.jars[p] = account.jars[p]
  BY <1>2 DEF CleanUpJars, AccountBy
<1> HIDE DEF after
<1> SUFFICES ASSUME NEW p \in ProductIds
             PROVE  /\ LockedIn(after, p) <=> LockedIn(account, p)
                    /\ LockedIn(account, p) =>
                            Grown(account.jars[p].deposits, after.jars[p].deposits)
  BY DEF Steps, after
<1>3. CASE p \in DOMAIN account.jars
  BY <1>1, <1>2, <1>3, LenNat, GrownSame DEF LockedIn
<1>4. CASE p \notin DOMAIN account.jars
  BY <1>1, <1>4 DEF LockedIn
<1> QED BY <1>3, <1>4

\* Depositing, to a locked jar too.
LEMMA DepositSteps ==
    ASSUME NEW t \in Nat, NEW account, AccountBy(account, t), NEW q \in ProductIds,
           NEW principal \in Nat
    PROVE  Steps(account, DepositTo(account, q, principal, t), {}, {})
<1> DEFINE after == DepositTo(account, q, principal, t)
           new == AddDeposit(JarOrNew(account, q), principal, t)
<1>1. JarAdded(account, after, q)
  BY DepositToType
<1>2. after.jars = Put(account.jars, q, new)
  BY DEF DepositTo, AccountBy
<1>3. ASSUME NEW p \in DOMAIN account.jars
      PROVE  Grown(account.jars[p].deposits, after.jars[p].deposits)
  <2>1. account.jars[p] \in JarBy(t)
    BY DEF AccountBy, JarsBy
  <2>2. account.jars[p].deposits \in Seq(DepositBy(t))
    BY <2>1 DEF JarBy, DepositsBy
  <2>3. CASE p # q
    <3>1. after.jars[p] = account.jars[p]
      <4> HIDE DEF after, new
      <4> QED BY <1>2, <2>3 DEF Put
    <3> QED BY <3>1, LenNat, GrownSame
  <2>4. CASE p = q
    <3>1. after.jars[p] = new
      <4> HIDE DEF after, new
      <4> QED BY <1>2, <2>4 DEF Put
    <3>2. new.deposits
            = Append(account.jars[p].deposits, [created_at |-> t, principal |-> principal])
      <4>1. JarOrNew(account, q) = account.jars[p]
        BY <2>4 DEF JarOrNew
      <4> DEFINE jar == account.jars[p]
      <4> HIDE DEF jar
      <4>2. AddDeposit(jar, principal, t).deposits
                = Append(jar.deposits, [created_at |-> t, principal |-> principal])
        BY <2>1 DEF AddDeposit, JarBy, jar
      <4> QED BY <4>1, <4>2 DEF jar
    <3>3. [created_at |-> t, principal |-> principal] \in DepositBy(t)
      BY DEF DepositBy
    <3>4. Grown(account.jars[p].deposits, new.deposits)
      <4> DEFINE d == account.jars[p].deposits
                 x == [created_at |-> t, principal |-> principal]
      <4>1. /\ Len(d) \in Nat /\ Len(Append(d, x)) = Len(d) + 1
            /\ \A i \in 1 .. Len(d) : Append(d, x)[i] = d[i]
        <5> HIDE DEF d, x
        <5> QED BY <2>2, <3>3, AppendProperties DEF d, x
      <4> HIDE DEF new
      <4> QED BY <3>2, <4>1 DEF Grown
    <3> HIDE DEF after, new
    <3> QED BY <3>1, <3>4
  <2> QED BY <2>3, <2>4
<1> HIDE DEF after
<1> SUFFICES ASSUME NEW p \in ProductIds
             PROVE  /\ LockedIn(after, p) <=> LockedIn(account, p)
                    /\ LockedIn(account, p) =>
                            Grown(account.jars[p].deposits, after.jars[p].deposits)
  BY DEF Steps, after
<1>4. CASE p \in DOMAIN account.jars
  BY <1>1, <1>3, <1>4 DEF LockedIn, JarAdded
<1>5. CASE p \notin DOMAIN account.jars
  BY <1>1, <1>5 DEF LockedIn, JarAdded
<1> QED BY <1>4, <1>5

\* One method after another.
LEMMA StepsThen ==
    ASSUME NEW t \in Nat, NEW x, AccountBy(x, t), NEW y, AccountBy(y, t),
           NEW z, AccountBy(z, t), NEW taken, NEW freed,
           Steps(x, y, {}, freed), Steps(y, z, taken, {})
    PROVE  Steps(x, z, taken, freed)
<1> SUFFICES ASSUME NEW p \in ProductIds
             PROVE  /\ LockedIn(z, p) <=>
                            (LockedIn(x, p) /\ p \notin freed) \/ p \in taken
                    /\ LockedIn(x, p) /\ p \notin freed =>
                            Grown(x.jars[p].deposits, z.jars[p].deposits)
  BY DEF Steps
<1>1. /\ LockedIn(y, p) <=> LockedIn(x, p) /\ p \notin freed
      /\ LockedIn(z, p) <=> LockedIn(y, p) \/ p \in taken
      /\ LockedIn(x, p) /\ p \notin freed =>
            Grown(x.jars[p].deposits, y.jars[p].deposits)
      /\ LockedIn(y, p) => Grown(y.jars[p].deposits, z.jars[p].deposits)
  BY DEF Steps
<1> QED BY <1>1, GrownThen

-----------------------------------------------------------------------------
(* What one step does to the locks and the receipts.                        *)

\* The step takes the locks of the jars taken of account a and frees those of
\* the jars freed; the other locked jars lose no deposit.
Moves(a, taken, freed) ==
    \A b \in AccountIds, p \in ProductIds :
        /\ IsLocked(b, p)' <=>
                (IsLocked(b, p) /\ ~(b = a /\ p \in freed)) \/ (b = a /\ p \in taken)
        /\ IsLocked(b, p) /\ ~(b = a /\ p \in freed) => Grown(Held(b, p), Held(b, p)')

\* The receipts in flight are about the same jars, for the same amounts.
SameRequest(r, q) ==
    /\ q.kind = r.kind /\ q.account = r.account /\ q.jars = r.jars /\ q.amount = r.amount
    /\ r.kind = "restake" => q.fee = r.fee /\ q.deposit = r.deposit

HoldsKept ==
    /\ DOMAIN receipts' = DOMAIN receipts
    /\ \A s \in DOMAIN receipts : SameRequest(receipts[s], receipts'[s])

\* Replacing an account moves the locks that its new value took or freed.
LEMMA SetAccountMoves ==
    ASSUME TypeInv, NEW a \in AccountIds, NEW after, AccountBy(after, now),
           SetAccount(a, after), NEW taken, NEW freed,
           Steps(AccountOrNew(a), after, taken, freed)
    PROVE  Moves(a, taken, freed)
<1>1. /\ DOMAIN accounts' = DOMAIN accounts \cup {a}
      /\ \A b \in DOMAIN accounts \cup {a} :
            accounts'[b] = IF b = a THEN after ELSE accounts[b]
  BY SetAccountType
<1>2. AccountBy(AccountOrNew(a), now) /\ now \in Nat
  BY AccountOrNewType DEF TypeInv
<1>3. ASSUME NEW b \in DOMAIN accounts
      PROVE  AccountBy(accounts[b], now)
  BY DEF TypeInv, AccountsBy
<1> SUFFICES ASSUME NEW b \in AccountIds, NEW p \in ProductIds
             PROVE  /\ IsLocked(b, p)' <=> (IsLocked(b, p) /\ ~(b = a /\ p \in freed))
                                                \/ (b = a /\ p \in taken)
                    /\ IsLocked(b, p) /\ ~(b = a /\ p \in freed)
                            => Grown(Held(b, p), Held(b, p)')
  BY DEF Moves
<1>4. CASE b = a
  <2>1. accounts'[a] = after /\ a \in DOMAIN accounts'
    BY <1>1
  <2>2. IsLocked(a, p)' <=> LockedIn(after, p)
    <3>1. p \in DOMAIN after.jars => after.jars[p].is_locked \in BOOLEAN
      BY <1>2, LenNat
    <3> QED BY <2>1, <3>1 DEF IsLocked, JarsOf, LockedIn
  <2>3. /\ IsLocked(a, p) <=> LockedIn(AccountOrNew(a), p)
        /\ IsLocked(a, p) => AccountOrNew(a) = accounts[a]
    <3>1. CASE a \in DOMAIN accounts
      <4>1. p \in DOMAIN accounts[a].jars => accounts[a].jars[p].is_locked \in BOOLEAN
        BY <1>2, <1>3, <3>1, LenNat
      <4>2. AccountOrNew(a) = accounts[a]
        BY <3>1 DEF AccountOrNew
      <4> QED BY <3>1, <4>1, <4>2 DEF IsLocked, JarsOf, LockedIn
    <3>2. CASE a \notin DOMAIN accounts
      <4>1. DOMAIN AccountOrNew(a).jars = {}
        BY <3>2 DEF AccountOrNew, EmptyAccount, EmptyMap
      <4> QED BY <3>2, <4>1 DEF IsLocked, LockedIn
    <3> QED BY <3>1, <3>2
  <2>4. IsLocked(a, p) =>
            Held(a, p) = AccountOrNew(a).jars[p].deposits
    BY <2>3 DEF Held, JarsOf
  <2>5. Held(a, p)' = after.jars[p].deposits
    BY <2>1 DEF Held, JarsOf
  <2>6. /\ LockedIn(after, p) <=>
                (LockedIn(AccountOrNew(a), p) /\ p \notin freed) \/ p \in taken
        /\ LockedIn(AccountOrNew(a), p) /\ p \notin freed =>
                Grown(AccountOrNew(a).jars[p].deposits, after.jars[p].deposits)
    BY DEF Steps
  <2> HIDE DEF Moves
  <2>7. IsLocked(a, p)' <=> (IsLocked(a, p) /\ p \notin freed) \/ p \in taken
    BY <2>2, <2>3, <2>6
  <2>8. IsLocked(a, p) /\ p \notin freed => Grown(Held(a, p), Held(a, p)')
    BY <2>3, <2>4, <2>5, <2>6
  <2> QED BY <1>4, <2>7, <2>8
<1>5. CASE b # a
  <2>1. /\ b \in DOMAIN accounts' <=> b \in DOMAIN accounts
        /\ b \in DOMAIN accounts => accounts'[b] = accounts[b]
    BY <1>1, <1>5
  <2>2. /\ IsLocked(b, p)' <=> IsLocked(b, p)
        /\ IsLocked(b, p) => Held(b, p)' = Held(b, p)
    BY <2>1 DEF IsLocked, JarsOf, Held
  <2>3. IsLocked(b, p) => Len(Held(b, p)) \in Nat
    BY <1>2, <1>3, LenNat DEF IsLocked, JarsOf, Held
  <2> QED BY <1>5, <2>2, <2>3, GrownSame
<1> QED BY <1>4, <1>5

\* Methods that write no account.
LEMMA UnchangedMoves ==
    ASSUME TypeInv, UNCHANGED accounts
    PROVE  \A a : Moves(a, {}, {})
<1> SUFFICES ASSUME NEW b \in AccountIds, NEW p \in ProductIds
             PROVE  /\ IsLocked(b, p)' <=> IsLocked(b, p)
                    /\ IsLocked(b, p) => Grown(Held(b, p), Held(b, p)')
  BY DEF Moves
<1>1. IsLocked(b, p) => Len(Held(b, p)) \in Nat
  BY LenNat DEF IsLocked, JarsOf, Held, TypeInv, AccountsBy
<1> QED BY <1>1, GrownSame DEF IsLocked, JarsOf, Held

\* A jar that a payout in flight is about exists and is locked.
LEMMA PayoutCovers ==
    ASSUME TypeInv, Owned, NEW s \in DOMAIN receipts, IsPayout(receipts[s]),
           NEW p \in DOMAIN receipts[s].jars
    PROVE  LET a == receipts[s].account
           IN  /\ s \in Slots /\ a \in AccountIds /\ p \in ProductIds
               /\ Covers(s, a, p) /\ IsLocked(a, p)
               /\ accounts[a].jars[p] \in JarBy(now)
<1>1. /\ s \in Slots /\ receipts[s].account \in AccountIds /\ p \in ProductIds
  BY ReceiptKinds DEF IsPayout, IsWithdrawal, IsRestake, HasFootprint, IsMap
<1>2. Covers(s, receipts[s].account, p) /\ IsLocked(receipts[s].account, p)
  BY <1>1 DEF Covers, Owned
<1>3. accounts[receipts[s].account].jars[p] \in JarBy(now)
  BY <1>2 DEF IsLocked, JarsOf, TypeInv, AccountsBy, AccountBy, JarsBy
<1> QED BY <1>1, <1>2, <1>3

\* The oldest deposits are worth the same when younger ones come.
LEMMA GrownPrincipal ==
    ASSUME NEW d, NEW e, Grown(d, e), NEW n \in 0 .. Len(d)
    PROVE  Principal(d, n) = Principal(e, n)
<1>1. \A i \in 1 .. n : d[i] = e[i]
  BY DEF Grown
<1>2. [i \in 1 .. n |-> d[i].principal] = [i \in 1 .. n |-> e[i].principal]
  BY <1>1
<1> QED BY <1>2 DEF Principal

\* What fits goes on fitting while deposits are only added and time goes on.
LEMMA FitsKept ==
    ASSUME NEW t \in Nat, NEW u \in Nat, t <= u, NEW r, NEW q, SameRequest(r, q),
           NEW x, NEW y, Fits(r, x, t),
           \A p \in DOMAIN r.jars : /\ p \in ProductIds /\ x.jars[p] \in JarBy(t)
                                    /\ Grown(x.jars[p].deposits, y.jars[p].deposits)
    PROVE  Fits(q, y, u)
<1> DEFINE n(p) == r.jars[p].partition_index
           taken(z, p) == Principal(z.jars[p].deposits, n(p))
<1>1. ASSUME NEW p \in DOMAIN r.jars
      PROVE  /\ n(p) \in 0 .. Len(y.jars[p].deposits)
             /\ taken(x, p) = taken(y, p)
             /\ \A i \in 1 .. n(p) : IsLiquid(TermsOf(p), y.jars[p].deposits[i], u)
  <2>1. n(p) \in 0 .. Len(x.jars[p].deposits)
    BY DEF Fits
  <2>2. Grown(x.jars[p].deposits, y.jars[p].deposits)
    OBVIOUS
  <2>3. ASSUME NEW i \in 1 .. n(p)
        PROVE  IsLiquid(TermsOf(p), y.jars[p].deposits[i], u)
    <3>1. y.jars[p].deposits[i] = x.jars[p].deposits[i]
      BY <2>1, <2>2 DEF Grown
    <3>2. IsLiquid(TermsOf(p), x.jars[p].deposits[i], t)
      BY DEF Fits
    <3>3. x.jars[p].deposits[i] \in DepositBy(t)
      <4>1. x.jars[p].deposits \in Seq(DepositBy(t))
        BY DEF JarBy, DepositsBy
      <4> QED BY <2>1, <4>1
    <3>4. TermsOf(p).lockup_term \in Nat
      BY TermsType DEF Terms
    <3>5. x.jars[p].deposits[i].created_at \in Nat
      BY <3>3 DEF DepositBy
    <3>6. IsLiquid(TermsOf(p), x.jars[p].deposits[i], u)
      BY <3>2, <3>4, <3>5 DEF IsLiquid
    <3> QED BY <3>1, <3>6
  <2>4. n(p) \in 0 .. Len(y.jars[p].deposits)
    <3> DEFINE m == Len(x.jars[p].deposits)
               l == Len(y.jars[p].deposits)
               k == n(p)
    <3>1. k \in 0 .. m
      BY <2>1
    <3>2. m \in Nat /\ l \in Nat /\ m <= l
      BY <2>2 DEF Grown
    <3> HIDE DEF m, l, k
    <3>3. k \in 0 .. l
      BY <3>1, <3>2
    <3> QED BY <3>3 DEF k, l
  <2>5. taken(x, p) = taken(y, p)
    <3> DEFINE d == x.jars[p].deposits
               e == y.jars[p].deposits
               k == n(p)
    <3>1. k \in 0 .. Len(d) /\ Grown(d, e)
      BY <2>1, <2>2
    <3>2. Principal(d, k) = Principal(e, k)
      <4> HIDE DEF d, e, k
      <4> QED BY <3>1, GrownPrincipal
    <3> QED BY <3>2
  <2> QED BY <2>3, <2>4, <2>5
<1>2. [p \in DOMAIN r.jars |-> taken(x, p)] = [p \in DOMAIN r.jars |-> taken(y, p)]
  <2> HIDE DEF taken
  <2> QED BY <1>1
<1>3. r.kind = "withdraw" =>
        /\ \A p \in DOMAIN r.jars : r.jars[p].amount = taken(y, p)
        /\ CanPay(r.jars) /\ r.amount = TotalNetAmount(r.jars)
  BY <1>1 DEF Fits
<1>4. r.kind = "restake" =>
        r.amount + r.fee + r.deposit = Total([p \in DOMAIN r.jars |-> taken(y, p)])
  <2>1. r.kind = "restake" =>
            r.amount + r.fee + r.deposit = Total([p \in DOMAIN r.jars |-> taken(x, p)])
    BY DEF Fits
  <2> HIDE DEF taken
  <2> QED BY <1>2, <2>1
<1> QED BY <1>1, <1>3, <1>4 DEF Fits, SameRequest

\* A payout that stays in flight goes on fitting if its jars only grow.
LEMMA StillFits ==
    ASSUME TypeInv, Owned, Fitting, TimeGoesOn, NEW s \in DOMAIN receipts,
           IsPayout(receipts[s]), NEW q, SameRequest(receipts[s], q),
           NEW a, a = receipts[s].account,
           \A p \in DOMAIN receipts[s].jars : Grown(Held(a, p), Held(a, p)')
    PROVE  Fits(q, accounts'[q.account], now')
<1> DEFINE r == receipts[s]
           x == accounts[a]
           y == accounts'[a]
<1>1. Fits(r, x, now) /\ now \in Nat /\ now' \in Nat /\ now <= now'
  BY DEF Fitting, TypeInv, TimeGoesOn
<1>2. ASSUME NEW p \in DOMAIN r.jars
      PROVE  /\ p \in ProductIds /\ x.jars[p] \in JarBy(now)
             /\ Grown(x.jars[p].deposits, y.jars[p].deposits)
  <2>1. p \in ProductIds /\ x.jars[p] \in JarBy(now)
    BY PayoutCovers
  <2>2. Grown(Held(a, p), Held(a, p)')
    OBVIOUS
  <2>3. Grown(x.jars[p].deposits, y.jars[p].deposits)
    BY <2>2 DEF Held, JarsOf
  <2> QED BY <2>1, <2>3
<1>3. q.account = a
  BY DEF SameRequest
<1> HIDE DEF r, x, y
<1>4. Fits(q, y, now')
  BY <1>1, <1>2, FitsKept DEF r
<1> QED BY <1>3, <1>4 DEF y

\* A step that moves no lock keeps the invariant.
LEMMA KeptOwned ==
    ASSUME TypeInv, Owned, Fitting, TimeGoesOn, NEW a, Moves(a, {}, {}), HoldsKept
    PROVE  Owned' /\ Fitting'
<1>1. \A b \in AccountIds, p \in ProductIds :
        /\ IsLocked(b, p)' <=> IsLocked(b, p)
        /\ IsLocked(b, p) => Grown(Held(b, p), Held(b, p)')
  BY DEF Moves
<1>2. \A s \in Slots, b \in AccountIds, p \in ProductIds :
        Covers(s, b, p)' <=> Covers(s, b, p)
  BY DEF HoldsKept, SameRequest, Covers
<1>3. Owned'
  BY <1>1, <1>2 DEF Owned
<1>4. Fitting'
  <2> SUFFICES ASSUME NEW s \in DOMAIN receipts', IsPayout(receipts'[s])
               PROVE  Fits(receipts'[s], accounts'[receipts'[s].account], now')
    BY DEF Fitting
  <2>1. /\ s \in DOMAIN receipts /\ SameRequest(receipts[s], receipts'[s])
        /\ IsPayout(receipts[s])
    BY DEF HoldsKept, SameRequest, IsPayout
  <2>2. PICK b \in AccountIds : b = receipts[s].account
    BY <2>1, ReceiptKinds DEF IsPayout
  <2>3. ASSUME NEW p \in DOMAIN receipts[s].jars
        PROVE  Grown(Held(b, p), Held(b, p)')
    <3>1. p \in ProductIds /\ IsLocked(b, p)
      BY <2>1, <2>2, PayoutCovers
    <3> QED BY <1>1, <3>1
  <2> QED BY <2>1, <2>2, <2>3, StillFits
<1> QED BY <1>3, <1>4

\* A step that takes the locks of unlocked jars and sends the transfer that
\* is about them and fits them.
LEMMA TakenOwned ==
    ASSUME TypeInv, Owned, Fitting, TimeGoesOn, NEW s \in FreeSlots, NEW r, Send(s, r),
           Moves(r.account, DOMAIN r.jars, {}),
           \A p \in DOMAIN r.jars : ~IsLocked(r.account, p),
           IsPayout(r) => Fits(r, accounts'[r.account], now')
    PROVE  Owned' /\ Fitting'
<1> DEFINE a == r.account
           ps == DOMAIN r.jars
<1>1. /\ s \notin DOMAIN receipts /\ s \in Slots
      /\ receipts'[s] = r /\ s \in DOMAIN receipts'
      /\ \A x \in Slots \ {s} : /\ x \in DOMAIN receipts' <=> x \in DOMAIN receipts
                                /\ x \in DOMAIN receipts => receipts'[x] = receipts[x]
  BY DEF TypeInv, ReceiptsBy, Send, IsMap, Put, FreeSlots
<1>2. \A b \in AccountIds, p \in ProductIds :
        /\ IsLocked(b, p)' <=> IsLocked(b, p) \/ (b = a /\ p \in ps)
        /\ IsLocked(b, p) => Grown(Held(b, p), Held(b, p)')
  BY DEF Moves
<1>3. \A x \in Slots, b \in AccountIds, p \in ProductIds :
        Covers(x, b, p)' <=> Covers(x, b, p) \/ (x = s /\ b = a /\ p \in ps)
  <2> TAKE x \in Slots, b \in AccountIds, p \in ProductIds
  <2>1. CASE x = s
    BY <1>1, <2>1 DEF Covers
  <2>2. CASE x # s
    <3>1. /\ x \in DOMAIN receipts' <=> x \in DOMAIN receipts
          /\ x \in DOMAIN receipts => receipts'[x] = receipts[x]
      BY <1>1, <2>2
    <3>2. CASE x \in DOMAIN receipts
      BY <2>2, <3>1, <3>2 DEF Covers
    <3>3. CASE x \notin DOMAIN receipts
      BY <2>2, <3>1, <3>3 DEF Covers
    <3> QED BY <3>2, <3>3
  <2> QED BY <2>1, <2>2
<1>4. Owned'
  <2> HIDE DEF a, ps
  <2>0. \A p \in ps : ~IsLocked(a, p)
    BY DEF a, ps
  <2>1. \A x \in Slots, b \in AccountIds, p \in ProductIds :
            Covers(x, b, p)' => IsLocked(b, p)'
    BY <1>2, <1>3 DEF Owned
  <2>2. \A b \in AccountIds, p \in ProductIds :
            IsLocked(b, p)' => \E x \in Slots : Covers(x, b, p)'
    BY <1>1, <1>2, <1>3 DEF Owned
  <2>3. \A x, y \in Slots, b \in AccountIds, p \in ProductIds :
            Covers(x, b, p)' /\ Covers(y, b, p)' => x = y
    <3> TAKE x, y \in Slots, b \in AccountIds, p \in ProductIds
    <3> HAVE Covers(x, b, p)' /\ Covers(y, b, p)'
    <3>1. CASE b = a /\ p \in ps
      <4>1. ~Covers(x, b, p) /\ ~Covers(y, b, p)
        BY <2>0, <3>1 DEF Owned
      <4> QED BY <1>3, <4>1
    <3>2. CASE ~(b = a /\ p \in ps)
      <4>1. Covers(x, b, p) /\ Covers(y, b, p)
        BY <1>3, <3>2
      <4> QED BY <4>1 DEF Owned
    <3> QED BY <3>1, <3>2
  <2> QED BY <2>1, <2>2, <2>3 DEF Owned
<1>5. Fitting'
  <2> SUFFICES ASSUME NEW x \in DOMAIN receipts', IsPayout(receipts'[x])
               PROVE  Fits(receipts'[x], accounts'[receipts'[x].account], now')
    BY DEF Fitting
  <2>1. CASE x = s
    BY <1>1, <2>1
  <2>2. CASE x # s
    <3>1. x \in Slots
      BY DEF Send, Put, TypeInv, ReceiptsBy, IsMap, FreeSlots
    <3>2. x \in DOMAIN receipts /\ receipts'[x] = receipts[x] /\ IsPayout(receipts[x])
      BY <1>1, <2>2, <3>1
    <3>3. PICK b \in AccountIds : b = receipts[x].account
      BY <3>2, ReceiptKinds DEF IsPayout
    <3>4. ASSUME NEW p \in DOMAIN receipts[x].jars
          PROVE  Grown(Held(b, p), Held(b, p)')
      <4>1. p \in ProductIds /\ IsLocked(b, p)
        BY <3>2, <3>3, PayoutCovers
      <4> QED BY <1>2, <4>1
    <3>5. SameRequest(receipts[x], receipts'[x])
      BY <3>2 DEF SameRequest
    <3> QED BY <3>2, <3>3, <3>4, <3>5, StillFits
  <2> QED BY <2>1, <2>2
<1> QED BY <1>4, <1>5

\* A callback that frees the locks its own transfer held.
LEMMA FreedOwned ==
    ASSUME TypeInv, Owned, Fitting, TimeGoesOn, NEW s \in DOMAIN receipts, Consume(s),
           Moves(receipts[s].account, {}, DOMAIN receipts[s].jars)
    PROVE  Owned' /\ Fitting'
<1>1. /\ s \in Slots /\ s \notin DOMAIN receipts'
      /\ \A x \in Slots \ {s} : /\ x \in DOMAIN receipts' <=> x \in DOMAIN receipts
                                /\ x \in DOMAIN receipts => receipts'[x] = receipts[x]
  BY ConsumeType DEF TypeInv, ReceiptsBy, IsMap
<1>2. \A b \in AccountIds, p \in ProductIds :
        /\ IsLocked(b, p)' <=> IsLocked(b, p) /\ ~Covers(s, b, p)
        /\ IsLocked(b, p) /\ ~Covers(s, b, p) => Grown(Held(b, p), Held(b, p)')
  BY DEF Moves, Covers
<1>3. \A x \in Slots, b \in AccountIds, p \in ProductIds :
        Covers(x, b, p)' <=> Covers(x, b, p) /\ x # s
  <2> TAKE x \in Slots, b \in AccountIds, p \in ProductIds
  <2>1. CASE x = s
    BY <1>1, <2>1 DEF Covers
  <2>2. CASE x # s
    <3>1. /\ x \in DOMAIN receipts' <=> x \in DOMAIN receipts
          /\ x \in DOMAIN receipts => receipts'[x] = receipts[x]
      BY <1>1, <2>2
    <3>2. CASE x \in DOMAIN receipts
      BY <2>2, <3>1, <3>2 DEF Covers
    <3>3. CASE x \notin DOMAIN receipts
      BY <2>2, <3>1, <3>3 DEF Covers
    <3> QED BY <3>2, <3>3
  <2> QED BY <2>1, <2>2
<1>4. Owned'
  <2>1. \A x \in Slots, b \in AccountIds, p \in ProductIds :
            Covers(x, b, p)' => IsLocked(b, p)'
    BY <1>1, <1>2, <1>3 DEF Owned
  <2>2. \A b \in AccountIds, p \in ProductIds :
            IsLocked(b, p)' => \E x \in Slots : Covers(x, b, p)'
    <3> TAKE b \in AccountIds, p \in ProductIds
    <3> HAVE IsLocked(b, p)'
    <3>1. IsLocked(b, p) /\ ~Covers(s, b, p)
      BY <1>2
    <3>2. PICK x \in Slots : Covers(x, b, p)
      BY <3>1 DEF Owned
    <3>3. x # s
      BY <3>1, <3>2
    <3> QED BY <1>3, <3>2, <3>3
  <2>3. \A x, y \in Slots, b \in AccountIds, p \in ProductIds :
            Covers(x, b, p)' /\ Covers(y, b, p)' => x = y
    BY <1>3 DEF Owned
  <2> QED BY <2>1, <2>2, <2>3 DEF Owned
<1>5. Fitting'
  <2> SUFFICES ASSUME NEW x \in DOMAIN receipts', IsPayout(receipts'[x])
               PROVE  Fits(receipts'[x], accounts'[receipts'[x].account], now')
    BY DEF Fitting
  <2>1. /\ x # s /\ x \in DOMAIN receipts /\ receipts'[x] = receipts[x]
        /\ IsPayout(receipts[x])
    BY ConsumeType
  <2>2. PICK b \in AccountIds : b = receipts[x].account
    BY <2>1, ReceiptKinds DEF IsPayout
  <2>3. ASSUME NEW p \in DOMAIN receipts[x].jars
        PROVE  Grown(Held(b, p), Held(b, p)')
    <3>1. p \in ProductIds /\ x \in Slots /\ Covers(x, b, p) /\ IsLocked(b, p)
      BY <2>1, <2>2, PayoutCovers
    <3>2. ~Covers(s, b, p)
      BY <1>1, <2>1, <3>1 DEF Owned
    <3> QED BY <1>2, <3>1, <3>2
  <2>4. SameRequest(receipts[x], receipts'[x])
    BY <2>1 DEF SameRequest
  <2> QED BY <2>1, <2>2, <2>3, <2>4, StillFits
<1> QED BY <1>4, <1>5

\* The token answers a payout, or a deposit is refused: no hold changes.
LEMMA AnswerHolds ==
    ASSUME TypeInv, NEW s \in DOMAIN receipts, NEW status \in {"succeeded", "failed"},
           receipts[s].kind = "stake" => status = "failed",
           receipts' = [receipts EXCEPT ![s].status = status]
    PROVE  HoldsKept
<1>1. /\ DOMAIN receipts' = DOMAIN receipts
      /\ \A x \in DOMAIN receipts : receipts'[x] =
            IF x = s THEN [receipts[s] EXCEPT !.status = status] ELSE receipts[x]
  BY AnswerType
<1>2. \A x \in DOMAIN receipts : SameRequest(receipts[x], receipts'[x])
  <2> TAKE x \in DOMAIN receipts
  <2>1. CASE x = s
    BY <1>1, <2>1, ReceiptKinds
       DEF IsStake, IsWithdrawal, IsClaim, IsRestake, IsFee, SameRequest
  <2>2. CASE x # s
    BY <1>1, <2>2 DEF SameRequest
  <2> QED BY <2>1, <2>2
<1> QED BY <1>1, <1>2 DEF HoldsKept

-----------------------------------------------------------------------------
(* Every action keeps the invariant. *)

\* The token answers, or the contract refuses a deposit.
LEMMA AnswerOwned ==
    ASSUME LockInv, TimeGoesOn, NEW s \in Slots,
           FtTransferSucceeds(s) \/ FtTransferFails(s) \/ OnStakePanics(s)
    PROVE  Owned' /\ Fitting'
<1>1. Moves(s, {}, {})
  BY UnchangedMoves DEF LockInv, FtTransferSucceeds, FtTransferFails, OnStakePanics
<1>2. CASE FtTransferSucceeds(s)
  BY <1>1, <1>2, AnswerHolds, KeptOwned DEF LockInv, FtTransferSucceeds
<1>3. CASE FtTransferFails(s)
  BY <1>1, <1>3, AnswerHolds, KeptOwned DEF LockInv, FtTransferFails
<1>4. CASE OnStakePanics(s)
  BY <1>1, <1>4, AnswerHolds, KeptOwned DEF LockInv, OnStakePanics, InFlight
<1> QED BY <1>2, <1>3, <1>4

\* Sending what is about no jar: a deposit, or the fees.
LEMMA SendNoJarsOwned ==
    ASSUME LockInv, TimeGoesOn, NEW s \in FreeSlots, NEW r, Send(s, r),
           r.jars = NoJars, ~IsPayout(r), UNCHANGED accounts
    PROVE  Owned' /\ Fitting'
<1>1. DOMAIN r.jars = {}
  BY DEF NoJars, EmptyMap
<1>2. Moves(r.account, DOMAIN r.jars, {})
  BY <1>1, UnchangedMoves DEF LockInv
<1> QED BY <1>1, <1>2, TakenOwned DEF LockInv

\* Stake and withdraw_fee.
LEMMA StakeOwned ==
    ASSUME LockInv, TimeGoesOn, NEW s \in FreeSlots, NEW sender, NEW a, NEW p, NEW amount, NEW timezone,
           Stake(s, sender, a, p, amount, timezone)
    PROVE  Owned' /\ Fitting'
<1> DEFINE r == [kind |-> "stake", status |-> "sent", account |-> a, sender |-> sender,
                 product |-> p, amount |-> amount, timezone |-> timezone, jars |-> NoJars]
<1>1. Send(s, r) /\ r.jars = NoJars /\ ~IsPayout(r) /\ UNCHANGED accounts
  BY DEF Stake, IsPayout
<1> HIDE DEF r
<1> QED BY <1>1, SendNoJarsOwned

\* The fees go out.
LEMMA WithdrawFeeOwned ==
    ASSUME LockInv, TimeGoesOn, NEW s \in FreeSlots, WithdrawFee(s)
    PROVE  Owned' /\ Fitting'
<1> DEFINE r == [kind |-> "fee", status |-> "sent", account |-> FeeAccount,
                 amount |-> fee_amount, jars |-> NoJars]
<1>1. Send(s, r) /\ r.jars = NoJars /\ ~IsPayout(r) /\ UNCHANGED accounts
  BY DEF WithdrawFee, IsPayout
<1> HIDE DEF r
<1> QED BY <1>1, SendNoJarsOwned

\* What becomes of receipts that are about no jar.
LEMMA ConsumeNoJarsOwned ==
    ASSUME LockInv, TimeGoesOn, NEW s \in DOMAIN receipts, Consume(s), DOMAIN receipts[s].jars = {},
           Moves(receipts[s].account, {}, {})
    PROVE  Owned' /\ Fitting'
BY FreedOwned DEF LockInv

\* Refunds and the callbacks of the fee payout.
LEMMA SettledOwned ==
    ASSUME LockInv, TimeGoesOn, NEW s \in Slots,
           RefundStake(s) \/ AfterFeeWithdrawn(s) \/ AfterFailedFeeWithdrawal(s)
    PROVE  Owned' /\ Fitting'
<1>1. /\ s \in DOMAIN receipts /\ receipts[s].kind \in {"stake", "fee"}
      /\ Consume(s) /\ UNCHANGED accounts
  BY DEF RefundStake, AfterFeeWithdrawn, AfterFailedFeeWithdrawal, InFlight
<1>2. DOMAIN receipts[s].jars = {}
  BY <1>1, ReceiptKinds DEF LockInv, IsStake, IsFee, NoJars, EmptyMap
<1>3. Moves(receipts[s].account, {}, {})
  BY <1>1, UnchangedMoves DEF LockInv
<1> QED BY <1>1, <1>2, <1>3, ConsumeNoJarsOwned

\* A deposit arrives; its jar may be locked, and stays so.
LEMMA OnStakeOwned ==
    ASSUME LockInv, TimeGoesOn, NEW s \in Slots, OnStake(s)
    PROVE  Owned' /\ Fitting'
<1> DEFINE r == receipts[s]
           a == r.account
           deposited == DepositTo(StakeTarget(r), r.product, r.amount, now)
           after == UpdateJarCaches(deposited, {r.product}, now)
<1>1. s \in DOMAIN receipts /\ IsStake(r) /\ now \in Nat /\ TypeInv
  BY ReceiptKinds DEF OnStake, InFlight, LockInv, TypeInv
<1>2. a \in AccountIds /\ r.product \in ProductIds /\ r.amount \in Nat
  BY <1>1 DEF IsStake
<1>3. AccountBy(AccountOrNew(a), now)
  BY <1>1, <1>2, AccountOrNewType
<1>4. AccountBy(StakeTarget(r), now) /\ StakeTarget(r).jars = AccountOrNew(a).jars
  BY <1>1, StakeTargetType
<1>5. Steps(AccountOrNew(a), StakeTarget(r), {}, {})
  BY <1>1, <1>3, <1>4, SameSteps
<1>6. AccountBy(deposited, now) /\ Steps(StakeTarget(r), deposited, {}, {})
  BY <1>1, <1>2, <1>4, DepositToType, DepositSteps
<1>7. AccountBy(after, now) /\ Steps(deposited, after, {}, {})
  <2> HIDE DEF deposited
  <2> QED BY <1>1, <1>6, UpdateJarCachesType, SameSteps
<1>8. Steps(AccountOrNew(a), after, {}, {})
  <2> HIDE DEF a, deposited, after
  <2>1. Steps(AccountOrNew(a), deposited, {}, {})
    BY <1>1, <1>3, <1>4, <1>5, <1>6, StepsThen
  <2> QED BY <1>1, <1>3, <1>6, <1>7, <2>1, StepsThen
<1>9. SetAccount(a, after) /\ Consume(s)
  BY DEF OnStake
<1>10. Moves(a, {}, {})
  <2> HIDE DEF a, after
  <2> QED BY <1>1, <1>2, <1>7, <1>8, <1>9, SetAccountMoves DEF a
<1>11. DOMAIN r.jars = {}
  BY <1>1 DEF IsStake, NoJars, EmptyMap
<1> QED BY <1>1, <1>9, <1>10, <1>11, ConsumeNoJarsOwned

-----------------------------------------------------------------------------
(* The callbacks that release jars.                                         *)

\* The jars of a receipt are there, and unlocking them frees the receipt's
\* locks.
LEMMA UnlockReceipt ==
    ASSUME LockInv, TimeGoesOn, NEW s \in DOMAIN receipts, HasJars(receipts[s])
    PROVE  LET r == receipts[s]
               unlocked == UnlockJars(accounts[r.account], DOMAIN r.jars)
           IN  /\ now \in Nat /\ r.account \in AccountIds
               /\ AccountOrNew(r.account) = accounts[r.account]
               /\ AccountBy(accounts[r.account], now)
               /\ AccountBy(unlocked, now)
               /\ Steps(accounts[r.account], unlocked, {}, DOMAIN r.jars)
               /\ \A p \in DOMAIN r.jars : ~LockedIn(unlocked, p)
<1> DEFINE r == receipts[s]
           unlocked == UnlockJars(accounts[r.account], DOMAIN r.jars)
<1>1. /\ now \in Nat /\ r.account \in AccountIds
      /\ AccountBy(accounts[r.account], now) /\ AccountBy(unlocked, now)
      /\ LocksSet(accounts[r.account], unlocked, DOMAIN r.jars, FALSE)
  BY UnlockedAccountType DEF LockInv, TypeInv
<1>2. AccountOrNew(r.account) = accounts[r.account]
  BY DEF HasJars, AccountOrNew
<1>3. /\ Steps(accounts[r.account], unlocked, {}, DOMAIN r.jars)
      /\ \A p \in DOMAIN r.jars : ~LockedIn(unlocked, p)
  <2> HIDE DEF unlocked
  <2> QED BY <1>1, UnlockSteps
<1> QED BY <1>1, <1>2, <1>3

\* A callback that replaces its account by one where its jars are free.
LEMMA FreeReceipt ==
    ASSUME LockInv, TimeGoesOn, NEW s \in DOMAIN receipts, HasJars(receipts[s]), Consume(s),
           NEW after, AccountBy(after, now), SetAccount(receipts[s].account, after),
           Steps(accounts[receipts[s].account], after, {}, DOMAIN receipts[s].jars)
    PROVE  Owned' /\ Fitting'
<1>1. /\ receipts[s].account \in AccountIds
      /\ AccountOrNew(receipts[s].account) = accounts[receipts[s].account]
  BY UnlockReceipt
<1>2. Moves(receipts[s].account, {}, DOMAIN receipts[s].jars)
  BY <1>1, SetAccountMoves DEF LockInv
<1> QED BY <1>2, FreedOwned DEF LockInv

\* Draining the deposits of jars that were just unlocked.
LEMMA DrainUnlocked ==
    ASSUME LockInv, TimeGoesOn, NEW s \in DOMAIN receipts, HasJars(receipts[s]),
           receipts[s].kind \in {"withdraw", "restake"},
           CanCleanUpJars(UnlockJars(accounts[receipts[s].account], DOMAIN receipts[s].jars),
                          PartitionOf(receipts[s]))
    PROVE  LET r == receipts[s]
               unlocked == UnlockJars(accounts[r.account], DOMAIN r.jars)
               cleaned == CleanUpJars(unlocked, PartitionOf(r))
           IN  /\ AccountBy(cleaned, now)
               /\ Steps(accounts[r.account], cleaned, {}, DOMAIN r.jars)
               /\ \A p \in DOMAIN r.jars : p \in ProductIds => ~LockedIn(cleaned, p)
<1> DEFINE r == receipts[s]
           unlocked == UnlockJars(accounts[r.account], DOMAIN r.jars)
           cleaned == CleanUpJars(unlocked, PartitionOf(r))
<1>1. /\ now \in Nat /\ AccountBy(accounts[r.account], now) /\ AccountBy(unlocked, now)
      /\ Steps(accounts[r.account], unlocked, {}, DOMAIN r.jars)
      /\ \A p \in DOMAIN r.jars : ~LockedIn(unlocked, p)
  BY UnlockReceipt
<1>2. DOMAIN PartitionOf(r) = DOMAIN r.jars
  BY DEF PartitionOf
<1>3. \A p \in DOMAIN PartitionOf(r) : PartitionOf(r)[p] \in Nat
  BY PartitionType DEF LockInv
<1>4. CanCleanUpJars(unlocked, PartitionOf(r))
  OBVIOUS
<1>5. AccountBy(cleaned, now) /\ Steps(unlocked, cleaned, {}, {})
  <2> HIDE DEF unlocked, r
  <2> QED BY <1>1, <1>2, <1>3, <1>4, CleanUpJarsType, CleanUpSteps
<1>6. Steps(accounts[r.account], cleaned, {}, DOMAIN r.jars)
  <2> HIDE DEF unlocked, cleaned, r
  <2> QED BY <1>1, <1>5, StepsThen
<1>7. \A p \in DOMAIN r.jars : p \in ProductIds => ~LockedIn(cleaned, p)
  <2> HIDE DEF unlocked, cleaned, r
  <2> QED BY <1>1, <1>5 DEF Steps
<1> QED BY <1>5, <1>6, <1>7

\* A withdrawal that was paid.
LEMMA AfterWithdrawOwned ==
    ASSUME LockInv, TimeGoesOn, NEW s \in Slots, AfterWithdraw(s)
    PROVE  Owned' /\ Fitting'
<1> DEFINE r == receipts[s]
           ps == DOMAIN r.jars
           before == accounts[r.account]
           unlocked == UnlockJars(before, ps)
           cleaned == CleanUpJars(unlocked, PartitionOf(r))
           after == CloseJars(cleaned, ps)
<1>1. /\ s \in DOMAIN receipts /\ r.kind = "withdraw" /\ r.status = "succeeded"
      /\ HasJars(r) /\ CanCleanUpJars(before, PartitionOf(r)) /\ Consume(s)
      /\ SetAccount(r.account, after)
  BY DEF AfterWithdraw, InFlight, CanFinishWithdrawal
<1>2. /\ AccountBy(before, now) /\ now \in Nat
      /\ LocksSet(before, unlocked, ps, FALSE)
  BY <1>1, UnlockedAccountType DEF LockInv, TypeInv
<1>3. CanCleanUpJars(unlocked, PartitionOf(r))
  <2> HIDE DEF unlocked
  <2> QED BY <1>1, <1>2 DEF CanCleanUpJars, CanCleanUp, LocksSet
<1>4. /\ AccountBy(cleaned, now) /\ Steps(before, cleaned, {}, ps)
      /\ \A p \in ps : p \in ProductIds => ~LockedIn(cleaned, p)
  BY <1>1, <1>3, DrainUnlocked
<1>5. \A p \in ps : ~LockedIn(cleaned, p)
  <2> HIDE DEF cleaned
  <2> QED BY <1>4 DEF LockedIn, AccountBy, IsMap
<1>6. AccountBy(after, now) /\ Steps(cleaned, after, {}, {})
  <2> HIDE DEF cleaned, ps
  <2> QED BY <1>2, <1>4, <1>5, CloseJarsType, CloseSteps
<1>7. Steps(before, after, {}, ps)
  <2> HIDE DEF before, cleaned, after, ps
  <2> QED BY <1>2, <1>4, <1>6, StepsThen
<1> HIDE DEF after
<1> QED BY <1>1, <1>6, <1>7, FreeReceipt

\* A withdrawal or a restake whose payout failed only unlocks.
LEMMA AfterFailureOwned ==
    ASSUME LockInv, TimeGoesOn, NEW s \in Slots, AfterFailedWithdraw(s) \/ AfterFailedTransferRemainder(s)
    PROVE  Owned' /\ Fitting'
<1> DEFINE r == receipts[s]
           after == UnlockJars(accounts[r.account], DOMAIN r.jars)
<1>1. /\ s \in DOMAIN receipts /\ HasJars(r) /\ Consume(s)
      /\ SetAccount(r.account, after)
  BY DEF AfterFailedWithdraw, AfterFailedTransferRemainder, InFlight, CanFinishWithdrawal
<1>2. AccountBy(after, now) /\ Steps(accounts[r.account], after, {}, DOMAIN r.jars)
  BY <1>1, UnlockReceipt
<1> HIDE DEF after
<1> QED BY <1>1, <1>2, FreeReceipt

\* A claim that was paid.
LEMMA AfterClaimOwned ==
    ASSUME LockInv, TimeGoesOn, NEW s \in Slots, AfterClaim(s)
    PROVE  Owned' /\ Fitting'
<1> DEFINE r == receipts[s]
           ps == DOMAIN r.jars
           before == accounts[r.account]
           unlocked == UnlockJars(before, ps)
           after == CloseJars(unlocked, ps)
<1>1. s \in DOMAIN receipts /\ HasJars(r) /\ Consume(s) /\ SetAccount(r.account, after)
  BY DEF AfterClaim, InFlight
<1>2. /\ now \in Nat /\ AccountBy(before, now) /\ AccountBy(unlocked, now)
      /\ Steps(before, unlocked, {}, ps)
      /\ \A p \in ps : ~LockedIn(unlocked, p)
  BY <1>1, UnlockReceipt
<1>3. AccountBy(after, now) /\ Steps(unlocked, after, {}, {})
  <2> HIDE DEF unlocked, ps
  <2> QED BY <1>2, CloseJarsType, CloseSteps
<1>4. Steps(before, after, {}, ps)
  <2> HIDE DEF before, unlocked, after, ps
  <2> QED BY <1>2, <1>3, StepsThen
<1> HIDE DEF after
<1> QED BY <1>1, <1>3, <1>4, FreeReceipt

\* A claim that failed is rolled back.
LEMMA AfterFailedClaimOwned ==
    ASSUME LockInv, TimeGoesOn, NEW s \in Slots, AfterFailedClaim(s)
    PROVE  Owned' /\ Fitting'
<1> DEFINE r == receipts[s]
           after == RestoreAccount(accounts[r.account], r)
<1>1. /\ s \in DOMAIN receipts /\ r.kind = "claim" /\ HasJars(r) /\ Consume(s)
      /\ SetAccount(r.account, after)
  BY DEF AfterFailedClaim, InFlight
<1>2. /\ AccountBy(after, now) /\ LocksSet(accounts[r.account], after, DOMAIN r.jars, FALSE)
  BY <1>1, RestoredAccountType DEF LockInv
<1>3. AccountBy(accounts[r.account], now) /\ now \in Nat
  BY <1>1, UnlockReceipt
<1> HIDE DEF after
<1>4. Steps(accounts[r.account], after, {}, DOMAIN r.jars)
  BY <1>2, <1>3, UnlockSteps
<1> QED BY <1>1, <1>2, <1>4, FreeReceipt

\* A restake whose payout was made moves the rest.
LEMMA AfterTransferRemainderOwned ==
    ASSUME LockInv, TimeGoesOn, NEW s \in Slots, AfterTransferRemainder(s)
    PROVE  Owned' /\ Fitting'
<1> DEFINE r == receipts[s]
           ps == DOMAIN r.jars
           before == accounts[r.account]
           unlocked == UnlockJars(before, ps)
           cleaned == CleanUpJars(unlocked, PartitionOf(r))
           after == DepositTo(cleaned, r.target, r.deposit, now)
<1>1. /\ s \in DOMAIN receipts /\ r.kind = "restake" /\ HasJars(r) /\ Consume(s)
      /\ CanCleanUpJars(unlocked, PartitionOf(r))
      /\ SetAccount(r.account, after)
  BY DEF AfterTransferRemainder, InFlight, MoveDeposits
<1>2. AccountBy(before, now) /\ now \in Nat
  BY <1>1, UnlockReceipt
<1>3. AccountBy(cleaned, now) /\ Steps(before, cleaned, {}, ps)
  BY <1>1, DrainUnlocked
<1>4. r.target \in ProductIds /\ r.deposit \in Nat
  <2>1. IsRestake(r)
    BY <1>1, ReceiptKinds DEF LockInv
  <2> QED BY <2>1 DEF IsRestake
<1>5. AccountBy(after, now) /\ Steps(cleaned, after, {}, {})
  <2> HIDE DEF cleaned
  <2> QED BY <1>2, <1>3, <1>4, DepositToType, DepositSteps
<1>6. Steps(before, after, {}, ps)
  <2> HIDE DEF before, cleaned, after, ps
  <2> QED BY <1>2, <1>3, <1>5, StepsThen
<1> HIDE DEF after
<1> QED BY <1>1, <1>5, <1>6, FreeReceipt

\* No callback panics while it holds the lock of a jar: its jars are there,
\* with the deposits it is to drain.
LEMMA HolderRuns ==
    ASSUME LockInv, NEW s \in Slots, CallbackPanics(s)
    PROVE  DOMAIN receipts[s].jars = {}
<1> DEFINE r == receipts[s]
           a == r.account
<1> SUFFICES ASSUME DOMAIN r.jars # {} PROVE FALSE
  OBVIOUS
<1>1. /\ s \in DOMAIN receipts
      /\ \/ r.kind \in {"withdraw", "restake"} /\ ~CanFinishWithdrawal(r)
         \/ r.kind = "claim" /\ ~HasJars(r)
  BY DEF CallbackPanics
<1>2. a \in AccountIds /\ DOMAIN r.jars \subseteq ProductIds
  BY <1>1, ReceiptKinds DEF LockInv, IsWithdrawal, IsClaim, IsRestake, HasFootprint, IsMap
<1>3. \A p \in DOMAIN r.jars : Covers(s, a, p) /\ IsLocked(a, p)
  BY <1>1, <1>2 DEF Covers, LockInv, Owned
<1>4. HasJars(r)
  BY <1>3 DEF HasJars, IsLocked
<1>5. ASSUME r.kind \in {"withdraw", "restake"}
      PROVE  CanCleanUpJars(accounts[a], PartitionOf(r))
  <2> SUFFICES ASSUME NEW p \in DOMAIN r.jars
               PROVE  p \in DOMAIN accounts[a].jars
                      /\ PartitionOf(r)[p] <= Len(accounts[a].jars[p].deposits)
    BY DEF CanCleanUpJars, CanCleanUp, PartitionOf
  <2>1. r.jars[p].partition_index \in 0 .. Len(Held(a, p))
    BY <1>1, <1>5 DEF LockInv, Fitting, Fits, IsPayout, Held, JarsOf
  <2>2. PartitionOf(r)[p] = r.jars[p].partition_index
    BY DEF PartitionOf
  <2> QED BY <1>3, <2>1, <2>2 DEF IsLocked, JarsOf, Held
<1> QED BY <1>1, <1>4, <1>5 DEF CanFinishWithdrawal

\* So one that panics holds none.
LEMMA CallbackPanicsOwned ==
    ASSUME LockInv, TimeGoesOn, NEW s \in Slots, CallbackPanics(s)
    PROVE  Owned' /\ Fitting'
<1>1. /\ s \in DOMAIN receipts /\ Consume(s) /\ UNCHANGED accounts
      /\ DOMAIN receipts[s].jars = {}
  BY HolderRuns DEF CallbackPanics
<1> QED BY <1>1, UnchangedMoves, ConsumeNoJarsOwned DEF LockInv

-----------------------------------------------------------------------------
(* The methods that take locks.                                             *)

\* What a method counts in the jars of an account fits them: the deposits up
\* to the partition index are the liquid ones.
LEMMA CountedFits ==
    ASSUME NEW t \in Nat, NEW account, AccountBy(account, t), NEW p \in DOMAIN account.jars
    PROVE  LET n == PartitionIndex(account.jars[p], TermsOf(p), t)
               deposits == account.jars[p].deposits
           IN  /\ n \in 0 .. Len(deposits)
               /\ \A i \in 1 .. n : IsLiquid(TermsOf(p), deposits[i], t)
               /\ LiquidBalance(account.jars[p], TermsOf(p), t) = Principal(deposits, n)
<1>1. account.jars[p] \in JarBy(t) /\ p \in ProductIds
  BY DEF AccountBy, JarsBy, IsMap
<1>2. PartitionIndex(account.jars[p], TermsOf(p), t) \in 0 .. Len(account.jars[p].deposits)
  BY <1>1, PartitionIndexType
<1> QED BY <1>1, <1>2, LiquidFirst DEF LiquidBalance

\* So does a withdrawal.
LEMMA WithdrawalFits ==
    ASSUME NEW account, AccountBy(account, now), now \in Nat,
           NEW r, r.kind = "withdraw", DOMAIN r.jars \subseteq DOMAIN account.jars,
           CanPay(r.jars), r.amount = TotalNetAmount(r.jars),
           \A p \in DOMAIN r.jars : r.jars[p] = WithdrawalRequest(account, p)
    PROVE  Fits(r, account, now)
<1>1. ASSUME NEW p \in DOMAIN r.jars
      PROVE  LET n == r.jars[p].partition_index
                 deposits == account.jars[p].deposits
             IN  /\ n \in 0 .. Len(deposits)
                 /\ \A i \in 1 .. n : IsLiquid(TermsOf(p), deposits[i], now)
                 /\ r.jars[p].amount = Principal(deposits, n)
  <2>1. /\ r.jars[p].partition_index = PartitionIndex(account.jars[p], TermsOf(p), now)
        /\ r.jars[p].amount = LiquidBalance(account.jars[p], TermsOf(p), now)
    <3>1. r.jars[p] = WithdrawalRequest(account, p)
      OBVIOUS
    <3>2. /\ WithdrawalRequest(account, p).partition_index
                = PartitionIndex(account.jars[p], TermsOf(p), now)
          /\ WithdrawalRequest(account, p).amount
                = LiquidBalance(account.jars[p], TermsOf(p), now)
      BY DEF WithdrawalRequest
    <3> QED BY <3>1, <3>2
  <2>2. LET n == PartitionIndex(account.jars[p], TermsOf(p), now)
            deposits == account.jars[p].deposits
        IN  /\ n \in 0 .. Len(deposits)
            /\ \A i \in 1 .. n : IsLiquid(TermsOf(p), deposits[i], now)
            /\ LiquidBalance(account.jars[p], TermsOf(p), now) = Principal(deposits, n)
    BY CountedFits
  <2> QED BY <2>1, <2>2
<1> QED BY <1>1 DEF Fits

\* And a restake that pays something out.
LEMMA RestakeFits ==
    ASSUME NEW account, AccountBy(account, now), now \in Nat,
           NEW r, r.kind = "restake", DOMAIN r.jars \subseteq DOMAIN account.jars,
           r.amount + r.fee + r.deposit = MatureBalance(account, DOMAIN r.jars),
           \A p \in DOMAIN r.jars : r.jars[p].partition_index
                = PartitionIndex(account.jars[p], TermsOf(p), now)
    PROVE  Fits(r, account, now)
<1> DEFINE taken(p) == Principal(account.jars[p].deposits, r.jars[p].partition_index)
<1>1. ASSUME NEW p \in DOMAIN r.jars
      PROVE  LET n == r.jars[p].partition_index
                 deposits == account.jars[p].deposits
             IN  /\ n \in 0 .. Len(deposits)
                 /\ \A i \in 1 .. n : IsLiquid(TermsOf(p), deposits[i], now)
                 /\ LiquidBalance(account.jars[p], TermsOf(p), now) = taken(p)
  BY CountedFits
<1>2. MatureBalance(account, DOMAIN r.jars) = Total([p \in DOMAIN r.jars |-> taken(p)])
  <2> HIDE DEF taken
  <2> QED BY <1>1 DEF MatureBalance
<1> QED BY <1>1, <1>2 DEF Fits

\* A method that brings the account up to date, locks unlocked jars of it and
\* sends the transfer about them.
LEMMA TakeReceipt ==
    ASSUME LockInv, TimeGoesOn, NEW s \in FreeSlots, NEW a \in AccountIds, a \in DOMAIN accounts,
           NEW middle, AccountBy(middle, now), SameJars(accounts[a], middle),
           NEW after, AccountBy(after, now), NEW ps \in SUBSET Unlocked(a),
           LocksSet(middle, after, ps, TRUE), SetAccount(a, after),
           NEW r, Send(s, r), r.account = a, DOMAIN r.jars = ps,
           now' = now, IsPayout(r) => Fits(r, accounts[a], now)
    PROVE  Owned' /\ Fitting'
<1>1. /\ AccountBy(accounts[a], now) /\ now \in Nat /\ AccountOrNew(a) = accounts[a]
      /\ ps \subseteq DOMAIN accounts[a].jars /\ ps \subseteq ProductIds
  <2>1. AccountBy(accounts[a], now) /\ now \in Nat
    BY AccountOrNewType DEF LockInv, TypeInv
  <2> QED BY <2>1 DEF AccountOrNew, Unlocked, JarsOf, AccountBy, IsMap
<1>2. Steps(accounts[a], after, ps, {})
  <2>1. Steps(accounts[a], middle, {}, {})
    BY <1>1, SameSteps
  <2>2. Steps(middle, after, ps, {})
    <3>1. ps \subseteq DOMAIN middle.jars
      BY <1>1 DEF SameJars
    <3> QED BY <1>1, <3>1, LockSteps
  <2> QED BY <1>1, <2>1, <2>2, StepsThen
<1>3. Moves(r.account, DOMAIN r.jars, {})
  BY <1>1, <1>2, SetAccountMoves DEF LockInv
<1>4. \A p \in DOMAIN r.jars : ~IsLocked(r.account, p)
  BY DEF Unlocked, IsLocked
<1>5. ASSUME IsPayout(r)
      PROVE  Fits(r, accounts'[r.account], now')
  <2>1. accounts'[a] = after
    BY SetAccountType DEF LockInv
  <2>2. ASSUME NEW p \in DOMAIN r.jars
        PROVE  /\ p \in ProductIds /\ accounts[a].jars[p] \in JarBy(now)
               /\ Grown(accounts[a].jars[p].deposits, after.jars[p].deposits)
    <3>1. accounts[a].jars[p] \in JarBy(now) /\ p \in ProductIds
      BY <1>1 DEF AccountBy, JarsBy
    <3>2. after.jars[p].deposits = accounts[a].jars[p].deposits
      BY <1>1 DEF SameJars, LocksSet
    <3>3. Len(accounts[a].jars[p].deposits) \in Nat
      BY <1>1, LenNat
    <3> QED BY <3>1, <3>2, <3>3, GrownSame
  <2>3. SameRequest(r, r)
    BY DEF SameRequest
  <2>4. Fits(r, after, now)
    BY <1>1, <1>5, <2>2, <2>3, FitsKept
  <2> QED BY <2>1, <2>4
<1> QED BY <1>3, <1>4, <1>5, TakenOwned DEF LockInv

\* A method that sends nothing and locks nothing.
LEMMA KeepAccount ==
    ASSUME LockInv, TimeGoesOn, NEW a \in AccountIds, NEW after, AccountBy(after, now),
           SetAccount(a, after), Steps(AccountOrNew(a), after, {}, {}), UNCHANGED receipts
    PROVE  Owned' /\ Fitting'
<1>1. Moves(a, {}, {})
  BY SetAccountMoves DEF LockInv
<1>2. HoldsKept
  BY DEF HoldsKept, SameRequest
<1> QED BY <1>1, <1>2, KeptOwned DEF LockInv

\* withdraw.
LEMMA WithdrawOwned ==
    ASSUME LockInv, TimeGoesOn, NEW s \in FreeSlots, NEW a \in AccountIds, NEW p \in ProductIds,
           Withdraw(s, a, p)
    PROVE  Owned' /\ Fitting'
<1> DEFINE requests == [q \in {p} |-> WithdrawalRequest(accounts[a], q)]
           ps == {p}
           updated == UpdateJarCaches(accounts[a], ps, now)
           after == LockJars(updated, ps)
           r == [kind |-> "withdraw", status |-> "sent", account |-> a,
                 amount |-> TotalNetAmount(requests), jars |-> requests]
<1>1. /\ a \in DOMAIN accounts /\ ps \in SUBSET Unlocked(a)
      /\ SetAccount(a, after) /\ Send(s, r) /\ now' = now /\ CanPay(requests)
  BY DEF Withdraw, SendWithdrawal
<1>2. AccountBy(accounts[a], now) /\ now \in Nat
  BY AccountOrNewType, <1>1 DEF LockInv, TypeInv
<1>3. AccountBy(updated, now) /\ SameJars(accounts[a], updated)
  BY <1>2, UpdateJarCachesType
<1>4. AccountBy(after, now) /\ LocksSet(updated, after, ps, TRUE)
  <2> HIDE DEF updated
  <2> QED BY <1>2, <1>3, LockJarsType
<1>5. /\ r.account = a /\ r.kind = "withdraw" /\ DOMAIN r.jars = ps
      /\ r.jars = requests /\ r.amount = TotalNetAmount(r.jars)
      /\ \A q \in DOMAIN r.jars : r.jars[q] = WithdrawalRequest(accounts[a], q)
  OBVIOUS
<1> HIDE DEF r, updated, after, requests, ps
<1>6. Fits(r, accounts[a], now)
  BY <1>1, <1>2, <1>5, WithdrawalFits DEF Unlocked, JarsOf
<1> QED BY <1>1, <1>3, <1>4, <1>5, <1>6, TakeReceipt

\* withdraw_all.
LEMMA WithdrawAllOwned ==
    ASSUME LockInv, TimeGoesOn, NEW s \in FreeSlots, NEW a \in AccountIds, NEW ps \in SUBSET ProductIds,
           WithdrawAll(s, a, ps)
    PROVE  Owned' /\ Fitting'
<1> DEFINE requests == BulkRequests(a, ps)
           updated == UpdateAccountCache(accounts[a], now)
           after == LockJars(updated, DOMAIN requests)
           r == [kind |-> "withdraw", status |-> "sent", account |-> a,
                 amount |-> TotalNetAmount(requests), jars |-> requests]
<1>1. /\ a \in DOMAIN accounts /\ DOMAIN requests \in SUBSET Unlocked(a)
      /\ SetAccount(a, after) /\ now' = now /\ CanPay(requests)
      /\ (requests = NoJars /\ UNCHANGED receipts) \/ Send(s, r)
  BY DEF WithdrawAll, CanWithdrawAll, SendWithdrawal, BulkRequests
<1>2. AccountBy(accounts[a], now) /\ now \in Nat /\ AccountOrNew(a) = accounts[a]
  BY AccountOrNewType, <1>1 DEF LockInv, TypeInv, AccountOrNew
<1>3. AccountBy(updated, now) /\ SameJars(accounts[a], updated)
  BY <1>2, UpdateAccountCacheType
<1>4. AccountBy(after, now) /\ LocksSet(updated, after, DOMAIN requests, TRUE)
  <2> HIDE DEF updated, requests
  <2> QED BY <1>2, <1>3, LockJarsType
<1>5. CASE requests = NoJars /\ UNCHANGED receipts
  <2>1. DOMAIN requests = {}
    BY <1>5 DEF NoJars, EmptyMap
  <2>2. SameJars(accounts[a], after)
    <3> HIDE DEF updated, after
    <3> QED BY <1>3, <1>4, <2>1 DEF SameJars, LocksSet
  <2> HIDE DEF after
  <2> QED BY <1>1, <1>2, <1>4, <1>5, <2>2, SameSteps, KeepAccount
<1>6. CASE Send(s, r)
  <2>1. /\ r.account = a /\ r.kind = "withdraw" /\ DOMAIN r.jars = DOMAIN requests
        /\ r.jars = requests /\ r.amount = TotalNetAmount(r.jars)
        /\ \A q \in DOMAIN r.jars : r.jars[q] = WithdrawalRequest(accounts[a], q)
    BY DEF BulkRequests
  <2> HIDE DEF r, updated, after, requests
  <2>2. Fits(r, accounts[a], now)
    BY <1>1, <1>2, <2>1, WithdrawalFits DEF Unlocked, JarsOf
  <2> QED BY <1>1, <1>3, <1>4, <1>6, <2>1, <2>2, TakeReceipt
<1> QED BY <1>1, <1>5, <1>6

\* claim_total.
LEMMA ClaimTotalOwned ==
    ASSUME LockInv, TimeGoesOn, NEW s \in FreeSlots, NEW a \in AccountIds, ClaimTotal(s, a)
    PROVE  Owned' /\ Fitting'
<1> DEFINE updated == SettleInterest(accounts[a], now)
           claimed == Claimable(a)
           after == ClaimJars(updated, claimed)
           r == [kind |-> "claim", status |-> "sent", account |-> a,
                 amount |-> Total([p \in claimed |-> InterestOf(updated, p, now).interest]),
                 jars |-> [p \in claimed |-> ToRollback(updated.jars[p])],
                 timezone |-> updated.timezone, score |-> updated.score]
<1>1. /\ a \in DOMAIN accounts /\ claimed \in SUBSET Unlocked(a)
      /\ SetAccount(a, after) /\ now' = now
      /\ (claimed = {} /\ UNCHANGED receipts) \/ Send(s, r)
  BY DEF ClaimTotal, Claimable
<1>2. AccountBy(accounts[a], now) /\ now \in Nat /\ AccountOrNew(a) = accounts[a]
  BY AccountOrNewType, <1>1 DEF LockInv, TypeInv, AccountOrNew
<1>3. AccountBy(updated, now) /\ SameJars(accounts[a], updated)
  BY <1>2, SettleInterestType
<1>4. AccountBy(after, now) /\ LocksSet(updated, after, claimed, TRUE)
  <2> HIDE DEF updated, claimed
  <2> QED BY <1>3, ClaimJarsType DEF LockInv
<1>5. CASE claimed = {} /\ UNCHANGED receipts
  <2>1. SameJars(accounts[a], after)
    <3> HIDE DEF updated, after, claimed
    <3> QED BY <1>3, <1>4, <1>5 DEF SameJars, LocksSet
  <2> HIDE DEF after
  <2> QED BY <1>1, <1>2, <1>4, <1>5, <2>1, SameSteps, KeepAccount
<1>6. CASE Send(s, r)
  <2>1. r.account = a /\ DOMAIN r.jars = claimed /\ ~IsPayout(r)
    BY DEF IsPayout
  <2> HIDE DEF r, updated, after, claimed
  <2> QED BY <1>1, <1>3, <1>4, <1>6, <2>1, TakeReceipt
<1> QED BY <1>1, <1>5, <1>6

\* restake_internal, whether something is paid out or not.
LEMMA RestakeFromOwned ==
    ASSUME LockInv, TimeGoesOn, NEW s \in FreeSlots, NEW a \in AccountIds, a \in DOMAIN accounts,
           NEW ps \in SUBSET Unlocked(a), NEW fee,
           NEW target \in ProductIds, NEW amount \in Amounts, NEW timezone \in Offered,
           MatureBalance(accounts[a], ps) - amount >= 0 => fee \in Nat,
           RestakeFrom(s, a, ps, fee, target, amount, timezone)
    PROVE  Owned' /\ Fitting'
<1> DEFINE updated == UpdateJarCaches(accounts[a], ps, now)
           localised == IF IsScoreBased(TermsOf(target))
                        THEN TrySetTimezone(updated, timezone) ELSE updated
           partition == [p \in ps |-> PartitionIndex(updated.jars[p], TermsOf(p), now)]
           withdrawn == MatureBalance(updated, ps) - amount
           jars == [p \in ps |-> [partition_index |-> partition[p]]]
           r == [kind |-> "restake", status |-> "sent", account |-> a,
                 amount |-> withdrawn - fee, fee |-> fee, jars |-> jars,
                 target |-> target, deposit |-> amount]
<1>1. /\ AccountBy(accounts[a], now) /\ now \in Nat /\ AccountOrNew(a) = accounts[a]
      /\ amount \in Nat /\ ps \in SUBSET DOMAIN accounts[a].jars
  BY AccountOrNewType, SweatJarAssumption
     DEF LockInv, TypeInv, AccountOrNew, Unlocked, JarsOf
<1>2. AccountBy(updated, now) /\ SameJars(accounts[a], updated)
  BY <1>1, UpdateJarCachesType
<1>3. AccountBy(localised, now) /\ localised.jars = updated.jars
  <2> HIDE DEF updated
  <2>1. CASE IsScoreBased(TermsOf(target))
    BY <1>1, <1>2, <2>1, TrySetTimezoneType DEF Offered
  <2>2. CASE ~IsScoreBased(TermsOf(target))
    BY <1>2, <2>2
  <2> QED BY <2>1, <2>2
<1>4. SameJars(accounts[a], localised)
  <2> HIDE DEF updated, localised
  <2> QED BY <1>2, <1>3 DEF SameJars
<1>5. \A p \in ps : partition[p] = PartitionIndex(accounts[a].jars[p], TermsOf(p), now)
  <2> HIDE DEF updated
  <2> QED BY <1>1, <1>2, MatureBalanceSame
<1>6. CASE SetAccount(a, MoveDeposits(localised, partition, target, amount)) /\ UNCHANGED receipts
  <2> DEFINE cleaned == CleanUpJars(localised, partition)
             after == DepositTo(cleaned, target, amount, now)
  <2>1. /\ CanCleanUpJars(localised, partition)
        /\ \A p \in DOMAIN partition : partition[p] \in Nat /\ ~LockedIn(localised, p)
    <3> SUFFICES ASSUME NEW p \in ps
                 PROVE  /\ p \in DOMAIN localised.jars /\ partition[p] \in Nat
                        /\ partition[p] <= Len(localised.jars[p].deposits)
                        /\ ~LockedIn(localised, p)
      BY DEF CanCleanUpJars, CanCleanUp
    <3> HIDE DEF updated, localised
    <3>1. /\ p \in DOMAIN localised.jars
          /\ localised.jars[p].deposits = accounts[a].jars[p].deposits
          /\ localised.jars[p].is_locked = accounts[a].jars[p].is_locked
      BY <1>1, <1>4 DEF SameJars
    <3>2. accounts[a].jars[p] \in JarBy(now) /\ p \in ProductIds
      BY <1>1 DEF AccountBy, JarsBy, IsMap
    <3>3. accounts[a].jars[p].deposits \in Seq(DepositBy(now))
      BY <3>2 DEF JarBy, DepositsBy
    <3>4. /\ PartitionIndex(accounts[a].jars[p], TermsOf(p), now)
                \in 0 .. Len(accounts[a].jars[p].deposits)
          /\ Len(accounts[a].jars[p].deposits) \in Nat
      BY <1>1, <3>2, <3>3, PartitionIndexType
    <3>5. ~LockedIn(localised, p)
      BY <3>1 DEF LockedIn, Unlocked, JarsOf
    <3>6. partition[p] = PartitionIndex(accounts[a].jars[p], TermsOf(p), now)
      BY <1>5
    <3> HIDE DEF partition
    <3> QED BY <3>1, <3>4, <3>5, <3>6
  <2>2. AccountBy(cleaned, now) /\ Steps(localised, cleaned, {}, {})
    <3> HIDE DEF updated, localised, partition
    <3> QED BY <1>1, <1>3, <2>1, CleanUpJarsType, CleanUpSteps
  <2>3. AccountBy(after, now) /\ Steps(cleaned, after, {}, {})
    <3> HIDE DEF cleaned
    <3> QED BY <1>1, <2>2, DepositToType, DepositSteps
  <2>4. Steps(accounts[a], after, {}, {})
    <3> HIDE DEF updated, localised, cleaned, after
    <3>1. Steps(accounts[a], localised, {}, {})
      BY <1>1, <1>4, SameSteps
    <3>2. Steps(accounts[a], cleaned, {}, {})
      BY <1>1, <1>3, <2>2, <3>1, StepsThen
    <3> QED BY <1>1, <2>2, <2>3, <3>2, StepsThen
  <2>5. SetAccount(a, after)
    BY <1>6 DEF MoveDeposits
  <2> HIDE DEF after
  <2> QED BY <1>1, <1>6, <2>3, <2>4, <2>5, KeepAccount
<1>7. CASE SetAccount(a, LockJars(localised, ps)) /\ Send(s, r)
  <2> DEFINE after == LockJars(localised, ps)
  <2>1. AccountBy(after, now) /\ LocksSet(localised, after, ps, TRUE)
    <3> HIDE DEF localised
    <3> QED BY <1>1, <1>3, LockJarsType
  <2>2. /\ r.account = a /\ r.kind = "restake" /\ DOMAIN r.jars = ps
        /\ \A p \in ps : r.jars[p].partition_index
                            = PartitionIndex(accounts[a].jars[p], TermsOf(p), now)
    <3>1. \A p \in ps : r.jars[p].partition_index = partition[p]
      <4> HIDE DEF partition
      <4> QED OBVIOUS
    <3> HIDE DEF partition
    <3> QED BY <1>5, <3>1
  <2>5. r.amount + r.fee + r.deposit = MatureBalance(accounts[a], ps)
    <3> DEFINE mature == MatureBalance(accounts[a], ps)
    <3>1. mature \in Nat /\ MatureBalance(updated, ps) = mature
      <4> HIDE DEF updated
      <4> QED BY <1>1, <1>2, MatureBalanceNat, MatureBalanceSame DEF LockInv
    <3>2. r.amount = mature - amount - fee /\ r.fee = fee /\ r.deposit = amount
      <4> HIDE DEF mature, updated, jars
      <4> QED BY <3>1
    <3>3. fee \in Int
      <4>1. mature - amount >= 0
        <5> HIDE DEF mature, updated
        <5> QED BY <1>7, <3>1 DEF RestakeFrom, updated
      <4> QED BY <4>1
    <3>4. r.amount + r.fee + r.deposit = mature
      <4> HIDE DEF r, mature
      <4> QED BY <1>1, <3>1, <3>2, <3>3
    <3> QED BY <3>4
  <2>6. Fits(r, accounts[a], now)
    <3> HIDE DEF r, localised, after, updated, partition
    <3> QED BY <1>1, <2>2, <2>5, RestakeFits
  <2>3. SetAccount(a, after)
    BY <1>7
  <2>4. Send(s, r)
    BY <1>7
  <2>7. now' = now
    BY DEF RestakeFrom
  <2> HIDE DEF r, localised, after
  <2> QED BY <1>3, <1>4, <2>1, <2>2, <2>3, <2>4, <2>6, <2>7, TakeReceipt
<1> QED BY <1>6, <1>7 DEF RestakeFrom

\* restake and restake_all take unlocked jars only.
LEMMA RestakeOwned ==
    ASSUME LockInv, TimeGoesOn, NEW s \in FreeSlots, NEW a \in AccountIds,
           NEW target \in ProductIds, NEW amount \in Amounts, NEW timezone \in Offered,
           \/ \E from \in ProductIds : Restake(s, a, from, target, amount, timezone)
           \/ RestakeAll(s, a, target, amount, timezone)
    PROVE  Owned' /\ Fitting'
<1>1. a \in DOMAIN accounts /\ TypeInv
  BY RestakesFrom DEF LockInv, FreeSlots
<1>2. PICK ps \in SUBSET Unlocked(a) : \E fee :
        /\ MatureBalance(accounts[a], ps) - amount >= 0 => fee \in Nat
        /\ RestakeFrom(s, a, ps, fee, target, amount, timezone)
  BY <1>1, RestakesFrom DEF FreeSlots
<1> QED BY <1>1, <1>2, RestakeFromOwned

-----------------------------------------------------------------------------
(* The oracle, the manager and the clock.                                   *)

\* What the oracle does to an account leaves deposits and locks alone.
LEMMA OracleWrites ==
    ASSUME TypeInv, NEW a \in AccountIds,
           \/ \E f \in Features, e \in BOOLEAN : SetFeatureEnabled(a, f, e)
           \/ \E tz \in Timezones : SetTimezone(a, tz)
           \/ \E i \in Increments : RecordScore(a, i)
           \/ \E d \in 0 .. 2, v \in Boosters : ApplyBooster(a, d, v)
    PROVE  /\ UNCHANGED <<now, fee_amount, receipts, tokens>>
           /\ \E after : /\ AccountBy(after, now) /\ SetAccount(a, after)
                         /\ SameJars(AccountOrNew(a), after)
<1> DEFINE Written == \E after : /\ AccountBy(after, now) /\ SetAccount(a, after)
                                 /\ SameJars(AccountOrNew(a), after)
<1>1. AccountBy(AccountOrNew(a), now) /\ now \in Nat
      /\ (a \in DOMAIN accounts => AccountOrNew(a) = accounts[a])
  BY AccountOrNewType DEF TypeInv, AccountOrNew
<1>2. ASSUME NEW middle, AccountBy(middle, now),
             SameJars(AccountOrNew(a), middle) \/ middle.jars = AccountOrNew(a).jars,
             NEW after, AccountBy(after, now), after.jars = middle.jars, SetAccount(a, after)
      PROVE  Written
  <2>1. SameJars(AccountOrNew(a), after)
    BY <1>2 DEF SameJars
  <2> QED BY <1>2, <2>1
<1>3. ASSUME NEW f \in Features, NEW e \in BOOLEAN, SetFeatureEnabled(a, f, e)
      PROVE  Written
  <2> DEFINE middle == IF a \in DOMAIN accounts
                       THEN UpdateAccountCache(accounts[a], now) ELSE EmptyAccount(now)
             features == IF e THEN middle.features \cup {f} ELSE middle.features \ {f}
             after == [middle EXCEPT !.features = features]
  <2>1. /\ AccountBy(middle, now)
        /\ SameJars(AccountOrNew(a), middle) \/ middle.jars = AccountOrNew(a).jars
    <3>1. CASE a \in DOMAIN accounts
      BY <1>1, <3>1, UpdateAccountCacheType
    <3>2. CASE a \notin DOMAIN accounts
      BY <1>1, <3>2 DEF AccountOrNew
    <3> QED BY <3>1, <3>2
  <2>2. features \in SUBSET Features
    <3> HIDE DEF middle
    <3> QED BY <1>3, <2>1 DEF AccountBy
  <2>3. SetAccount(a, after)
    BY <1>3 DEF SetFeatureEnabled
  <2>4. AccountBy(after, now) /\ after.jars = middle.jars
    <3> HIDE DEF middle, features
    <3> QED BY <1>1, <2>1, <2>2, WithFeatures
  <2> HIDE DEF middle, after
  <2> QED BY <1>2, <2>1, <2>3, <2>4
<1>4. ASSUME NEW tz \in Timezones, SetTimezone(a, tz)
      PROVE  Written
  <2> DEFINE after == TrySetTimezone(AccountOrNew(a), tz)
  <2>1. AccountBy(after, now) /\ after.jars = AccountOrNew(a).jars
    BY <1>1, TrySetTimezoneType
  <2>2. SetAccount(a, after)
    BY <1>4 DEF SetTimezone
  <2> HIDE DEF after
  <2> QED BY <1>1, <1>2, <2>1, <2>2
<1>5. ASSUME NEW score \in AccountScore, HasTimezone(a),
             SetAccount(a, [SettleInterest(accounts[a], now) EXCEPT !.score = score])
      PROVE  Written
  <2> DEFINE middle == SettleInterest(accounts[a], now)
             after == [middle EXCEPT !.score = score]
  <2>1. AccountBy(middle, now) /\ SameJars(AccountOrNew(a), middle)
    BY <1>1, <1>5, SettleInterestType DEF HasTimezone
  <2>2. AccountBy(after, now) /\ after.jars = middle.jars
    <3> HIDE DEF middle
    <3> QED BY <1>1, <2>1, WithScore
  <2>3. SetAccount(a, after)
    BY <1>5
  <2> HIDE DEF middle, after
  <2> QED BY <1>2, <2>1, <2>2, <2>3
<1>6. AccountBy(SettleInterest(accounts[a], now), now) \/ ~HasTimezone(a)
  BY <1>1, SettleInterestType DEF HasTimezone
<1>7. ASSUME NEW i \in Increments, RecordScore(a, i)
      PROVE  Written
  <2> DEFINE middle == SettleInterest(accounts[a], now)
  <2>1. HasTimezone(a)
        /\ SetAccount(a, [middle EXCEPT !.score = UpdateScore(middle.score, i, now)])
    BY <1>7 DEF RecordScore
  <2>2. i \in [DaysStored -> Nat]
    BY SweatJarAssumption
  <2>3. UpdateScore(middle.score, i, now) \in AccountScore
    <3> HIDE DEF middle
    <3> QED BY <1>1, <1>6, <2>1, <2>2, UpdateScoreType DEF AccountBy, middle
  <2> QED BY <1>5, <2>1, <2>3
<1>8. ASSUME NEW d \in 0 .. 2, NEW v \in Boosters, ApplyBooster(a, d, v)
      PROVE  Written
  <2> DEFINE middle == SettleInterest(accounts[a], now)
  <2>1. HasTimezone(a)
        /\ SetAccount(a, [middle EXCEPT !.score = ApplyBoosterTo(middle.score, d, v, now)])
    BY <1>8 DEF ApplyBooster
  <2>2. v \in 0 .. MaxScore
    BY SweatJarAssumption
  <2>3. ApplyBoosterTo(middle.score, d, v, now) \in AccountScore
    <3> HIDE DEF middle
    <3> QED BY <1>1, <1>6, <2>1, <2>2, ApplyBoosterToType DEF AccountBy, middle
  <2> QED BY <1>5, <2>1, <2>3
<1> HIDE DEF Written
<1>9. Written
  BY <1>3, <1>4, <1>7, <1>8
<1>10. UNCHANGED <<now, fee_amount, receipts, tokens>>
  BY DEF SetFeatureEnabled, SetTimezone, RecordScore, ApplyBooster
<1> QED BY <1>9, <1>10 DEF Written

\* So it leaves the locks and the requests alone.
LEMMA OracleOwned ==
    ASSUME LockInv, TimeGoesOn, NEW a \in AccountIds,
           \/ \E f \in Features, e \in BOOLEAN : SetFeatureEnabled(a, f, e)
           \/ \E tz \in Timezones : SetTimezone(a, tz)
           \/ \E i \in Increments : RecordScore(a, i)
           \/ \E d \in 0 .. 2, v \in Boosters : ApplyBooster(a, d, v)
    PROVE  Owned' /\ Fitting'
<1>1. PICK after : AccountBy(after, now) /\ SetAccount(a, after)
                   /\ SameJars(AccountOrNew(a), after)
  BY OracleWrites DEF LockInv
<1>2. UNCHANGED receipts
  BY OracleWrites DEF LockInv
<1>3. AccountBy(AccountOrNew(a), now) /\ now \in Nat
  BY AccountOrNewType DEF LockInv, TypeInv
<1>4. Steps(AccountOrNew(a), after, {}, {})
  BY <1>1, <1>3, SameSteps
<1> QED BY <1>1, <1>2, <1>4, KeepAccount

\* The calls of operators, if no maintainer unlocks jars by hand.
LEMMA OracleCalls ==
    ASSUME ~MaintainerUnlocks, NEW a \in AccountIds, OperatorCall(a)
    PROVE  \/ \E f \in Features, e \in BOOLEAN : SetFeatureEnabled(a, f, e)
           \/ \E tz \in Timezones : SetTimezone(a, tz)
           \/ \E i \in Increments : RecordScore(a, i)
           \/ \E d \in 0 .. 2, v \in Boosters : ApplyBooster(a, d, v)
<1>1. CASE \E f \in FeaturesSet, e \in BOOLEAN : SetFeatureEnabled(a, f, e)
  BY <1>1, SweatJarAssumption
<1>2. CASE \E e \in BOOLEAN : "IncreasedApy" \in FeaturesSet /\ SetPenalty(a, e)
  <2>1. "IncreasedApy" \in Features /\ \A e \in BOOLEAN : (~e) \in BOOLEAN
    BY DEF Features
  <2>2. \E f \in Features, e \in BOOLEAN : SetFeatureEnabled(a, f, e)
    BY <1>2, <2>1 DEF SetPenalty
  <2> QED BY <2>2
<1>3. CASE \E ps \in SUBSET ProductIds : UnlockJarsForAccount(a, ps)
  BY <1>3 DEF UnlockJarsForAccount
<1> QED BY <1>1, <1>2, <1>3 DEF OperatorCall

\* Stuttering, the manager and the clock.
LEMMA IdleOwned ==
    ASSUME LockInv, TimeGoesOn, UNCHANGED <<accounts, receipts>>
    PROVE  Owned' /\ Fitting'
<1>1. Moves(now, {}, {})
  BY UnchangedMoves DEF LockInv
<1>2. HoldsKept
  BY DEF HoldsKept, SameRequest
<1> QED BY <1>1, <1>2, KeptOwned DEF LockInv

-----------------------------------------------------------------------------

\* The invariant holds initially: there is no jar and no receipt.
LEMMA LockInvInit == Init => LockInv
<1> SUFFICES ASSUME Init PROVE LockInv
  OBVIOUS
<1>1. DOMAIN receipts = {} /\ DOMAIN accounts = {}
  BY DEF Init, EmptyMap
<1>2. Owned /\ Fitting
  BY <1>1 DEF Owned, Fitting, Covers, IsLocked
<1> QED BY <1>2, TypeInvInit DEF LockInv

\* Every step keeps it, if no maintainer unlocks jars by hand.
LEMMA LockInvNext ==
    ASSUME ~MaintainerUnlocks, LockInv, [Next]_vars
    PROVE  LockInv'
<1>1. TypeInv' /\ TimeGoesOn
  <2>1. TypeInv /\ TypeInv'
    BY TypeInvNext DEF LockInv
  <2>2. CASE Tick
    BY <2>1, <2>2 DEF Tick, TypeInv, TimeGoesOn
  <2>3. CASE ~Tick
    BY <2>1, <2>3, TimeStandsStill DEF TypeInv, TimeGoesOn
  <2> QED BY <2>1, <2>2, <2>3
<1>2. CASE UNCHANGED vars
  <2>1. UNCHANGED <<accounts, receipts>>
    BY <1>2 DEF vars
  <2> QED BY <1>1, <2>1, IdleOwned DEF LockInv
<1>3. CASE \E s \in Slots : TokenReceipt(s) \/ ContractReceipt(s)
  <2> PICK s \in Slots : TokenReceipt(s) \/ ContractReceipt(s)
    BY <1>3
  <2>1. Owned' /\ Fitting'
    BY <1>1, AnswerOwned, SettledOwned, OnStakeOwned, AfterWithdrawOwned, AfterFailureOwned,
       AfterClaimOwned, AfterFailedClaimOwned, AfterTransferRemainderOwned,
       CallbackPanicsOwned
       DEF TokenReceipt, ContractReceipt, PayoutReceipt
  <2> QED BY <1>1, <2>1 DEF LockInv
<1>4. CASE \E s \in FreeSlots, a \in AccountIds : UserCall(s, a)
  <2> PICK s \in FreeSlots, a \in AccountIds : UserCall(s, a)
    BY <1>4
  <2>1. Owned' /\ Fitting'
    BY <1>1, StakeOwned, WithdrawOwned, WithdrawAllOwned, ClaimTotalOwned, RestakeOwned
       DEF UserCall, PayoutCall
  <2> QED BY <1>1, <2>1 DEF LockInv
<1>5. CASE \E s \in FreeSlots : WithdrawFee(s)
  BY <1>1, <1>5, WithdrawFeeOwned DEF LockInv
<1>6. CASE \E a \in AccountIds : OperatorCall(a)
  <2> PICK a \in AccountIds : OperatorCall(a)
    BY <1>6
  <2>1. Owned' /\ Fitting'
    BY <1>1, OracleCalls, OracleOwned
  <2> QED BY <1>1, <2>1 DEF LockInv
<1>7. CASE \E p \in Managed, e \in BOOLEAN : SetEnabled(p, e)
  <2>1. UNCHANGED <<accounts, receipts>>
    BY <1>7 DEF SetEnabled
  <2> QED BY <1>1, <2>1, IdleOwned DEF LockInv
<1>8. CASE Tick
  <2>1. UNCHANGED <<accounts, receipts>>
    BY <1>8 DEF Tick
  <2> QED BY <1>1, <2>1, IdleOwned DEF LockInv
<1> QED BY <1>2, <1>3, <1>4, <1>5, <1>6, <1>7, <1>8 DEF Next

\* What the invariant says of the requests in flight.
LEMMA LockInvRequests == LockInv => RequestsMatchJars
<1> SUFFICES ASSUME LockInv PROVE RequestsMatchJars
  OBVIOUS
<1>1. ASSUME NEW a \in DOMAIN accounts, NEW p \in DOMAIN JarsOf(a)
      PROVE  DepositsSorted(JarsOf(a)[p])
  <2>1. JarsOf(a)[p] \in JarBy(now)
    BY DEF LockInv, TypeInv, AccountsBy, AccountBy, JarsBy, JarsOf
  <2> QED BY <2>1 DEF JarBy, DepositsBy, OldestFirst, DepositsSorted
<1>2. ASSUME NEW s \in DOMAIN receipts, IsPayout(receipts[s])
      PROVE  RequestMatchesJars(receipts[s])
  <2> DEFINE r == receipts[s]
  <2>1. Fits(r, accounts[r.account], now)
    BY <1>2 DEF LockInv, Fitting
  <2>2. \A p \in DOMAIN r.jars :
            Len(accounts[r.account].jars[p].deposits) \in Nat
    <3> TAKE p \in DOMAIN r.jars
    <3>1. accounts[r.account].jars[p] \in JarBy(now)
      BY <1>2, PayoutCovers DEF LockInv
    <3>2. accounts[r.account].jars[p].deposits \in Seq(DepositBy(now))
      BY <3>1 DEF JarBy, DepositsBy
    <3> QED BY <3>2, LenProperties
  <2> HIDE DEF r
  <2>3. ASSUME NEW p \in DOMAIN r.jars
        PROVE  /\ CanCleanUp(JarsOf(r.account)[p], r.jars[p].partition_index)
               /\ AllLiquid(p, JarsOf(r.account)[p], r.jars[p].partition_index)
    BY <2>1, <2>2 DEF Fits, JarsOf, CanCleanUp, AllLiquid
  <2>4. r.kind = "withdraw" => \A p \in DOMAIN r.jars : r.jars[p].amount
            = Principal(JarsOf(r.account)[p].deposits, r.jars[p].partition_index)
    BY <2>1 DEF Fits, JarsOf
  <2>5. r.kind = "restake" => r.amount + r.fee + r.deposit = Total([p \in DOMAIN r.jars |->
            Principal(JarsOf(r.account)[p].deposits, r.jars[p].partition_index)])
    BY <2>1 DEF Fits, JarsOf
  <2>6. RequestMatchesJars(r)
    BY <2>3, <2>4, <2>5 DEF RequestMatchesJars
  <2> QED BY <2>6 DEF r
<1> QED BY <1>1, <1>2 DEF RequestsMatchJars, IsPayout

\* A jar is locked exactly while one transfer about it is in flight, and only
\* that transfer's callback releases it. Maintainers who unlock jars by hand
\* can break this.
THEOREM LocksOwned ==
    ASSUME ~MaintainerUnlocks
    PROVE  Spec => []LockOwnership
<1>1. Init => LockInv
  BY LockInvInit
<1>2. LockInv /\ [Next]_vars => LockInv'
  BY LockInvNext
<1>3. LockInv => LockOwnership
  BY OwnedLocks DEF LockInv
<1> QED BY <1>1, <1>2, <1>3, PTL DEF Spec

\* However operations on the same jars interleave, deposits included, a
\* withdrawal or a restake in flight still fits its jars: the deposits that
\* its callback will drain are the ones that were counted when it was sent,
\* they have served their term, and their total is what was paid out, kept as
\* a fee or moved.
THEOREM RequestsFit ==
    ASSUME ~MaintainerUnlocks
    PROVE  Spec => []RequestsMatchJars
<1>1. Init => LockInv
  BY LockInvInit
<1>2. LockInv /\ [Next]_vars => LockInv'
  BY LockInvNext
<1>3. LockInv => RequestsMatchJars
  BY LockInvRequests
<1> QED BY <1>1, <1>2, <1>3, PTL DEF Spec

-----------------------------------------------------------------------------
(* No callback panics.                                                      *)

\* An account that is to be paid exists, even if none of its jars is locked
\* for it.
Present ==
    \A s \in DOMAIN receipts : receipts[s].kind \in {"withdraw", "claim", "restake"} =>
        receipts[s].account \in DOMAIN accounts

\* No account disappears.
LEMMA AccountsStay ==
    ASSUME [Next]_vars
    PROVE  DOMAIN accounts \subseteq DOMAIN accounts'
<1>1. \A a, x : SetAccount(a, x) => DOMAIN accounts \subseteq DOMAIN accounts'
  BY DEF SetAccount, Put
<1>2. CASE UNCHANGED accounts
  BY <1>2
<1>3. CASE \E s \in Slots : TokenReceipt(s) \/ ContractReceipt(s)
  BY <1>1, <1>2, <1>3 DEF TokenReceipt, ContractReceipt, PayoutReceipt, FtTransferSucceeds,
     FtTransferFails, RefundStake, OnStake, OnStakePanics, AfterWithdraw,
     AfterFailedWithdraw, AfterClaim, AfterFailedClaim, AfterTransferRemainder,
     AfterFailedTransferRemainder, AfterFeeWithdrawn, AfterFailedFeeWithdrawal,
     CallbackPanics
<1>4. CASE \E s \in FreeSlots, a \in AccountIds : UserCall(s, a)
  <2>1. \A s, a, ps, fee, q, x, tz :
            RestakeFrom(s, a, ps, fee, q, x, tz) => DOMAIN accounts \subseteq DOMAIN accounts'
    BY <1>1 DEF RestakeFrom
  <2>2. \A s, a, p, q, x, tz :
            Restake(s, a, p, q, x, tz) => DOMAIN accounts \subseteq DOMAIN accounts'
    BY <2>1 DEF Restake
  <2>3. \A s, a, q, x, tz :
            RestakeAll(s, a, q, x, tz) => DOMAIN accounts \subseteq DOMAIN accounts'
    BY <2>1 DEF RestakeAll
  <2>4. \A s, a : PayoutCall(s, a) => DOMAIN accounts \subseteq DOMAIN accounts'
    BY <1>1 DEF PayoutCall, Withdraw, WithdrawAll, ClaimTotal
  <2>5. \A s, sender, a, p, x, tz : Stake(s, sender, a, p, x, tz) => UNCHANGED accounts
    BY DEF Stake
  <2> QED BY <1>2, <1>4, <2>2, <2>3, <2>4, <2>5 DEF UserCall
<1>5. CASE \E s \in FreeSlots : WithdrawFee(s)
  BY <1>2, <1>5 DEF WithdrawFee
<1>6. CASE \E a \in AccountIds : OperatorCall(a)
  BY <1>1, <1>6 DEF OperatorCall, SetPenalty, SetFeatureEnabled, SetTimezone, RecordScore,
     ApplyBooster, UnlockJarsForAccount
<1>7. CASE Tick \/ UNCHANGED vars \/ \E p \in Managed, e \in BOOLEAN : SetEnabled(p, e)
  BY <1>2, <1>7 DEF Tick, SetEnabled, vars
<1> QED BY <1>3, <1>4, <1>5, <1>6, <1>7 DEF Next

\* Where the receipts of a step come from.
LEMMA ReceiptsFrom ==
    ASSUME TypeInv, [Next]_vars
    PROVE  \/ UNCHANGED receipts
           \/ \E s : Consume(s)
           \/ \E s \in DOMAIN receipts, status \in {"succeeded", "failed"} :
                /\ receipts[s].kind = "stake" => status = "failed"
                /\ receipts' = [receipts EXCEPT ![s].status = status]
           \/ \E s, r : Send(s, r) /\ (r.kind \in {"stake", "fee"} \/ r.account \in DOMAIN accounts)
<1> DEFINE Sent == \E s, r : /\ Send(s, r)
                             /\ r.kind \in {"stake", "fee"} \/ r.account \in DOMAIN accounts
<1>1. CASE \E s \in Slots : TokenReceipt(s)
  BY <1>1 DEF TokenReceipt, FtTransferSucceeds, FtTransferFails, RefundStake
<1>2. CASE \E s \in Slots : ContractReceipt(s)
  BY <1>2 DEF ContractReceipt, PayoutReceipt, OnStake, OnStakePanics, InFlight, AfterWithdraw,
     AfterFailedWithdraw, AfterClaim, AfterFailedClaim, AfterTransferRemainder,
     AfterFailedTransferRemainder, AfterFeeWithdrawn, AfterFailedFeeWithdrawal,
     CallbackPanics
<1>3. ASSUME NEW s \in FreeSlots, NEW a \in AccountIds, UserCall(s, a)
      PROVE  UNCHANGED receipts \/ Sent
  <2>1. ASSUME NEW b, NEW p, NEW x, NEW tz, Stake(s, a, b, p, x, tz)
        PROVE  Sent
    BY <2>1 DEF Stake
  <2>2. ASSUME PayoutCall(s, a)
        PROVE  UNCHANGED receipts \/ Sent
    <3>1. ASSUME NEW p, Withdraw(s, a, p) PROVE Sent
      BY <3>1 DEF Withdraw, SendWithdrawal
    <3>2. ASSUME NEW ps, WithdrawAll(s, a, ps) PROVE UNCHANGED receipts \/ Sent
      BY <3>2 DEF WithdrawAll, CanWithdrawAll, SendWithdrawal
    <3>3. ASSUME ClaimTotal(s, a) PROVE UNCHANGED receipts \/ Sent
      BY <3>3 DEF ClaimTotal
    <3> HIDE DEF Sent
    <3> QED BY <2>2, <3>1, <3>2, <3>3 DEF PayoutCall
  <2>3. ASSUME a \in DOMAIN accounts, NEW ps, NEW fee, NEW q, NEW x, NEW tz,
               RestakeFrom(s, a, ps, fee, q, x, tz)
        PROVE  UNCHANGED receipts \/ Sent
    BY <2>3 DEF RestakeFrom
  <2> HIDE DEF Sent
  <2>4. ASSUME NEW p, NEW q, NEW x, NEW tz, Restake(s, a, p, q, x, tz)
        PROVE  UNCHANGED receipts \/ Sent
    BY <2>3, <2>4 DEF Restake
  <2>5. ASSUME NEW q, NEW x, NEW tz, RestakeAll(s, a, q, x, tz)
        PROVE  UNCHANGED receipts \/ Sent
    BY <2>3, <2>5 DEF RestakeAll
  <2> QED BY <1>3, <2>1, <2>2, <2>4, <2>5 DEF UserCall
<1>4. ASSUME NEW s \in FreeSlots, WithdrawFee(s)
      PROVE  Sent
  BY <1>4 DEF WithdrawFee
<1>5. CASE \E a \in AccountIds : OperatorCall(a)
  BY <1>5 DEF OperatorCall, SetPenalty, SetFeatureEnabled, SetTimezone, RecordScore,
     ApplyBooster, UnlockJarsForAccount
<1>6. CASE Tick \/ UNCHANGED vars \/ \E p \in Managed, e \in BOOLEAN : SetEnabled(p, e)
  BY <1>6 DEF Tick, SetEnabled, vars
<1> QED BY <1>1, <1>2, <1>3, <1>4, <1>5, <1>6 DEF Next

\* An account that is to be paid goes on existing.
LEMMA PresentNext == TypeInv /\ Present /\ [Next]_vars => Present'
<1> SUFFICES ASSUME TypeInv, Present, [Next]_vars PROVE Present'
  OBVIOUS
<1>1. DOMAIN accounts \subseteq DOMAIN accounts'
  BY AccountsStay
<1>2. CASE UNCHANGED receipts
  BY <1>1, <1>2 DEF Present
<1>3. ASSUME NEW s, Consume(s)
      PROVE  Present'
  <2>1. /\ DOMAIN receipts' = DOMAIN receipts \ {s}
        /\ \A x \in DOMAIN receipts \ {s} : receipts'[x] = receipts[x]
    BY <1>3, ConsumeType
  <2> QED BY <1>1, <2>1 DEF Present
<1>4. ASSUME NEW s \in DOMAIN receipts, NEW status \in {"succeeded", "failed"},
             receipts[s].kind = "stake" => status = "failed",
             receipts' = [receipts EXCEPT ![s].status = status]
      PROVE  Present'
  <2>1. /\ DOMAIN receipts' = DOMAIN receipts
        /\ \A x \in DOMAIN receipts : receipts'[x] =
                IF x = s THEN [receipts[s] EXCEPT !.status = status] ELSE receipts[x]
    BY <1>4, AnswerType
  <2>2. receipts'[s].kind = receipts[s].kind /\ receipts'[s].account = receipts[s].account
    BY <2>1, ReceiptKinds DEF IsStake, IsWithdrawal, IsClaim, IsRestake, IsFee
  <2> QED BY <1>1, <2>1, <2>2 DEF Present
<1>5. ASSUME NEW s, NEW r, Send(s, r), r.kind \in {"stake", "fee"} \/ r.account \in DOMAIN accounts
      PROVE  Present'
  <2>1. /\ DOMAIN receipts' = DOMAIN receipts \cup {s}
        /\ \A x \in DOMAIN receipts \cup {s} : receipts'[x] = IF x = s THEN r ELSE receipts[x]
    BY <1>5 DEF Send, Put
  <2> QED BY <1>1, <1>5, <2>1 DEF Present
<1> QED BY <1>2, <1>3, <1>4, <1>5, ReceiptsFrom

\* However operations interleave, the callback of a withdrawal, a claim or a
\* restake never panics: it is the only chance to book what was paid, to
\* restore what was not, and to release the locks.
THEOREM NoCallbackPanics ==
    ASSUME ~MaintainerUnlocks
    PROVE  Spec => CallbacksRun
<1>1. Init => LockInv /\ Present
  BY LockInvInit DEF Init, Present, EmptyMap
<1>2. LockInv /\ Present /\ [Next]_vars => (LockInv /\ Present)'
  BY LockInvNext, PresentNext DEF LockInv
<1>3. ASSUME LockInv, Present, NEW s \in Slots
      PROVE  ~CallbackPanics(s)
  <2> SUFFICES ASSUME CallbackPanics(s) PROVE FALSE
    OBVIOUS
  <2>1. DOMAIN receipts[s].jars = {}
    BY <1>3, HolderRuns
  <2>2. receipts[s].account \in DOMAIN accounts
    BY <1>3 DEF CallbackPanics, Present
  <2> QED BY <2>1, <2>2 DEF CallbackPanics, CanFinishWithdrawal, HasJars, CanCleanUpJars,
          PartitionOf
<1>4. LockInv /\ Present => [\A s \in Slots : ~CallbackPanics(s)]_vars
  BY <1>3
<1> QED BY <1>1, <1>2, <1>4, PTL DEF Spec, CallbacksRun
=============================================================================
