---------------------------- MODULE Tickets_proofs ----------------------------
(***************************************************************************)
(* What the tickets of a protected product are worth, for any number of    *)
(* accounts, products, keys and transfers in flight: what an account holds *)
(* in the product was signed for, and a ticket is good once as long as no  *)
(* two restakes of one account overlap.                                    *)
(***************************************************************************)
EXTENDS Tickets, Locks_proofs, Worth_proofs

-----------------------------------------------------------------------------
(* The invariant. A ticket that took effect is outdated, and the ticket    *)
(* that a stake or a restake in flight carries says what its callback will *)
(* deposit. What an account holds in a protected product is covered by the *)
(* tickets that took effect, each as often as it did.                      *)

Ticket == [key : PublicKeys, purpose : Purposes, account : AccountIds,
           product : ProductIds, amount : Nat, nonce : Nat, valid_until : Nat]

\* The receipts whose callback will use a ticket.
Carries(r) == r.kind = "restake" \/ (r.kind = "stake" /\ r.status = "sent")

\* A stake is checked when it arrives, a restake was checked when it left.
StakeCarries(r, ticket, keys) ==
    ticket = Unsigned \/ (ticket \in Ticket /\ r.product \in keys)

RestakeCarries(r, ticket, n) ==
    \/ ticket = Unsigned /\ r.target \notin DOMAIN InitialKeys
    \/ /\ ticket \in Ticket /\ ticket.purpose = "restake"
       /\ ticket.account = r.account /\ ticket.product = r.target
       /\ ticket.amount = r.deposit /\ ticket.nonce <= n[r.account]

TicketFits(r, ticket, keys, n) ==
    /\ r.kind = "stake" => StakeCarries(r, ticket, keys)
    /\ r.kind = "restake" => RestakeCarries(r, ticket, n)

TicketsCarried ==
    \A s \in DOMAIN receipts : Carries(receipts[s]) =>
        /\ s \in DOMAIN tickets
        /\ TicketFits(receipts[s], tickets[s], DOMAIN public_keys, nonces)

\* The tickets that took effect. One for a deposit did so once, since its
\* receipt both checks and spends the nonce.
UsedTickets(u, n) ==
    /\ IsMap(u, Ticket) /\ IsFiniteSet(DOMAIN u)
    /\ \A t \in DOMAIN u : u[t] \in Nat /\ t.nonce < n[t.account]

DepositOnce(u) == \A t \in DOMAIN u : t.purpose = "deposit" => u[t] <= 1

\* What an account holds in a product, and what tickets covered of it.
PrincipalIn(account, p) ==
    IF p \in DOMAIN account.jars THEN TotalPrincipal(account.jars[p]) ELSE 0

Stored(all, a, p) == IF a \in DOMAIN all THEN PrincipalIn(all[a], p) ELSE 0

SignedFor(u, a, p) == {t \in DOMAIN u : t.account = a /\ t.product = p}

Weight(u, a, p) ==
    SumFunctionOnSet([t \in SignedFor(u, a, p) |-> u[t] * t.amount], SignedFor(u, a, p))

Covered ==
    \A a \in AccountIds : \A p \in DOMAIN InitialKeys :
        Stored(accounts, a, p) <= Weight(used, a, p)

KeysKnown ==
    /\ nonces \in [AccountIds -> Nat]
    /\ DOMAIN InitialKeys \subseteq DOMAIN public_keys

TicketInv ==
    /\ TypeInv
    /\ KeysKnown
    /\ TicketsCarried
    /\ UsedTickets(used, nonces) /\ DepositOnce(used)
    /\ Covered

\* A restake of account a is called.
Restaking(s, a) ==
    \/ \E p, q \in ProductIds, x \in Amounts :
        \E tz \in TimezonesFor(q), t \in Offers(a, q, x) : RestakeWith(s, a, p, q, x, tz, t)
    \/ \E q \in ProductIds, x \in Amounts :
        \E tz \in TimezonesFor(q), t \in Offers(a, q, x) : RestakeAllWith(s, a, q, x, tz, t)

\* No restake of the account waits for its transfer.
NoRestakeOf(a) ==
    \A s \in DOMAIN receipts : ~(receipts[s].kind = "restake" /\ receipts[s].account = a)

\* A caller that waits for the outcome of a restake before the next one.
RestakesAlone ==
    \A s \in Slots : \A a \in AccountIds : Restaking(s, a) => NoRestakeOf(a)

\* Then the ticket of a restake in flight is still unused.
RestakesOnce ==
    /\ TicketUsedOnce
    /\ \A s \in DOMAIN receipts : receipts[s].kind = "restake" =>
        /\ tickets[s] \notin DOMAIN used
        /\ \A x \in DOMAIN receipts \ {s} :
            ~(receipts[x].kind = "restake" /\ receipts[x].account = receipts[s].account)

OnceInv == TicketInv /\ RestakesOnce

-----------------------------------------------------------------------------
(* What the methods of an account do to the principal in one product.      *)

\* No product holds more afterwards.
NoMore(account, after) ==
    \A p \in ProductIds : PrincipalIn(after, p) <= PrincipalIn(account, p)

\* Only the product q does, by at most x.
MoreIn(account, after, q, x) ==
    \A p \in ProductIds :
        PrincipalIn(after, p) <= PrincipalIn(account, p) + (IF p = q THEN x ELSE 0)

\* The principal in a product is a natural number.
LEMMA PrincipalInNat ==
    ASSUME NEW t \in Nat, NEW account, AccountBy(account, t), NEW p
    PROVE  PrincipalIn(account, p) \in Nat
BY JarsFinite DEF PrincipalIn

\* Locks and caches are no deposits.
LEMMA SameNoMore ==
    ASSUME NEW t \in Nat, NEW account, AccountBy(account, t), NEW after,
           \/ SameJars(account, after)
           \/ \E ps, b : LocksSet(account, after, ps, b)
           \/ after.jars = account.jars
    PROVE  NoMore(account, after)
<1>1. SameDeposits(account, after)
  BY DEF SameJars, LocksSet, SameDeposits
<1>2. \A p : PrincipalIn(after, p) = PrincipalIn(account, p)
  BY <1>1 DEF SameDeposits, PrincipalIn, TotalPrincipal
<1>3. \A p : PrincipalIn(account, p) \in Nat
  BY PrincipalInNat
<1> QED BY <1>2, <1>3 DEF NoMore

\* Draining takes deposits.
LEMMA DrainNoMore ==
    ASSUME NEW t \in Nat, NEW account, AccountBy(account, t), NEW partition,
           CanCleanUpJars(account, partition),
           \A p \in DOMAIN partition : partition[p] \in Nat
    PROVE  NoMore(account, CleanUpJars(account, partition))
<1> DEFINE after == CleanUpJars(account, partition)
<1>1. DOMAIN after.jars = DOMAIN account.jars /\ \A p \in DOMAIN account.jars : after.jars[p] =
        IF p \in DOMAIN partition
        THEN CleanUpDeposits(account.jars[p], partition[p]) ELSE account.jars[p]
  BY DEF CleanUpJars, AccountBy
<1> HIDE DEF after
<1> SUFFICES ASSUME NEW p PROVE PrincipalIn(after, p) <= PrincipalIn(account, p)
  BY DEF NoMore, after
<1>2. CASE p \in DOMAIN account.jars /\ p \in DOMAIN partition
  <2> DEFINE taken == Principal(account.jars[p].deposits, partition[p])
             left == TotalPrincipal(CleanUpDeposits(account.jars[p], partition[p]))
             old == TotalPrincipal(account.jars[p])
  <2>1. account.jars[p] \in JarBy(t) /\ CanCleanUp(account.jars[p], partition[p])
    BY <1>2, JarsFinite DEF CanCleanUpJars
  <2>2. taken \in Nat /\ left \in Nat /\ old = taken + left
    BY <1>2, <2>1, CleanUpWorth
  <2>3. PrincipalIn(after, p) = left /\ PrincipalIn(account, p) = old
    BY <1>1, <1>2 DEF PrincipalIn
  <2> HIDE DEF taken, left, old
  <2> QED BY <2>2, <2>3
<1>3. CASE ~(p \in DOMAIN account.jars /\ p \in DOMAIN partition)
  <2>1. PrincipalIn(after, p) = PrincipalIn(account, p)
    BY <1>1, <1>3 DEF PrincipalIn
  <2> QED BY <2>1, PrincipalInNat
<1> QED BY <1>2, <1>3

\* A jar that is closed held nothing.
LEMMA CloseNoMore ==
    ASSUME NEW t \in Nat, NEW account, AccountBy(account, t), NEW ps
    PROVE  NoMore(account, CloseJars(account, ps))
<1> DEFINE after == CloseJars(account, ps)
<1>1. JarsClosed(account, after, ps)
  BY CloseJarsType
<1> HIDE DEF after
<1>2. ASSUME NEW p PROVE PrincipalIn(after, p) <= PrincipalIn(account, p)
  <2>1. PrincipalIn(account, p) \in Nat
    BY PrincipalInNat
  <2>2. CASE p \in DOMAIN after.jars
    <3>1. PrincipalIn(after, p) = PrincipalIn(account, p)
      BY <1>1, <2>2 DEF JarsClosed, PrincipalIn
    <3> QED BY <2>1, <3>1
  <2>3. CASE p \notin DOMAIN after.jars
    <3>1. PrincipalIn(after, p) = 0
      BY <2>3 DEF PrincipalIn
    <3> QED BY <2>1, <3>1
  <2> QED BY <2>2, <2>3
<1> QED BY <1>2 DEF NoMore, after

\* A deposit adds to its product.
LEMMA DepositMore ==
    ASSUME NEW t \in Nat, NEW account, AccountBy(account, t), NEW q \in ProductIds,
           NEW principal \in Nat
    PROVE  MoreIn(account, DepositTo(account, q, principal, t), q, principal)
<1> DEFINE old == JarOrNew(account, q)
           new == AddDeposit(old, principal, t)
           after == DepositTo(account, q, principal, t)
<1>1. old \in JarBy(t) /\ TotalPrincipal(old) = PrincipalIn(account, q)
  <2>1. EmptyJar \in JarBy(t)
    <3>1. <<>> \in DepositsBy(t)
      BY DEF DepositsBy, OldestFirst
    <3> QED BY <3>1 DEF EmptyJar, JarBy, CacheBy, NoCache
  <2>2. TotalPrincipal(EmptyJar) = 0
    BY NoDeposits DEF EmptyJar
  <2> QED BY <2>1, <2>2, JarsFinite DEF JarOrNew, PrincipalIn
<1>2. TotalPrincipal(new) = PrincipalIn(account, q) + principal
  BY <1>1, AddDepositWorth
<1>3. after.jars = Put(account.jars, q, new)
  BY DEF DepositTo, AccountBy
<1>4. DOMAIN after.jars = DOMAIN account.jars \cup {q} /\ \A p \in DOMAIN account.jars \cup {q} :
        after.jars[p] = IF p = q THEN new ELSE account.jars[p]
  BY <1>3 DEF Put
<1> HIDE DEF old, new, after
<1>5. ASSUME NEW p
      PROVE  PrincipalIn(after, p) <= PrincipalIn(account, p) + (IF p = q THEN principal ELSE 0)
  <2>1. PrincipalIn(account, p) \in Nat
    BY PrincipalInNat
  <2>2. CASE p = q
    <3>1. PrincipalIn(after, p) = PrincipalIn(account, p) + principal
      BY <1>2, <1>4, <2>2 DEF PrincipalIn
    <3> QED BY <2>1, <2>2, <3>1
  <2>3. CASE p # q
    <3>1. PrincipalIn(after, p) = PrincipalIn(account, p)
      BY <1>4, <2>3 DEF PrincipalIn
    <3> QED BY <2>1, <2>3, <3>1
  <2> QED BY <2>2, <2>3
<1> QED BY <1>5 DEF MoreIn, after

\* One method after another.
LEMMA NoMoreThen ==
    ASSUME NEW t \in Nat, NEW x, AccountBy(x, t), NEW y, AccountBy(y, t),
           NEW z, AccountBy(z, t), NoMore(x, y), NoMore(y, z)
    PROVE  NoMore(x, z)
<1>1. \A p : /\ PrincipalIn(x, p) \in Nat /\ PrincipalIn(y, p) \in Nat
             /\ PrincipalIn(z, p) \in Nat
  BY PrincipalInNat
<1> QED BY <1>1 DEF NoMore

\* A deposit between two that add nothing.
LEMMA MoreThen ==
    ASSUME NEW t \in Nat, NEW v, AccountBy(v, t), NEW x, AccountBy(x, t),
           NEW y, AccountBy(y, t), NEW z, AccountBy(z, t),
           NEW q, NEW n \in Nat, NoMore(v, x), MoreIn(x, y, q, n), NoMore(y, z)
    PROVE  MoreIn(v, z, q, n)
<1> SUFFICES ASSUME NEW p \in ProductIds
             PROVE  PrincipalIn(z, p) <= PrincipalIn(v, p) + (IF p = q THEN n ELSE 0)
  BY DEF MoreIn
<1> DEFINE pv == PrincipalIn(v, p)
           px == PrincipalIn(x, p)
           py == PrincipalIn(y, p)
           pz == PrincipalIn(z, p)
           m == IF p = q THEN n ELSE 0
<1>1. pv \in Nat /\ px \in Nat /\ py \in Nat /\ pz \in Nat /\ m \in Nat
  BY PrincipalInNat
<1>2. px <= pv /\ py <= px + m /\ pz <= py
  BY DEF NoMore, MoreIn
<1> HIDE DEF pv, px, py, pz, m
<1>3. pz <= pv + m
  BY <1>1, <1>2
<1> QED BY <1>3 DEF pv, pz, m

-----------------------------------------------------------------------------
(* What an action adds to the accounts.                                    *)

NothingAdded ==
    \A b \in AccountIds : \A p \in ProductIds :
        Stored(accounts', b, p) <= Stored(accounts, b, p)

AddedTo(a, q, x) ==
    \A b \in AccountIds : \A p \in ProductIds :
        Stored(accounts', b, p) <= Stored(accounts, b, p) + (IF b = a /\ p = q THEN x ELSE 0)

\* What an account holds is a natural number.
LEMMA StoredNat ==
    ASSUME TypeInv, NEW a, NEW p
    PROVE  Stored(accounts, a, p) \in Nat
<1>1. now \in Nat
  BY DEF TypeInv
<1>2. a \in DOMAIN accounts => AccountBy(accounts[a], now)
  BY DEF TypeInv, AccountsBy
<1> QED BY <1>1, <1>2, PrincipalInNat DEF Stored

\* An account that is not known holds nothing.
LEMMA AccountOrNewHolds ==
    ASSUME NEW a, NEW p
    PROVE  PrincipalIn(AccountOrNew(a), p) = Stored(accounts, a, p)
BY DEF AccountOrNew, EmptyAccount, EmptyMap, PrincipalIn, Stored

\* Accounts that are not written.
LEMMA NothingWritten ==
    ASSUME TypeInv, UNCHANGED accounts
    PROVE  NothingAdded
BY StoredNat DEF NothingAdded

\* One account is written, and holds no more.
LEMMA WriteNoMore ==
    ASSUME TypeInv, NEW a \in AccountIds, NEW after, AccountBy(after, now), SetAccount(a, after),
           NoMore(AccountOrNew(a), after)
    PROVE  NothingAdded
<1> SUFFICES ASSUME NEW b \in AccountIds, NEW p \in ProductIds
             PROVE  Stored(accounts', b, p) <= Stored(accounts, b, p)
  BY DEF NothingAdded
<1>1. /\ DOMAIN accounts' = DOMAIN accounts \cup {a}
      /\ \A c \in DOMAIN accounts \cup {a} :
            accounts'[c] = IF c = a THEN after ELSE accounts[c]
  BY SetAccountType
<1>2. CASE b = a
  <2>1. Stored(accounts', b, p) = PrincipalIn(after, p)
    BY <1>1, <1>2 DEF Stored
  <2>2. PrincipalIn(after, p) <= PrincipalIn(AccountOrNew(a), p)
    BY DEF NoMore
  <2> QED BY <1>2, <2>1, <2>2, AccountOrNewHolds
<1>3. CASE b # a
  <2>1. Stored(accounts', b, p) = Stored(accounts, b, p)
    BY <1>1, <1>3 DEF Stored
  <2> QED BY <2>1, StoredNat
<1> QED BY <1>2, <1>3

\* One account is written, and holds more of one product.
LEMMA WriteMore ==
    ASSUME TypeInv, NEW a \in AccountIds, NEW after, AccountBy(after, now), SetAccount(a, after),
           NEW q, NEW x \in Nat, MoreIn(AccountOrNew(a), after, q, x)
    PROVE  AddedTo(a, q, x)
<1> SUFFICES ASSUME NEW b \in AccountIds, NEW p \in ProductIds
             PROVE  Stored(accounts', b, p)
                        <= Stored(accounts, b, p) + (IF b = a /\ p = q THEN x ELSE 0)
  BY DEF AddedTo
<1>1. /\ DOMAIN accounts' = DOMAIN accounts \cup {a}
      /\ \A c \in DOMAIN accounts \cup {a} :
            accounts'[c] = IF c = a THEN after ELSE accounts[c]
  BY SetAccountType
<1>2. CASE b = a
  <2>1. Stored(accounts', b, p) = PrincipalIn(after, p)
    BY <1>1, <1>2 DEF Stored
  <2>2. PrincipalIn(after, p) <= PrincipalIn(AccountOrNew(a), p) + (IF p = q THEN x ELSE 0)
    BY DEF MoreIn
  <2> QED BY <1>2, <2>1, <2>2, AccountOrNewHolds
<1>3. CASE b # a
  <2>1. Stored(accounts', b, p) = Stored(accounts, b, p) /\ Stored(accounts, b, p) \in Nat
    BY <1>1, <1>3, StoredNat DEF Stored
  <2> QED BY <1>3, <2>1
<1> QED BY <1>2, <1>3

\* Caches and locks are written, after the jars of the account were settled.
LEMMA LocksNothing ==
    ASSUME TypeInv, NEW a \in DOMAIN accounts, NEW middle, AccountBy(middle, now),
           SameJars(accounts[a], middle), NEW after, AccountBy(after, now), SetAccount(a, after),
           NEW ps, NEW b, LocksSet(middle, after, ps, b)
    PROVE  NothingAdded
<1>1. /\ a \in AccountIds /\ now \in Nat
      /\ AccountBy(accounts[a], now) /\ AccountOrNew(a) = accounts[a]
  BY DEF TypeInv, AccountsBy, IsMap, AccountOrNew
<1>2. NoMore(accounts[a], middle) /\ NoMore(middle, after)
  BY <1>1, SameNoMore
<1>3. NoMore(accounts[a], after)
  BY <1>1, <1>2, NoMoreThen
<1> QED BY <1>1, <1>3, WriteNoMore

\* withdraw, withdraw_all and claim_total.
LEMMA PayoutCallAdds ==
    ASSUME TypeInv, NEW s \in FreeSlots, NEW a \in AccountIds, PayoutCall(s, a)
    PROVE  NothingAdded
<1>1. ASSUME NEW p \in ProductIds, Withdraw(s, a, p)
      PROVE  NothingAdded
  <2> DEFINE updated == UpdateJarCaches(accounts[a], {p}, now)
             after == LockJars(updated, {p})
  <2>1. a \in DOMAIN accounts /\ SetAccount(a, after) /\ now \in Nat
    BY <1>1 DEF Withdraw, TypeInv
  <2>2. AccountBy(accounts[a], now)
    BY AccountOrNewType, <2>1
  <2>3. AccountBy(updated, now) /\ SameJars(accounts[a], updated)
    BY <2>1, <2>2, UpdateJarCachesType
  <2>4. AccountBy(after, now) /\ LocksSet(updated, after, {p}, TRUE)
    <3> HIDE DEF updated
    <3> QED BY <2>1, <2>3, LockJarsType
  <2> HIDE DEF updated, after
  <2> QED BY <2>1, <2>3, <2>4, LocksNothing
<1>2. ASSUME NEW ps \in SUBSET ProductIds, WithdrawAll(s, a, ps)
      PROVE  NothingAdded
  <2> DEFINE requests == BulkRequests(a, ps)
             updated == UpdateAccountCache(accounts[a], now)
             after == LockJars(updated, DOMAIN requests)
  <2>1. a \in DOMAIN accounts /\ SetAccount(a, after) /\ now \in Nat
    BY <1>2 DEF WithdrawAll, CanWithdrawAll, TypeInv
  <2>2. AccountBy(accounts[a], now)
    BY AccountOrNewType, <2>1
  <2>3. AccountBy(updated, now) /\ SameJars(accounts[a], updated)
    BY <2>1, <2>2, UpdateAccountCacheType
  <2>4. AccountBy(after, now) /\ LocksSet(updated, after, DOMAIN requests, TRUE)
    <3> HIDE DEF updated, requests
    <3> QED BY <2>1, <2>3, LockJarsType
  <2> HIDE DEF updated, after
  <2> QED BY <2>1, <2>3, <2>4, LocksNothing
<1>3. ASSUME ClaimTotal(s, a)
      PROVE  NothingAdded
  <2> DEFINE updated == SettleInterest(accounts[a], now)
             claimed == Claimable(a)
             after == ClaimJars(updated, claimed)
  <2>1. a \in DOMAIN accounts /\ SetAccount(a, after) /\ now \in Nat
    BY <1>3 DEF ClaimTotal, TypeInv
  <2>2. AccountBy(accounts[a], now)
    BY AccountOrNewType, <2>1
  <2>3. AccountBy(updated, now) /\ SameJars(accounts[a], updated)
    BY <2>1, <2>2, SettleInterestType
  <2>4. AccountBy(after, now) /\ LocksSet(updated, after, claimed, TRUE)
    <3> HIDE DEF updated, claimed
    <3> QED BY <2>3, ClaimJarsType
  <2> HIDE DEF updated, after, claimed
  <2> QED BY <2>1, <2>3, <2>4, LocksNothing
<1> QED BY <1>1, <1>2, <1>3 DEF PayoutCall

\* Jars of a receipt are unlocked, drained and closed.
LEMMA DrainReceipt ==
    ASSUME TypeInv, NEW s \in DOMAIN receipts, receipts[s].kind \in {"withdraw", "restake"},
           HasJars(receipts[s]), NEW r, r = receipts[s], NEW unlocked,
           unlocked = UnlockJars(accounts[r.account], DOMAIN r.jars),
           \/ CanCleanUpJars(accounts[r.account], PartitionOf(r))
           \/ CanCleanUpJars(unlocked, PartitionOf(r))
    PROVE  /\ r.account \in AccountIds /\ AccountOrNew(r.account) = accounts[r.account]
           /\ AccountBy(accounts[r.account], now)
           /\ AccountBy(CleanUpJars(unlocked, PartitionOf(r)), now)
           /\ NoMore(accounts[r.account], CleanUpJars(unlocked, PartitionOf(r)))
<1> DEFINE before == accounts[r.account]
           cleaned == CleanUpJars(unlocked, PartitionOf(r))
<1>1. /\ now \in Nat /\ r.account \in AccountIds /\ AccountOrNew(r.account) = before
      /\ AccountBy(before, now) /\ AccountBy(unlocked, now)
      /\ LocksSet(before, unlocked, DOMAIN r.jars, FALSE)
  BY UnlockedAccountType DEF TypeInv, HasJars, AccountOrNew
<1> HIDE DEF before
<1>2. CanCleanUpJars(unlocked, PartitionOf(r))
  BY <1>1 DEF CanCleanUpJars, CanCleanUp, LocksSet, before
<1>3. \A p \in DOMAIN PartitionOf(r) : PartitionOf(r)[p] \in Nat
  BY PartitionType
<1>4. AccountBy(cleaned, now)
  BY <1>1, <1>2, <1>3, CleanUpJarsType
<1>5. NoMore(before, unlocked) /\ NoMore(unlocked, cleaned)
  BY <1>1, <1>2, <1>3, SameNoMore, DrainNoMore
<1> HIDE DEF cleaned
<1>6. NoMore(before, cleaned)
  BY <1>1, <1>4, <1>5, NoMoreThen
<1> QED BY <1>1, <1>4, <1>6 DEF before, cleaned

\* after_withdraw and after_bulk_withdraw.
LEMMA AfterWithdrawAdds ==
    ASSUME TypeInv, NEW s \in Slots, AfterWithdraw(s)
    PROVE  NothingAdded
<1> DEFINE r == receipts[s]
           unlocked == UnlockJars(accounts[r.account], DOMAIN r.jars)
           cleaned == CleanUpJars(unlocked, PartitionOf(r))
           after == CloseJars(cleaned, DOMAIN r.jars)
<1>1. /\ s \in DOMAIN receipts /\ r.kind = "withdraw" /\ r.status = "succeeded" /\ now \in Nat
      /\ CanFinishWithdrawal(r) /\ SetAccount(r.account, after)
  BY DEF AfterWithdraw, InFlight, TypeInv
<1>2. /\ r.account \in AccountIds /\ AccountOrNew(r.account) = accounts[r.account]
      /\ AccountBy(accounts[r.account], now)
      /\ AccountBy(cleaned, now) /\ NoMore(accounts[r.account], cleaned)
  BY <1>1, DrainReceipt DEF CanFinishWithdrawal
<1>3. AccountBy(after, now) /\ NoMore(cleaned, after)
  <2> HIDE DEF cleaned
  <2> QED BY <1>1, <1>2, CloseJarsType, CloseNoMore
<1> HIDE DEF r, cleaned, after
<1>4. NoMore(accounts[r.account], after)
  BY <1>1, <1>2, <1>3, NoMoreThen
<1> QED BY <1>1, <1>2, <1>3, <1>4, WriteNoMore

\* The other callbacks only unlock, close or roll back.
LEMMA SettledAdds ==
    ASSUME TypeInv, NEW s \in Slots,
           \/ AfterFailedWithdraw(s) \/ AfterFailedTransferRemainder(s)
           \/ AfterClaim(s) \/ AfterFailedClaim(s)
    PROVE  NothingAdded
<1> DEFINE r == receipts[s]
           before == accounts[r.account]
           unlocked == UnlockJars(before, DOMAIN r.jars)
           closed == CloseJars(unlocked, DOMAIN r.jars)
           restored == RestoreAccount(before, r)
<1>1. s \in DOMAIN receipts /\ HasJars(r) /\ now \in Nat
  BY DEF AfterFailedWithdraw, AfterFailedTransferRemainder, AfterClaim, AfterFailedClaim,
         CanFinishWithdrawal, InFlight, TypeInv
<1>2. /\ r.account \in AccountIds /\ AccountOrNew(r.account) = before
      /\ AccountBy(before, now) /\ AccountBy(unlocked, now)
      /\ LocksSet(before, unlocked, DOMAIN r.jars, FALSE)
  BY <1>1, UnlockedAccountType DEF HasJars, AccountOrNew
<1>3. NoMore(before, unlocked)
  <2> HIDE DEF before, unlocked
  <2> QED BY <1>1, <1>2, SameNoMore
<1>4. CASE AfterFailedWithdraw(s) \/ AfterFailedTransferRemainder(s)
  <2>1. SetAccount(r.account, unlocked)
    BY <1>4 DEF AfterFailedWithdraw, AfterFailedTransferRemainder
  <2> HIDE DEF r, before, unlocked
  <2> QED BY <1>2, <1>3, <2>1, WriteNoMore
<1>5. CASE AfterClaim(s)
  <2>1. SetAccount(r.account, closed)
    BY <1>5 DEF AfterClaim
  <2>2. AccountBy(closed, now) /\ NoMore(unlocked, closed)
    <3> HIDE DEF unlocked
    <3> QED BY <1>1, <1>2, CloseJarsType, CloseNoMore
  <2> HIDE DEF r, before, unlocked, closed
  <2>3. NoMore(before, closed)
    BY <1>1, <1>2, <1>3, <2>2, NoMoreThen
  <2> QED BY <1>2, <2>1, <2>2, <2>3, WriteNoMore
<1>6. CASE AfterFailedClaim(s)
  <2>1. SetAccount(r.account, restored) /\ r.kind = "claim"
    BY <1>6 DEF AfterFailedClaim, InFlight
  <2>2. AccountBy(restored, now) /\ LocksSet(before, restored, DOMAIN r.jars, FALSE)
    BY <1>1, <2>1, RestoredAccountType
  <2> HIDE DEF r, before, restored
  <2>3. NoMore(before, restored)
    BY <1>1, <1>2, <2>2, SameNoMore
  <2> QED BY <1>2, <2>1, <2>2, <2>3, WriteNoMore
<1> QED BY <1>4, <1>5, <1>6

\* The oracle and the maintainers.
LEMMA OperatorAdds ==
    ASSUME TypeInv, NEW a \in AccountIds, OperatorCall(a)
    PROVE  NothingAdded
<1>1. now \in Nat /\ AccountBy(AccountOrNew(a), now)
  BY AccountOrNewType DEF TypeInv
<1>2. CASE \/ \E f \in Features, e \in BOOLEAN : SetFeatureEnabled(a, f, e)
           \/ \E tz \in Timezones : SetTimezone(a, tz)
           \/ \E i \in Increments : RecordScore(a, i)
           \/ \E d \in 0 .. 2, v \in Boosters : ApplyBooster(a, d, v)
  <2>1. PICK after : /\ AccountBy(after, now) /\ SetAccount(a, after)
                     /\ SameJars(AccountOrNew(a), after)
    BY <1>2, OracleWrites
  <2>2. NoMore(AccountOrNew(a), after)
    BY <1>1, <2>1, SameNoMore
  <2> QED BY <2>1, <2>2, WriteNoMore
<1>3. ASSUME NEW ps, UnlockJarsForAccount(a, ps)
      PROVE  NothingAdded
  <2> DEFINE after == UnlockJars(accounts[a], ps)
  <2>1. /\ a \in DOMAIN accounts /\ SetAccount(a, after) /\ AccountOrNew(a) = accounts[a]
    BY <1>3 DEF UnlockJarsForAccount, AccountOrNew
  <2>2. AccountBy(after, now) /\ LocksSet(accounts[a], after, ps, FALSE)
    BY <1>1, <2>1, UnlockJarsType
  <2> HIDE DEF after
  <2>3. NoMore(AccountOrNew(a), after)
    BY <1>1, <2>1, <2>2, SameNoMore
  <2> QED BY <2>1, <2>2, <2>3, WriteNoMore
<1>4. \A f \in FeaturesSet : f \in Features
  BY SweatJarAssumption
<1>5. \A e \in BOOLEAN : SetPenalty(a, e) => SetFeatureEnabled(a, "IncreasedApy", ~e)
  BY DEF SetPenalty
<1>6. "IncreasedApy" \in Features /\ \A e \in BOOLEAN : (~e) \in BOOLEAN
  BY DEF Features
<1> QED BY <1>2, <1>3, <1>4, <1>5, <1>6 DEF OperatorCall

\* A step that checks no ticket deposits nothing.
LEMMA WithoutTicketAdds ==
    ASSUME TypeInv, WithoutTicket
    PROVE  NothingAdded
<1>1. CASE UNCHANGED accounts
  BY <1>1, NothingWritten
<1>2. CASE \E s \in Slots : TokenReceipt(s) \/ PayoutReceipt(s)
  <2> PICK s \in Slots : TokenReceipt(s) \/ PayoutReceipt(s)
    BY <1>2
  <2>1. \/ UNCHANGED accounts \/ AfterWithdraw(s)
        \/ AfterFailedWithdraw(s) \/ AfterFailedTransferRemainder(s)
        \/ AfterClaim(s) \/ AfterFailedClaim(s)
    BY DEF TokenReceipt, FtTransferSucceeds, FtTransferFails, RefundStake, PayoutReceipt,
           AfterFeeWithdrawn, AfterFailedFeeWithdrawal, CallbackPanics
  <2> QED BY <1>1, <2>1, AfterWithdrawAdds, SettledAdds
<1>3. CASE \E s \in FreeSlots, a \in AccountIds : PayoutCall(s, a)
  BY <1>3, PayoutCallAdds
<1>4. CASE \E a \in AccountIds : OperatorCall(a)
  BY <1>4, OperatorAdds
<1>5. CASE \/ \E s \in FreeSlots : WithdrawFee(s)
           \/ \E p \in Managed, e \in BOOLEAN : SetEnabled(p, e)
           \/ Tick
  BY <1>1, <1>5 DEF WithdrawFee, SetEnabled, Tick
<1> QED BY <1>2, <1>3, <1>4, <1>5 DEF WithoutTicket

\* ft_on_transfer deposits what was sent.
LEMMA OnStakeAdds ==
    ASSUME TypeInv, NEW s \in Slots, OnStake(s)
    PROVE  AddedTo(receipts[s].account, receipts[s].product, receipts[s].amount)
<1> DEFINE r == receipts[s]
           before == AccountOrNew(r.account)
           found == StakeTarget(r)
           deposited == DepositTo(found, r.product, r.amount, now)
           after == UpdateJarCaches(deposited, {r.product}, now)
<1>1. s \in DOMAIN receipts /\ IsStake(r) /\ now \in Nat /\ SetAccount(r.account, after)
  BY ReceiptKinds DEF OnStake, InFlight, TypeInv
<1>2. r.account \in AccountIds /\ r.product \in ProductIds /\ r.amount \in Nat
  BY <1>1 DEF IsStake
<1>3. AccountBy(before, now) /\ AccountBy(found, now) /\ found.jars = before.jars
  BY <1>1, <1>2, AccountOrNewType, StakeTargetType
<1> HIDE DEF r, before, found
<1>4. /\ AccountBy(deposited, now) /\ NoMore(before, found)
      /\ MoreIn(found, deposited, r.product, r.amount)
  BY <1>1, <1>2, <1>3, DepositToType, DepositMore, SameNoMore
<1> HIDE DEF deposited
<1>5. AccountBy(after, now) /\ NoMore(deposited, after)
  BY <1>1, <1>4, UpdateJarCachesType, SameNoMore
<1> HIDE DEF after
<1>6. MoreIn(before, after, r.product, r.amount)
  BY <1>1, <1>2, <1>3, <1>4, <1>5, MoreThen
<1>7. AddedTo(r.account, r.product, r.amount)
  BY <1>1, <1>2, <1>5, <1>6, WriteMore DEF before
<1> QED BY <1>7 DEF r

\* Deposits that move add to the target.
LEMMA MovedMore ==
    ASSUME NEW t \in Nat, t = now, NEW account, AccountBy(account, t), NEW partition,
           CanCleanUpJars(account, partition),
           \A p \in DOMAIN partition : partition[p] \in Nat,
           NEW target \in ProductIds, NEW amount \in Nat
    PROVE  /\ AccountBy(MoveDeposits(account, partition, target, amount), t)
           /\ MoreIn(account, MoveDeposits(account, partition, target, amount), target, amount)
<1> DEFINE cleaned == CleanUpJars(account, partition)
           after == DepositTo(cleaned, target, amount, now)
<1>1. AccountBy(cleaned, t) /\ NoMore(account, cleaned)
  BY CleanUpJarsType, DrainNoMore
<1> HIDE DEF cleaned
<1>2. AccountBy(after, t) /\ MoreIn(cleaned, after, target, amount)
  BY <1>1, DepositToType, DepositMore
<1> HIDE DEF after
<1>3. NoMore(after, after)
  BY <1>2, SameNoMore
<1>4. MoreIn(account, after, target, amount)
  BY <1>1, <1>2, <1>3, MoreThen
<1> QED BY <1>2, <1>4 DEF MoveDeposits, after, cleaned

\* after_transfer_remainder deposits what was asked for.
LEMMA AfterTransferRemainderAdds ==
    ASSUME TypeInv, NEW s \in Slots, AfterTransferRemainder(s)
    PROVE  AddedTo(receipts[s].account, receipts[s].target, receipts[s].deposit)
<1> DEFINE r == receipts[s]
           before == accounts[r.account]
           unlocked == UnlockJars(before, DOMAIN r.jars)
           after == MoveDeposits(unlocked, PartitionOf(r), r.target, r.deposit)
<1>1. /\ s \in DOMAIN receipts /\ r.kind = "restake" /\ HasJars(r) /\ now \in Nat
      /\ CanCleanUpJars(unlocked, PartitionOf(r)) /\ SetAccount(r.account, after)
  BY DEF AfterTransferRemainder, InFlight, TypeInv
<1>2. IsRestake(r)
  BY <1>1, ReceiptKinds
<1>3. r.target \in ProductIds /\ r.deposit \in Nat
  BY <1>2 DEF IsRestake
<1>4. /\ r.account \in AccountIds /\ AccountOrNew(r.account) = before
      /\ AccountBy(before, now) /\ AccountBy(unlocked, now)
      /\ LocksSet(before, unlocked, DOMAIN r.jars, FALSE)
  BY <1>1, UnlockedAccountType DEF HasJars, AccountOrNew
<1>5. \A p \in DOMAIN PartitionOf(r) : PartitionOf(r)[p] \in Nat
  BY <1>1, PartitionType
<1> HIDE DEF r, before, unlocked
<1>6. /\ AccountBy(after, now) /\ NoMore(before, unlocked)
      /\ MoreIn(unlocked, after, r.target, r.deposit)
  BY <1>1, <1>3, <1>4, <1>5, MovedMore, SameNoMore
<1> HIDE DEF after
<1>7. NoMore(after, after)
  BY <1>1, <1>6, SameNoMore
<1>8. MoreIn(before, after, r.target, r.deposit)
  BY <1>1, <1>3, <1>4, <1>6, <1>7, MoreThen
<1>9. AddedTo(r.account, r.target, r.deposit)
  BY <1>1, <1>3, <1>4, <1>6, <1>8, WriteMore
<1> QED BY <1>9 DEF r

\* What a restake sends when it has a remainder to pay out.
RestakeSent(s, a, target, amount) ==
    \E r : /\ Send(s, r) /\ r.kind = "restake" /\ r.account = a
           /\ r.target = target /\ r.deposit = amount

\* A restake deposits at once, or leaves it to its callback.
LEMMA RestakeFromAdds ==
    ASSUME TypeInv, NEW s \in Slots, NEW a \in AccountIds, a \in DOMAIN accounts,
           NEW ps \in SUBSET DOMAIN JarsOf(a), NEW fee,
           NEW target \in ProductIds, NEW amount \in Amounts, NEW timezone \in Offered,
           RestakeFrom(s, a, ps, fee, target, amount, timezone)
    PROVE  \/ UNCHANGED receipts /\ AddedTo(a, target, amount)
           \/ RestakeSent(s, a, target, amount) /\ NothingAdded
<1> DEFINE updated == UpdateJarCaches(accounts[a], ps, now)
           localised == IF IsScoreBased(TermsOf(target))
                        THEN TrySetTimezone(updated, timezone) ELSE updated
           partition == [p \in ps |-> PartitionIndex(updated.jars[p], TermsOf(p), now)]
           withdrawn == MatureBalance(updated, ps) - amount
           r == [kind |-> "restake", status |-> "sent", account |-> a,
                 amount |-> withdrawn - fee, fee |-> fee,
                 jars |-> [p \in ps |-> [partition_index |-> partition[p]]],
                 target |-> target, deposit |-> amount]
<1>1. /\ AccountBy(accounts[a], now) /\ now \in Nat /\ AccountOrNew(a) = accounts[a]
      /\ amount \in Nat
  BY AccountOrNewType, SweatJarAssumption DEF TypeInv, AccountOrNew
<1>2. AccountBy(updated, now) /\ SameJars(accounts[a], updated)
  BY <1>1, UpdateJarCachesType
<1>3. AccountBy(localised, now) /\ localised.jars = updated.jars
  <2> HIDE DEF updated
  <2>1. CASE IsScoreBased(TermsOf(target))
    BY <1>1, <1>2, <2>1, TrySetTimezoneType DEF Offered
  <2>2. CASE ~IsScoreBased(TermsOf(target))
    BY <1>2, <2>2
  <2> QED BY <2>1, <2>2
<1>4. SameJars(accounts[a], localised)
  <2> HIDE DEF updated, localised
  <2> QED BY <1>2, <1>3 DEF SameJars
<1>5. CASE withdrawn = 0 /\ UNCHANGED receipts
             /\ SetAccount(a, MoveDeposits(localised, partition, target, amount))
  <2> DEFINE after == MoveDeposits(localised, partition, target, amount)
  <2>1. /\ ps \subseteq DOMAIN updated.jars
        /\ \A p \in ps : partition[p] \in 0 .. Len(updated.jars[p].deposits)
                          /\ Len(updated.jars[p].deposits) \in Nat
    <3> HIDE DEF updated
    <3>1. ps \subseteq DOMAIN updated.jars
      BY <1>2 DEF SameJars, JarsOf
    <3>2. ASSUME NEW p \in ps
          PROVE  /\ partition[p] \in 0 .. Len(updated.jars[p].deposits)
                 /\ Len(updated.jars[p].deposits) \in Nat
      <4>1. updated.jars[p] \in JarBy(now)
        BY <1>2, <3>1 DEF AccountBy, JarsBy
      <4> QED BY <1>1, <4>1, PartitionIndexType, DepositsNat
    <3> QED BY <3>1, <3>2
  <2>2. CanCleanUpJars(localised, partition) /\ \A p \in DOMAIN partition : partition[p] \in Nat
    <3> HIDE DEF updated, localised
    <3> QED BY <1>3, <2>1 DEF CanCleanUpJars, CanCleanUp
  <2>3. AccountBy(after, now) /\ MoreIn(localised, after, target, amount)
    <3> HIDE DEF localised, partition
    <3> QED BY <1>1, <1>3, <2>2, MovedMore
  <2>4. SetAccount(a, after)
    BY <1>5
  <2> HIDE DEF after, localised
  <2>5. NoMore(accounts[a], localised) /\ NoMore(after, after)
    BY <1>1, <1>4, <2>3, SameNoMore
  <2>6. MoreIn(accounts[a], after, target, amount)
    BY <1>1, <1>3, <2>3, <2>5, MoreThen
  <2> QED BY <1>1, <1>5, <2>3, <2>4, <2>6, WriteMore
<1>6. CASE SetAccount(a, LockJars(localised, ps)) /\ Send(s, r)
  <2> DEFINE after == LockJars(localised, ps)
  <2>1. AccountBy(after, now) /\ LocksSet(localised, after, ps, TRUE)
    <3> HIDE DEF localised
    <3> QED BY <1>1, <1>3, LockJarsType
  <2>2. SetAccount(a, after) /\ RestakeSent(s, a, target, amount)
    BY <1>6 DEF RestakeSent
  <2> HIDE DEF r, localised, after
  <2> QED BY <1>3, <1>4, <2>1, <2>2, LocksNothing
<1> QED BY <1>5, <1>6 DEF RestakeFrom

\* restake and restake_all.
LEMMA RestakeAdds ==
    ASSUME TypeInv, NEW s \in Slots, NEW a \in AccountIds,
           NEW target \in ProductIds, NEW amount \in Amounts, NEW timezone \in Offered,
           \/ \E from \in ProductIds : Restake(s, a, from, target, amount, timezone)
           \/ RestakeAll(s, a, target, amount, timezone)
    PROVE  \/ UNCHANGED receipts /\ AddedTo(a, target, amount)
           \/ RestakeSent(s, a, target, amount) /\ NothingAdded
<1>1. /\ a \in DOMAIN accounts
      /\ \E ps \in SUBSET Unlocked(a) : \E fee :
            RestakeFrom(s, a, ps, fee, target, amount, timezone)
  BY RestakesFrom
<1>2. PICK ps \in SUBSET Unlocked(a) : \E fee :
            RestakeFrom(s, a, ps, fee, target, amount, timezone)
  BY <1>1
<1>3. PICK fee : RestakeFrom(s, a, ps, fee, target, amount, timezone)
  BY <1>2
<1>4. ps \in SUBSET DOMAIN JarsOf(a)
  BY DEF Unlocked
<1> QED BY <1>1, <1>3, <1>4, RestakeFromAdds

-----------------------------------------------------------------------------
(* Tickets on their way.                                                   *)

\* A receipt that goes on, for the same account and product, with its ticket.
SameBusiness(r, q) ==
    /\ q.kind = r.kind /\ q.account = r.account
    /\ r.kind = "stake" => q.product = r.product
    /\ r.kind = "restake" => q.target = r.target /\ q.deposit = r.deposit

Continues(x) ==
    /\ x \in DOMAIN receipts /\ Carries(receipts[x])
    /\ SameBusiness(receipts[x], receipts'[x])

NothingSent == \A x \in DOMAIN receipts' : Carries(receipts'[x]) => Continues(x)

KeepsTicket(x) == x \in DOMAIN tickets' /\ tickets'[x] = tickets[x]

\* The receipts that carry a ticket after a step, but for those in X.
CarriedOff(X) ==
    \A x \in DOMAIN receipts' \ X :
        Carries(receipts'[x]) => Continues(x) /\ KeepsTicket(x)

KeysGrow == DOMAIN public_keys \subseteq DOMAIN public_keys'

\* A receipt keeps its account.
LEMMA CarrierType ==
    ASSUME TypeInv, NEW s \in DOMAIN receipts, Carries(receipts[s])
    PROVE  /\ s \in Slots /\ receipts[s].account \in AccountIds
           /\ receipts[s].kind = "stake" => IsStake(receipts[s])
           /\ receipts[s].kind = "restake" => IsRestake(receipts[s])
<1>1. /\ s \in Slots
      /\ receipts[s].kind = "stake" => IsStake(receipts[s])
      /\ receipts[s].kind = "restake" => IsRestake(receipts[s])
  BY ReceiptKinds
<1>2. receipts[s].kind \in {"stake", "restake"}
  BY DEF Carries
<1> QED BY <1>1, <1>2 DEF IsStake, IsRestake

\* What fits goes on fitting when keys are added and nonces are spent.
LEMMA FitsLater ==
    ASSUME NEW r, r.account \in AccountIds, NEW q, SameBusiness(r, q), NEW ticket,
           NEW keys, NEW more, keys \subseteq more,
           NEW n \in [AccountIds -> Nat], NEW m \in [AccountIds -> Nat],
           \A a \in AccountIds : n[a] <= m[a], TicketFits(r, ticket, keys, n)
    PROVE  TicketFits(q, ticket, more, m)
<1>1. ASSUME q.kind = "stake" PROVE StakeCarries(q, ticket, more)
  BY <1>1 DEF TicketFits, StakeCarries, SameBusiness
<1>2. ASSUME q.kind = "restake" PROVE RestakeCarries(q, ticket, m)
  <2>1. RestakeCarries(r, ticket, n) /\ q.account = r.account /\ q.target = r.target
        /\ q.deposit = r.deposit
    BY <1>2 DEF TicketFits, SameBusiness
  <2>2. ASSUME ticket \in Ticket, ticket.nonce <= n[r.account]
        PROVE  ticket.nonce <= m[r.account]
    <3>1. ticket.nonce \in Nat /\ n[r.account] \in Nat /\ m[r.account] \in Nat
      BY <2>2 DEF Ticket
    <3>2. n[r.account] <= m[r.account]
      OBVIOUS
    <3> QED BY <2>2, <3>1, <3>2
  <2> QED BY <2>1, <2>2 DEF RestakeCarries
<1> QED BY <1>1, <1>2 DEF TicketFits

\* The tickets on their way fit afterwards, but perhaps that of a new receipt.
LEMMA CarriedNext ==
    ASSUME TicketInv, KeysKnown', KeysGrow, \A a \in AccountIds : nonces[a] <= nonces'[a],
           NEW X, CarriedOff(X),
           \A x \in X : x \in DOMAIN receipts' /\ Carries(receipts'[x]) =>
                /\ x \in DOMAIN tickets'
                /\ TicketFits(receipts'[x], tickets'[x], DOMAIN public_keys', nonces')
    PROVE  TicketsCarried'
<1> SUFFICES ASSUME NEW x \in DOMAIN receipts', Carries(receipts'[x])
             PROVE  /\ x \in DOMAIN tickets'
                    /\ TicketFits(receipts'[x], tickets'[x], DOMAIN public_keys', nonces')
  BY DEF TicketsCarried
<1>1. CASE x \in X
  BY <1>1
<1>2. CASE x \notin X
  <2>1. Continues(x) /\ KeepsTicket(x)
    BY <1>2 DEF CarriedOff
  <2>2. TicketFits(receipts[x], tickets[x], DOMAIN public_keys, nonces)
    BY <2>1 DEF TicketInv, TicketsCarried, Continues
  <2>3. receipts[x].account \in AccountIds /\ SameBusiness(receipts[x], receipts'[x])
    BY <2>1, CarrierType DEF TicketInv, Continues
  <2>4. nonces \in [AccountIds -> Nat] /\ nonces' \in [AccountIds -> Nat]
    BY DEF TicketInv, KeysKnown
  <2>5. TicketFits(receipts'[x], tickets[x], DOMAIN public_keys', nonces')
    BY <2>2, <2>3, <2>4, FitsLater DEF KeysGrow
  <2> QED BY <2>1, <2>5 DEF KeepsTicket
<1> QED BY <1>1, <1>2

-----------------------------------------------------------------------------
(* What a ticket covers.                                                   *)

\* The weight of the tickets of an account and a product.
LEMMA WeightNat ==
    ASSUME UsedTickets(used, nonces), NEW a, NEW p
    PROVE  /\ IsFiniteSet(SignedFor(used, a, p))
           /\ Weight(used, a, p) \in Nat
<1> DEFINE S == SignedFor(used, a, p)
           f == [t \in S |-> used[t] * t.amount]
<1>1. IsFiniteSet(S)
  BY FS_Subset DEF UsedTickets, SignedFor
<1>2. \A t \in S : used[t] \in Nat /\ t.amount \in Nat
  BY DEF UsedTickets, SignedFor, IsMap, Ticket
<1>3. \A t \in S : f[t] \in Nat
  BY <1>2, TimesNat
<1> HIDE DEF S, f
<1>4. SumFunctionOnSet(f, S) \in Nat
  BY <1>1, <1>3, SumNat
<1> QED BY <1>1, <1>4 DEF Weight, S, f

\* A ticket that takes effect adds its amount, and is outdated from then on.
LEMMA EffectWeight ==
    ASSUME UsedTickets(used, nonces), DepositOnce(used), nonces \in [AccountIds -> Nat],
           NEW ticket \in Ticket, ticket.nonce <= nonces[ticket.account],
           ticket.purpose = "deposit" => ticket.nonce = nonces[ticket.account],
           SpendNonce(ticket.account), TakesEffect(ticket)
    PROVE  /\ UsedTickets(used', nonces') /\ DepositOnce(used')
           /\ DOMAIN used' = DOMAIN used \cup {ticket}
           /\ used'[ticket] = Uses(ticket) + 1
           /\ \A t \in DOMAIN used \ {ticket} : used'[t] = used[t]
           /\ \A a, p : Weight(used', a, p) = Weight(used, a, p)
                + (IF a = ticket.account /\ p = ticket.product THEN ticket.amount ELSE 0)
<1> DEFINE more == used'
<1>1. ticket # Unsigned
  BY DEF Ticket, Unsigned, Purposes
<1>2. more = Put(used, ticket, Uses(ticket) + 1)
  BY <1>1 DEF TakesEffect
<1>3. /\ IsMap(more, Ticket) /\ DOMAIN more = DOMAIN used \cup {ticket}
      /\ \A t \in DOMAIN used \cup {ticket} :
            more[t] = IF t = ticket THEN Uses(ticket) + 1 ELSE used[t]
  <2> DEFINE v == Uses(ticket) + 1
  <2>1. IsMap(used, Ticket) /\ more = Put(used, ticket, v)
    BY <1>2 DEF UsedTickets
  <2> HIDE DEF v, more
  <2>2. /\ IsMap(Put(used, ticket, v), Ticket)
        /\ DOMAIN Put(used, ticket, v) = DOMAIN used \cup {ticket}
        /\ \A t \in DOMAIN used \cup {ticket} :
                Put(used, ticket, v)[t] = IF t = ticket THEN v ELSE used[t]
    BY <2>1 DEF IsMap, Put
  <2>3. /\ IsMap(more, Ticket) /\ DOMAIN more = DOMAIN used \cup {ticket}
        /\ \A t \in DOMAIN used \cup {ticket} : more[t] = IF t = ticket THEN v ELSE used[t]
    BY <2>1, <2>2
  <2> QED BY <2>3 DEF v
<1>4. Uses(ticket) \in Nat
  BY DEF Uses, UsedTickets
<1>5. ticket.account \in AccountIds /\ ticket.amount \in Nat /\ ticket.nonce \in Nat
  BY DEF Ticket
<1>6. \A a \in AccountIds : /\ nonces[a] \in Nat
                            /\ nonces'[a] = IF a = ticket.account THEN nonces[a] + 1 ELSE nonces[a]
  BY <1>5 DEF SpendNonce
<1>7. \A t \in DOMAIN used : t.account \in AccountIds /\ t.nonce \in Nat
  BY DEF UsedTickets, IsMap, Ticket
<1>8. IsFiniteSet(DOMAIN more)
  <2>1. IsFiniteSet(DOMAIN used)
    BY DEF UsedTickets
  <2> QED BY <1>3, <2>1, FS_AddElement
<1> HIDE DEF more
<1>9. ASSUME NEW t \in DOMAIN more
      PROVE  more[t] \in Nat /\ t.nonce < nonces'[t.account]
  <2>1. CASE t = ticket
    BY <1>3, <1>4, <1>5, <1>6, <2>1
  <2>2. CASE t # ticket
    <3>1. t \in DOMAIN used /\ more[t] = used[t] /\ used[t] \in Nat
          /\ t.nonce < nonces[t.account]
      BY <1>3, <2>2 DEF UsedTickets
    <3>2. nonces[t.account] <= nonces'[t.account] /\ nonces'[t.account] \in Nat
      BY <1>6, <1>7, <3>1
    <3> QED BY <1>6, <1>7, <3>1, <3>2
  <2> QED BY <2>1, <2>2
<1>10. UsedTickets(more, nonces')
  BY <1>3, <1>8, <1>9 DEF UsedTickets
<1>11. DepositOnce(more)
  <2> SUFFICES ASSUME NEW t \in DOMAIN more, t.purpose = "deposit" PROVE more[t] <= 1
    BY DEF DepositOnce
  <2>1. CASE t = ticket
    <3>1. ticket \notin DOMAIN used
      <4>1. ticket.nonce = nonces[ticket.account]
        BY <2>1
      <4>2. ticket \in DOMAIN used => ticket.nonce < nonces[ticket.account]
        BY DEF UsedTickets
      <4> QED BY <1>5, <1>6, <4>1, <4>2
    <3> QED BY <1>3, <2>1, <3>1 DEF Uses
  <2>2. CASE t # ticket
    BY <1>3, <2>2 DEF DepositOnce
  <2> QED BY <2>1, <2>2
<1>12. ASSUME NEW a, NEW p
       PROVE  Weight(more, a, p) = Weight(used, a, p)
                + (IF a = ticket.account /\ p = ticket.product THEN ticket.amount ELSE 0)
  <2> DEFINE S == SignedFor(used, a, p)
             R == SignedFor(more, a, p)
             f == [t \in S |-> used[t] * t.amount]
             g == [t \in R |-> more[t] * t.amount]
             n == ticket.amount
             u == Uses(ticket)
  <2>1. IsFiniteSet(S) /\ SumFunctionOnSet(f, S) \in Nat
    BY WeightNat DEF Weight
  <2>2. \A t \in S : used[t] \in Nat /\ t.amount \in Nat
    BY DEF UsedTickets, SignedFor, IsMap, Ticket
  <2>3. \A t \in R : more[t] \in Nat /\ t.amount \in Nat
    BY <1>9, <1>10 DEF UsedTickets, SignedFor, IsMap, Ticket
  <2>4. (\A t \in S : f[t] \in Int) /\ (\A t \in R : g[t] \in Int)
    BY <2>2, <2>3, TimesNat
  <2>5. S \ {ticket} = R \ {ticket} /\ \A t \in S \ {ticket} : used[t] = more[t]
    BY <1>3 DEF SignedFor
  <2>6. \A t \in S \ {ticket} : f[t] = g[t]
    BY <2>5
  <2>7. Weight(used, a, p) = SumFunctionOnSet(f, S) /\ Weight(more, a, p) = SumFunctionOnSet(g, R)
    BY DEF Weight
  <2>8. ticket \in R <=> (a = ticket.account /\ p = ticket.product)
    BY <1>3 DEF SignedFor
  <2>9. ticket \in S <=> ticket \in R /\ ticket \in DOMAIN used
    BY <1>3 DEF SignedFor
  <2>10. ticket \in S => f[ticket] = u * n
    BY <2>9 DEF Uses, SignedFor
  <2>11. ticket \in R /\ ticket \notin S => u = 0
    BY <2>9 DEF Uses
  <2>12. ticket \in R => g[ticket] = (u + 1) * n
    BY <1>3
  <2>13. u \in Nat /\ n \in Nat /\ u * n \in Nat
    BY <1>4, <1>5, TimesNat
  <2>14. (u + 1) * n = u * n + n /\ (u = 0 => u * n = 0)
    <3> HIDE DEF u, n
    <3> QED BY <2>13
  <2> HIDE DEF S, R, f, g
  <2>15. SumFunctionOnSet(g, R) = SumFunctionOnSet(f, S)
            - (IF ticket \in S THEN f[ticket] ELSE 0)
            + (IF ticket \in R THEN g[ticket] ELSE 0)
    BY <2>1, <2>4, <2>5, <2>6, SumChange
  <2> DEFINE F == SumFunctionOnSet(f, S)
             G == SumFunctionOnSet(g, R)
             k == u * n
  <2>16. CASE ticket \in R
    <3>1. G = F - (IF ticket \in S THEN k ELSE 0) + (k + n)
      BY <2>10, <2>12, <2>14, <2>15, <2>16
    <3>2. F \in Nat /\ k \in Nat /\ n \in Nat /\ (ticket \notin S => k = 0)
      BY <2>1, <2>11, <2>13, <2>14, <2>16
    <3> HIDE DEF F, G, k, n
    <3>3. G = F + n
      BY <3>1, <3>2
    <3> QED BY <2>7, <2>8, <2>16, <3>3 DEF F, G, n
  <2>17. CASE ticket \notin R
    <3>1. G = F - 0 + 0 /\ F \in Nat
      BY <2>1, <2>9, <2>15, <2>17
    <3> HIDE DEF F, G
    <3>2. G = F + 0
      BY <3>1
    <3> QED BY <2>7, <2>8, <2>17, <3>2 DEF F, G
  <2> QED BY <2>16, <2>17
<1> QED BY <1>3, <1>10, <1>11, <1>12 DEF more

\* What accounts hold, and a ticket's worth, in the next state.
LEMMA StoredNext ==
    ASSUME TypeInv', NEW a, NEW p
    PROVE  Stored(accounts', a, p) \in Nat
<1>1. now' \in Nat /\ AccountsBy(accounts', now')
  BY DEF TypeInv
<1>2. a \in DOMAIN accounts' => AccountBy(accounts'[a], now')
  BY <1>1 DEF AccountsBy
<1> QED BY <1>1, <1>2, PrincipalInNat DEF Stored

-----------------------------------------------------------------------------
(* The two kinds of step: one that uses no ticket, and one that uses one.  *)

\* A step that deposits nothing and uses no ticket.
LEMMA QuietInv ==
    ASSUME TicketInv, TypeInv', NothingAdded, UNCHANGED <<nonces, used>>, KeysGrow,
           TicketsCarried'
    PROVE  TicketInv'
<1>1. KeysKnown'
  BY DEF TicketInv, KeysKnown, KeysGrow
<1>2. UsedTickets(used', nonces') /\ DepositOnce(used')
  BY DEF TicketInv
<1>3. Covered'
  <2> SUFFICES ASSUME NEW a \in AccountIds, NEW p \in DOMAIN InitialKeys
               PROVE  Stored(accounts', a, p) <= Weight(used, a, p)
    BY DEF Covered
  <2>1. p \in ProductIds
    BY TicketsAssumption DEF IsMap
  <2>2. Stored(accounts', a, p) <= Stored(accounts, a, p)
        /\ Stored(accounts, a, p) <= Weight(used, a, p)
    BY <2>1 DEF NothingAdded, TicketInv, Covered
  <2>3. /\ Stored(accounts', a, p) \in Nat /\ Stored(accounts, a, p) \in Nat
        /\ Weight(used, a, p) \in Nat
    BY StoredNext, StoredNat, WeightNat DEF TicketInv
  <2> QED BY <2>2, <2>3
<1> QED BY <1>1, <1>2, <1>3 DEF TicketInv

\* What pays for a deposit of x into the product p of account a: no ticket
\* is wanted, or a ticket that says so.
Pays(ticket, a, p, x) ==
    \/ ticket = Unsigned /\ p \notin DOMAIN InitialKeys
    \/ /\ ticket \in Ticket
       /\ ticket.account = a /\ ticket.product = p /\ ticket.amount = x
       /\ ticket.nonce <= nonces[a]
       /\ ticket.purpose = "deposit" => ticket.nonce = nonces[a]

\* A deposit is paid for and uses its ticket.
LEMMA EffectInv ==
    ASSUME TicketInv, TypeInv', UNCHANGED public_keys, CarriedOff({}),
           NEW a \in AccountIds, NEW p \in ProductIds, NEW x \in Nat, AddedTo(a, p, x),
           SpendNonce(a), NEW ticket, TakesEffect(ticket), Pays(ticket, a, p, x)
    PROVE  TicketInv'
<1>1. nonces \in [AccountIds -> Nat]
  BY DEF TicketInv, KeysKnown
<1>2. /\ nonces' \in [AccountIds -> Nat]
      /\ \A b \in AccountIds : nonces[b] \in Nat /\ nonces[b] <= nonces'[b]
  BY <1>1 DEF SpendNonce
<1>3. KeysKnown' /\ KeysGrow
  BY <1>2 DEF TicketInv, KeysKnown, KeysGrow
<1>4. TicketsCarried'
  BY <1>2, <1>3, CarriedNext
<1>5. CASE ticket = Unsigned /\ p \notin DOMAIN InitialKeys
  <2>1. used' = used
    BY <1>5 DEF TakesEffect
  <2>2. UsedTickets(used, nonces')
    <3> SUFFICES ASSUME NEW t \in DOMAIN used PROVE t.nonce < nonces'[t.account]
      BY DEF TicketInv, UsedTickets
    <3>1. t.nonce < nonces[t.account] /\ t.nonce \in Nat /\ t.account \in AccountIds
      BY DEF TicketInv, UsedTickets, IsMap, Ticket
    <3>2. /\ nonces[t.account] \in Nat /\ nonces'[t.account] \in Nat
          /\ nonces[t.account] <= nonces'[t.account]
      BY <1>2, <3>1
    <3> QED BY <3>1, <3>2
  <2>3. Covered'
    <3> SUFFICES ASSUME NEW b \in AccountIds, NEW q \in DOMAIN InitialKeys
                 PROVE  Stored(accounts', b, q) <= Weight(used, b, q)
      BY <2>1 DEF Covered
    <3>1. q \in ProductIds /\ q # p
      BY <1>5, TicketsAssumption DEF IsMap
    <3>2. Stored(accounts', b, q) <= Stored(accounts, b, q) + 0
          /\ Stored(accounts, b, q) <= Weight(used, b, q)
      BY <3>1 DEF AddedTo, TicketInv, Covered
    <3>3. /\ Stored(accounts', b, q) \in Nat /\ Stored(accounts, b, q) \in Nat
          /\ Weight(used, b, q) \in Nat
      BY StoredNext, StoredNat, WeightNat DEF TicketInv
    <3> QED BY <3>2, <3>3
  <2> QED BY <1>3, <1>4, <2>1, <2>2, <2>3 DEF TicketInv
<1>6. CASE /\ ticket \in Ticket
           /\ ticket.account = a /\ ticket.product = p /\ ticket.amount = x
           /\ ticket.nonce <= nonces[a]
           /\ ticket.purpose = "deposit" => ticket.nonce = nonces[a]
  <2>1. /\ UsedTickets(used', nonces') /\ DepositOnce(used')
        /\ \A b, q : Weight(used', b, q)
                = Weight(used, b, q) + (IF b = a /\ q = p THEN x ELSE 0)
    <3>1. SpendNonce(ticket.account)
      BY <1>6
    <3>2. ticket.nonce <= nonces[ticket.account]
          /\ (ticket.purpose = "deposit" => ticket.nonce = nonces[ticket.account])
      BY <1>6
    <3>3. UsedTickets(used, nonces) /\ DepositOnce(used)
      BY DEF TicketInv
    <3>4. /\ UsedTickets(used', nonces') /\ DepositOnce(used')
          /\ \A b, q : Weight(used', b, q) = Weight(used, b, q)
                + (IF b = ticket.account /\ q = ticket.product THEN ticket.amount ELSE 0)
      BY <1>1, <1>6, <3>1, <3>2, <3>3, EffectWeight
    <3> QED BY <1>6, <3>4
  <2>2. Covered'
    <3> SUFFICES ASSUME NEW b \in AccountIds, NEW q \in DOMAIN InitialKeys
                 PROVE  Stored(accounts', b, q) <= Weight(used', b, q)
      BY DEF Covered
    <3> DEFINE old == Stored(accounts, b, q)
               new == Stored(accounts', b, q)
               was == Weight(used, b, q)
               is == Weight(used', b, q)
               n == IF b = a /\ q = p THEN x ELSE 0
    <3>1. q \in ProductIds
      BY TicketsAssumption DEF IsMap
    <3>2. new <= old + n /\ old <= was /\ is = was + n
      BY <2>1, <3>1 DEF AddedTo, TicketInv, Covered
    <3>3. new \in Nat /\ old \in Nat /\ was \in Nat /\ n \in Nat
      BY StoredNext, StoredNat, WeightNat DEF TicketInv
    <3> HIDE DEF old, new, was, is, n
    <3>4. new <= is
      BY <3>2, <3>3
    <3> QED BY <3>4 DEF new, is
  <2> QED BY <1>3, <1>4, <2>1, <2>2 DEF TicketInv
<1> QED BY <1>5, <1>6 DEF Pays

-----------------------------------------------------------------------------
(* Every action.                                                            *)

\* It holds initially.
LEMMA TicketInvInit == TicketsInit => TicketInv
<1> SUFFICES ASSUME TicketsInit PROVE TicketInv
  OBVIOUS
<1>1. TypeInv
  BY TypeInvInit DEF TicketsInit
<1>2. KeysKnown
  BY DEF TicketsInit, KeysKnown
<1>3. DOMAIN EmptyMap = {} /\ IsMap(EmptyMap, Ticket)
  BY DEF EmptyMap, IsMap
<1>4. TicketsCarried
  BY <1>3 DEF TicketsInit, Init, TicketsCarried
<1>5. UsedTickets(used, nonces) /\ DepositOnce(used)
  BY <1>3, FS_EmptySet DEF TicketsInit, UsedTickets, DepositOnce
<1>6. Covered
  <2> SUFFICES ASSUME NEW a \in AccountIds, NEW p \in DOMAIN InitialKeys
               PROVE  Stored(accounts, a, p) <= Weight(used, a, p)
    BY DEF Covered
  <2>1. Stored(accounts, a, p) = 0
    BY <1>3 DEF TicketsInit, Init, Stored
  <2>2. Weight(used, a, p) \in Nat
    BY <1>5, WeightNat
  <2> QED BY <2>1, <2>2
<1> QED BY <1>1, <1>2, <1>4, <1>5, <1>6 DEF TicketInv

\* A receipt that is consumed or answered sends no ticket.
LEMMA ConsumeSends ==
    ASSUME TypeInv, NEW s, Consume(s)
    PROVE  NothingSent /\ s \notin DOMAIN receipts'
<1>1. /\ DOMAIN receipts' = DOMAIN receipts \ {s}
      /\ \A x \in DOMAIN receipts \ {s} : receipts'[x] = receipts[x]
  BY ConsumeType
<1> QED BY <1>1 DEF NothingSent, Continues, SameBusiness

\* An answered receipt goes on, but for a stake, whose ticket is spent.
LEMMA AnswerSends ==
    ASSUME TypeInv, NEW s \in DOMAIN receipts, NEW status \in {"succeeded", "failed"},
           receipts[s].kind = "stake" => status = "failed",
           receipts' = [receipts EXCEPT ![s].status = status]
    PROVE  /\ NothingSent
           /\ receipts[s].kind = "stake" => ~Carries(receipts'[s])
<1>1. /\ DOMAIN receipts' = DOMAIN receipts
      /\ \A x \in DOMAIN receipts : receipts'[x] =
            IF x = s THEN [receipts[s] EXCEPT !.status = status] ELSE receipts[x]
  BY AnswerType
<1>2. receipts[s].kind = "stake" => ~Carries(receipts'[s])
  BY <1>1, ReceiptKinds DEF IsStake, Carries
<1>3. ASSUME NEW x \in DOMAIN receipts', Carries(receipts'[x])
      PROVE  Continues(x)
  <2>1. CASE x # s
    BY <1>1, <1>3, <2>1 DEF Continues, SameBusiness
  <2>2. CASE x = s
    <3>1. receipts'[s].kind = receipts[s].kind
      BY <1>1, ReceiptKinds DEF IsStake, IsWithdrawal, IsClaim, IsRestake, IsFee
    <3>2. receipts[s].kind = "restake"
      BY <1>2, <1>3, <2>2, <3>1 DEF Carries
    <3>3. IsRestake(receipts[s])
      BY <3>2, ReceiptKinds
    <3>4. SameBusiness(receipts[s], receipts'[s])
      BY <1>1, <3>2, <3>3 DEF IsRestake, SameBusiness
    <3> QED BY <2>2, <3>2, <3>4 DEF Continues, Carries
  <2> QED BY <2>1, <2>2
<1> QED BY <1>2, <1>3 DEF NothingSent

\* Neither does one that carries none.
LEMMA SendPlain ==
    ASSUME TypeInv, NEW s, NEW r, Send(s, r), ~Carries(r)
    PROVE  NothingSent
<1>1. /\ DOMAIN receipts' = DOMAIN receipts \cup {s}
      /\ \A x \in DOMAIN receipts \cup {s} : receipts'[x] = IF x = s THEN r ELSE receipts[x]
  BY DEF Send, Put
<1> QED BY <1>1 DEF NothingSent, Continues, SameBusiness

\* A step that checks no ticket sends none.
LEMMA WithoutTicketSends ==
    ASSUME TypeInv, WithoutTicket
    PROVE  NothingSent
<1>1. CASE UNCHANGED receipts
  BY <1>1 DEF NothingSent, Continues, SameBusiness
<1>2. ASSUME NEW s \in Slots, TokenReceipt(s) \/ PayoutReceipt(s)
      PROVE  NothingSent
  <2>1. CASE FtTransferSucceeds(s)
    BY <2>1, AnswerSends DEF FtTransferSucceeds
  <2>2. CASE FtTransferFails(s)
    BY <2>2, AnswerSends DEF FtTransferFails
  <2>3. CASE RefundStake(s) \/ PayoutReceipt(s)
    <3>1. Consume(s)
      BY <2>3 DEF RefundStake, PayoutReceipt, AfterWithdraw, AfterFailedWithdraw, AfterClaim,
            AfterFailedClaim, AfterFailedTransferRemainder, AfterFeeWithdrawn,
            AfterFailedFeeWithdrawal, CallbackPanics
    <3> QED BY <3>1, ConsumeSends
  <2> QED BY <1>2, <2>1, <2>2, <2>3 DEF TokenReceipt
<1>3. ASSUME NEW s \in FreeSlots, NEW a \in AccountIds, PayoutCall(s, a)
      PROVE  NothingSent
  <2>1. UNCHANGED receipts \/ \E r : Send(s, r) /\ r.kind \in {"withdraw", "claim"}
    <3>1. ASSUME NEW p \in ProductIds, Withdraw(s, a, p)
          PROVE  \E r : Send(s, r) /\ r.kind \in {"withdraw", "claim"}
      BY <3>1 DEF Withdraw, SendWithdrawal
    <3>2. ASSUME NEW ps \in SUBSET ProductIds, WithdrawAll(s, a, ps)
          PROVE  UNCHANGED receipts \/ \E r : Send(s, r) /\ r.kind \in {"withdraw", "claim"}
      BY <3>2 DEF WithdrawAll, SendWithdrawal
    <3>3. ASSUME ClaimTotal(s, a)
          PROVE  UNCHANGED receipts \/ \E r : Send(s, r) /\ r.kind \in {"withdraw", "claim"}
      BY <3>3 DEF ClaimTotal
    <3> QED BY <1>3, <3>1, <3>2, <3>3 DEF PayoutCall
  <2>2. ASSUME NEW r, Send(s, r), r.kind \in {"withdraw", "claim"}
        PROVE  NothingSent
    BY <2>2, SendPlain DEF Carries
  <2> QED BY <1>1, <2>1, <2>2
<1>4. ASSUME NEW s \in FreeSlots, WithdrawFee(s)
      PROVE  NothingSent
  <2>1. \E r : Send(s, r) /\ r.kind = "fee"
    BY <1>4 DEF WithdrawFee
  <2>2. ASSUME NEW r, Send(s, r), r.kind = "fee"
        PROVE  NothingSent
    BY <2>2, SendPlain DEF Carries
  <2> QED BY <2>1, <2>2
<1>5. CASE \E a \in AccountIds : OperatorCall(a)
  BY <1>1, <1>5 DEF OperatorCall, SetPenalty, SetFeatureEnabled, SetTimezone, RecordScore,
        ApplyBooster, UnlockJarsForAccount
<1>6. CASE Tick \/ \E p \in Managed, e \in BOOLEAN : SetEnabled(p, e)
  BY <1>1, <1>6 DEF Tick, SetEnabled
<1> QED BY <1>2, <1>3, <1>4, <1>5, <1>6 DEF WithoutTicket

-----------------------------------------------------------------------------
(* Where the tickets go.                                                    *)

\* A ticket stays with its receipt.
LEMMA TicketsKept ==
    ASSUME TicketInv, NothingSent, NEW T,
           tickets' = Restrict(tickets, T),
           \A x \in DOMAIN receipts' : Carries(receipts'[x]) /\ x \in DOMAIN tickets => x \in T
    PROVE  CarriedOff({})
<1> SUFFICES ASSUME NEW x \in DOMAIN receipts', Carries(receipts'[x])
             PROVE  Continues(x) /\ KeepsTicket(x)
  BY DEF CarriedOff
<1>1. Continues(x)
  BY DEF NothingSent
<1>2. x \in DOMAIN tickets
  BY <1>1 DEF Continues, TicketInv, TicketsCarried
<1>3. x \in T
  BY <1>2
<1>4. KeepsTicket(x)
  BY <1>3 DEF KeepsTicket, Restrict
<1> QED BY <1>1, <1>4

\* The ticket of a receipt that is done is dropped.
LEMMA TicketDropped ==
    ASSUME TicketInv, NothingSent, NEW s, tickets' = Drop(tickets, {s}),
           s \in DOMAIN receipts' => ~Carries(receipts'[s])
    PROVE  CarriedOff({})
<1>1. tickets' = Restrict(tickets, DOMAIN tickets \ {s})
  BY DEF Drop
<1>2. \A x \in DOMAIN receipts' :
        Carries(receipts'[x]) /\ x \in DOMAIN tickets => x \in DOMAIN tickets \ {s}
  OBVIOUS
<1> QED BY <1>1, <1>2, TicketsKept

\* A new receipt takes its ticket along.
LEMMA TicketAdded ==
    ASSUME TicketInv, NEW s, NEW r, Send(s, r), NEW ticket, tickets' = Put(tickets, s, ticket)
    PROVE  /\ CarriedOff({s}) /\ receipts'[s] = r
           /\ DOMAIN receipts' = DOMAIN receipts \cup {s}
           /\ s \in DOMAIN tickets' /\ tickets'[s] = ticket
<1>1. /\ DOMAIN receipts' = DOMAIN receipts \cup {s}
      /\ \A x \in DOMAIN receipts \cup {s} : receipts'[x] = IF x = s THEN r ELSE receipts[x]
  BY DEF Send, Put
<1>2. /\ DOMAIN tickets' = DOMAIN tickets \cup {s}
      /\ \A x \in DOMAIN tickets \cup {s} : tickets'[x] = IF x = s THEN ticket ELSE tickets[x]
  BY DEF Put
<1>3. ASSUME NEW x \in DOMAIN receipts' \ {s}, Carries(receipts'[x])
      PROVE  Continues(x) /\ KeepsTicket(x)
  <2>1. Continues(x)
    BY <1>1, <1>3 DEF Continues, SameBusiness
  <2>2. x \in DOMAIN tickets
    BY <2>1 DEF Continues, TicketInv, TicketsCarried
  <2> QED BY <1>2, <2>1, <2>2 DEF KeepsTicket
<1> QED BY <1>1, <1>2, <1>3 DEF CarriedOff

\* Nothing is on its way that was not before.
LEMMA TicketsUntouched ==
    ASSUME TicketInv, UNCHANGED <<receipts, tickets>>
    PROVE  CarriedOff({})
<1> SUFFICES ASSUME NEW x \in DOMAIN receipts', Carries(receipts'[x])
             PROVE  Continues(x) /\ KeepsTicket(x)
  BY DEF CarriedOff
<1>1. Continues(x)
  BY DEF Continues, SameBusiness
<1> QED BY <1>1 DEF KeepsTicket, Continues, TicketInv, TicketsCarried

-----------------------------------------------------------------------------
(* The steps that use a ticket.                                             *)

\* A deposit or restake of x into the product p of account a takes effect.
Effect(a, p, x, ticket) ==
    /\ a \in AccountIds /\ p \in ProductIds /\ x \in Nat
    /\ AddedTo(a, p, x)
    /\ SpendNonce(a) /\ TakesEffect(ticket) /\ UNCHANGED public_keys
    /\ CarriedOff({})
    /\ Pays(ticket, a, p, x)

\* The ticket is current: it names the nonce that is spent.
Current(ticket, a) ==
    ticket # Unsigned => ticket.account = a /\ ticket.nonce = nonces[a]

\* A verified ticket says what is deposited, and is current.
LEMMA VerifiedPays ==
    ASSUME TicketInv, NEW a \in AccountIds, NEW p \in ProductIds, NEW x \in Nat,
           NEW purpose \in Purposes, NEW ticket, IsVerified(purpose, a, p, x, ticket),
           StakeCarries([product |-> p], ticket, DOMAIN public_keys)
    PROVE  /\ Pays(ticket, a, p, x) /\ Current(ticket, a)
           /\ ticket # Unsigned => ticket \in Ticket /\ ticket.purpose = purpose
                                   /\ ticket.product = p /\ ticket.amount = x
           /\ ticket = Unsigned => p \notin DOMAIN InitialKeys
<1>1. nonces[a] \in Nat /\ DOMAIN InitialKeys \subseteq DOMAIN public_keys
  BY DEF TicketInv, KeysKnown
<1>2. CASE p \in DOMAIN public_keys
  <2>1. /\ ticket # Unsigned
        /\ ticket = DepositMessage(public_keys[p], purpose, a, p, x, nonces[a],
                                   ticket.valid_until)
    BY <1>2 DEF IsVerified
  <2>2. /\ ticket.purpose = purpose /\ ticket.account = a /\ ticket.product = p
        /\ ticket.amount = x /\ ticket.nonce = nonces[a]
    BY <2>1 DEF DepositMessage
  <2>3. ticket \in Ticket
    BY <2>1 DEF StakeCarries
  <2> QED BY <1>1, <2>1, <2>2, <2>3 DEF Pays, Current
<1>3. CASE p \notin DOMAIN public_keys
  <2>1. ticket = Unsigned /\ p \notin DOMAIN InitialKeys
    BY <1>1, <1>3 DEF StakeCarries
  <2> QED BY <2>1 DEF Pays, Current
<1> QED BY <1>2, <1>3

\* What a caller can hold is a ticket.
LEMMA OffersType ==
    ASSUME TicketInv, NEW a \in AccountIds, NEW p \in ProductIds, NEW x \in Amounts,
           NEW ticket \in Offers(a, p, x)
    PROVE  StakeCarries([product |-> p], ticket, DOMAIN public_keys)
<1>1. x \in Nat /\ nonces[a] \in Nat /\ Expiries \subseteq Nat
  BY SweatJarAssumption, TicketsAssumption DEF TicketInv, KeysKnown
<1>2. CASE ticket = Unsigned
  BY <1>2 DEF StakeCarries
<1>3. CASE ticket # Unsigned
  <2>1. p \in DOMAIN public_keys
    BY <1>3 DEF Offers
  <2>2. PICK k \in PublicKeys, purpose \in Purposes, n \in 0 .. nonces[a], t \in Expiries :
            ticket = DepositMessage(k, purpose, a, p, x, n, t)
    BY <1>3, <2>1 DEF Offers
  <2>3. n \in Nat /\ t \in Nat
    BY <1>1
  <2>4. ticket \in Ticket
    BY <1>1, <2>2, <2>3 DEF DepositMessage, Ticket
  <2> QED BY <2>1, <2>4 DEF StakeCarries
<1> QED BY <1>2, <1>3

\* ft_on_transfer accepts a stake.
LEMMA AcceptStakeEffect ==
    ASSUME TicketInv, NEW s \in Slots, AcceptStake(s),
           NEW r, r = receipts[s], NEW ticket, ticket = tickets[s]
    PROVE  /\ Effect(r.account, r.product, r.amount, ticket)
           /\ Current(ticket, r.account)
           /\ ticket # Unsigned => ticket \in Ticket /\ ticket.purpose = "deposit"
           /\ DOMAIN receipts' \subseteq DOMAIN receipts
<1>1. /\ s \in DOMAIN receipts /\ r.kind = "stake" /\ r.status = "sent" /\ TypeInv
      /\ OnStake(s) /\ SpendNonce(r.account) /\ TakesEffect(ticket)
      /\ tickets' = Drop(tickets, {s}) /\ UNCHANGED public_keys
      /\ IsVerified("deposit", r.account, r.product, r.amount, ticket)
  BY DEF AcceptStake, InFlight, IsStakeVerified, TicketInv
<1>2. IsStake(r)
  BY <1>1, ReceiptKinds
<1>3. r.account \in AccountIds /\ r.product \in ProductIds /\ r.amount \in Nat
  BY <1>2 DEF IsStake
<1>4. Consume(s)
  BY <1>1 DEF OnStake
<1>5. NothingSent /\ s \notin DOMAIN receipts'
  BY <1>1, <1>4, ConsumeSends
<1>6. CarriedOff({})
  BY <1>1, <1>5, TicketDropped
<1>7. AddedTo(r.account, r.product, r.amount)
  BY <1>1, OnStakeAdds
<1>8. StakeCarries([product |-> r.product], ticket, DOMAIN public_keys)
  <2>1. StakeCarries(r, ticket, DOMAIN public_keys)
    BY <1>1 DEF TicketInv, TicketsCarried, Carries, TicketFits
  <2> QED BY <2>1 DEF StakeCarries
<1>9. /\ Pays(ticket, r.account, r.product, r.amount) /\ Current(ticket, r.account)
      /\ ticket # Unsigned => ticket \in Ticket /\ ticket.purpose = "deposit"
  <2>1. "deposit" \in Purposes
    BY DEF Purposes
  <2> QED BY <1>1, <1>3, <1>8, <2>1, VerifiedPays
<1>10. DOMAIN receipts' \subseteq DOMAIN receipts
  BY <1>1, <1>4, ConsumeType
<1> QED BY <1>1, <1>3, <1>6, <1>7, <1>9, <1>10 DEF Effect

\* after_transfer_remainder restakes.
LEMMA FinishRestakeEffect ==
    ASSUME TicketInv, NEW s \in Slots, FinishRestake(s),
           NEW r, r = receipts[s], NEW ticket, ticket = tickets[s]
    PROVE  /\ s \in DOMAIN receipts /\ r.kind = "restake"
           /\ Effect(r.account, r.target, r.deposit, ticket)
           /\ DOMAIN receipts' = DOMAIN receipts \ {s}
<1>1. /\ s \in DOMAIN receipts /\ r.kind = "restake" /\ TypeInv
      /\ AfterTransferRemainder(s) /\ SpendNonce(r.account) /\ TakesEffect(ticket)
      /\ tickets' = Drop(tickets, {s}) /\ UNCHANGED public_keys
  BY DEF FinishRestake, AfterTransferRemainder, InFlight, TicketInv
<1>2. IsRestake(r)
  BY <1>1, ReceiptKinds
<1>3. r.account \in AccountIds /\ r.target \in ProductIds /\ r.deposit \in Nat
  BY <1>2 DEF IsRestake
<1>4. Consume(s)
  BY <1>1 DEF AfterTransferRemainder
<1>5. NothingSent /\ s \notin DOMAIN receipts' /\ DOMAIN receipts' = DOMAIN receipts \ {s}
  BY <1>1, <1>4, ConsumeSends, ConsumeType
<1>6. CarriedOff({})
  BY <1>1, <1>5, TicketDropped
<1>7. AddedTo(r.account, r.target, r.deposit)
  BY <1>1, AfterTransferRemainderAdds
<1>8. RestakeCarries(r, ticket, nonces)
  BY <1>1 DEF TicketInv, TicketsCarried, Carries, TicketFits
<1>9. Pays(ticket, r.account, r.target, r.deposit)
  BY <1>8 DEF RestakeCarries, Pays
<1> QED BY <1>1, <1>3, <1>5, <1>6, <1>7, <1>9 DEF Effect

\* A restake leaves its ticket to its callback.
Departs(s, a, p, x, ticket) ==
    /\ NothingAdded /\ UNCHANGED <<nonces, used, public_keys>>
    /\ CarriedOff({s}) /\ DOMAIN receipts' = DOMAIN receipts \cup {s}
    /\ receipts'[s].kind = "restake" /\ receipts'[s].account = a
    /\ s \in DOMAIN tickets' /\ tickets'[s] = ticket
    /\ RestakeCarries(receipts'[s], ticket, nonces)

\* restake and restake_all.
LEMMA RestakeEffect ==
    ASSUME TicketInv, NEW s \in FreeSlots, NEW a \in AccountIds,
           NEW q \in ProductIds, NEW x \in Amounts, NEW tz \in TimezonesFor(q),
           NEW ticket \in Offers(a, q, x),
           \/ \E p \in ProductIds : RestakeWith(s, a, p, q, x, tz, ticket)
           \/ RestakeAllWith(s, a, q, x, tz, ticket)
    PROVE  /\ Current(ticket, a)
           /\ ticket # Unsigned => ticket \in Ticket
           /\ \/ UNCHANGED receipts /\ Effect(a, q, x, ticket)
              \/ Departs(s, a, q, x, ticket)
<1>1. /\ \/ \E p \in ProductIds : Restake(s, a, p, q, x, tz)
         \/ RestakeAll(s, a, q, x, tz)
      /\ IsVerified("restake", a, q, x, ticket) /\ WithTicket(s, a, ticket)
  BY DEF RestakeWith, RestakeAllWith
<1>2. /\ s \in Slots /\ s \notin DOMAIN receipts /\ TypeInv /\ x \in Nat
      /\ tz \in Offered
  BY SweatJarAssumption DEF FreeSlots, TicketInv, TimezonesFor, Offered
<1>3. \/ UNCHANGED receipts /\ AddedTo(a, q, x)
      \/ RestakeSent(s, a, q, x) /\ NothingAdded
  BY <1>1, <1>2, RestakeAdds
<1>4. /\ Pays(ticket, a, q, x) /\ Current(ticket, a)
      /\ ticket # Unsigned => ticket \in Ticket /\ ticket.purpose = "restake"
                              /\ ticket.product = q /\ ticket.amount = x
      /\ ticket = Unsigned => q \notin DOMAIN InitialKeys
  <2>1. "restake" \in Purposes
    BY DEF Purposes
  <2>2. StakeCarries([product |-> q], ticket, DOMAIN public_keys)
    BY OffersType
  <2>3. IsVerified("restake", a, q, x, ticket)
    BY <1>1
  <2> QED BY <1>2, <2>1, <2>2, <2>3, VerifiedPays
<1>5. CASE UNCHANGED receipts /\ AddedTo(a, q, x)
  <2>1. SpendNonce(a) /\ TakesEffect(ticket) /\ UNCHANGED <<public_keys, tickets>>
    BY <1>1, <1>2, <1>5 DEF WithTicket
  <2>2. CarriedOff({})
    BY <1>5, <2>1, TicketsUntouched
  <2>3. Effect(a, q, x, ticket)
    BY <1>2, <1>4, <1>5, <2>1, <2>2 DEF Effect
  <2> QED BY <1>4, <1>5, <2>3
<1>6. CASE RestakeSent(s, a, q, x) /\ NothingAdded
  <2>1. PICK r : /\ Send(s, r) /\ r.kind = "restake" /\ r.account = a
                 /\ r.target = q /\ r.deposit = x
    BY <1>6 DEF RestakeSent
  <2>2. s \in DOMAIN receipts'
    BY <2>1 DEF Send, Put
  <2>3. tickets' = Put(tickets, s, ticket) /\ UNCHANGED <<nonces, used, public_keys>>
    BY <1>1, <1>2, <2>2 DEF WithTicket
  <2>4. /\ CarriedOff({s}) /\ receipts'[s] = r
        /\ DOMAIN receipts' = DOMAIN receipts \cup {s}
        /\ s \in DOMAIN tickets' /\ tickets'[s] = ticket
    BY <2>1, <2>3, TicketAdded
  <2>5. RestakeCarries(r, ticket, nonces)
    <3>1. nonces[a] \in Nat
      BY DEF TicketInv, KeysKnown
    <3>2. CASE ticket = Unsigned
      BY <1>4, <2>1, <3>2 DEF RestakeCarries
    <3>3. CASE ticket # Unsigned
      BY <1>4, <2>1, <3>1, <3>3 DEF RestakeCarries, Current
    <3> QED BY <3>2, <3>3
  <2>6. Departs(s, a, q, x, ticket)
    BY <1>6, <2>1, <2>3, <2>4, <2>5 DEF Departs
  <2> QED BY <1>4, <2>6
<1> QED BY <1>3, <1>5, <1>6

-----------------------------------------------------------------------------
(* The invariant is kept.                                                   *)

\* Only what the contract does changes its types.
LEMMA TicketsTypeNext ==
    ASSUME TypeInv, [TicketsNext]_<<vars, ticketVars>>
    PROVE  TypeInv'
<1>1. CASE UNCHANGED vars
  BY <1>1, TypeInvNext
<1>2. ASSUME NEW s \in Slots, AcceptStake(s) \/ FinishRestake(s)
      PROVE  TypeInv'
  BY <1>2, OnStakeType, AfterTransferRemainderType DEF AcceptStake, FinishRestake
<1>3. ASSUME NEW s \in Slots, RejectStake(s)
      PROVE  TypeInv'
  <2>1. /\ s \in DOMAIN receipts /\ receipts' = [receipts EXCEPT ![s].status = "failed"]
        /\ UNCHANGED <<now, enabled, accounts, fee_amount, tokens>>
    BY <1>3 DEF RejectStake, InFlight, FailStake
  <2>2. ReceiptsBy(receipts', now)
    BY <2>1, AnswerType
  <2> QED BY <2>1, <2>2 DEF TypeInv
<1>4. ASSUME NEW s \in FreeSlots, NEW a \in AccountIds, TicketedCall(s, a)
      PROVE  TypeInv'
  <2>1. s \in Slots /\ \A p \in ProductIds : TimezonesFor(p) \subseteq Offered
    BY DEF FreeSlots, TimezonesFor, Offered
  <2>2. \/ \E b \in AccountIds, p \in ProductIds, x \in Amounts, tz \in Offered :
                Stake(s, a, b, p, x, tz)
        \/ \E p \in ProductIds, q \in ProductIds, x \in Amounts, tz \in Offered :
                Restake(s, a, p, q, x, tz)
        \/ \E q \in ProductIds, x \in Amounts, tz \in Offered : RestakeAll(s, a, q, x, tz)
    BY <1>4, <2>1 DEF TicketedCall, StakeWith, RestakeWith, RestakeAllWith
  <2> QED BY <2>1, <2>2, StakeType, RestakeType
<1>5. CASE WithoutTicket
  <2>1. Next
    BY <1>5 DEF WithoutTicket, Next, ContractReceipt, UserCall
  <2> QED BY <2>1, TypeInvNext
<1> QED BY <1>1, <1>2, <1>3, <1>4, <1>5 DEF TicketsNext, SetPublicKey, vars

\* Keys are never taken away.
LEMMA QuietCarried ==
    ASSUME TicketInv, TypeInv', NothingAdded, UNCHANGED <<nonces, used>>, KeysGrow,
           CarriedOff({})
    PROVE  TicketInv'
<1>1. KeysKnown' /\ \A a \in AccountIds : nonces[a] <= nonces'[a]
  BY DEF TicketInv, KeysKnown, KeysGrow
<1>2. TicketsCarried'
  BY <1>1, CarriedNext
<1> QED BY <1>2, QuietInv

\* A stake leaves with its ticket.
LEMMA StakeWithKeeps ==
    ASSUME TicketInv, TypeInv', NEW s \in FreeSlots, NEW a \in AccountIds,
           NEW b \in AccountIds, NEW p \in ProductIds, NEW x \in Amounts, NEW tz,
           NEW ticket \in Offers(b, p, x), StakeWith(s, a, b, p, x, tz, ticket)
    PROVE  /\ TicketInv' /\ CarriedOff({s}) /\ receipts'[s].kind = "stake"
           /\ UNCHANGED used
<1> DEFINE r == [kind |-> "stake", status |-> "sent", account |-> b, sender |-> a,
                 product |-> p, amount |-> x, timezone |-> tz, jars |-> NoJars]
<1>1. /\ Send(s, r) /\ tickets' = Put(tickets, s, ticket) /\ UNCHANGED accounts
      /\ UNCHANGED <<nonces, public_keys, used>> /\ r.kind = "stake" /\ r.product = p
  BY DEF StakeWith, Stake
<1> HIDE DEF r
<1>2. /\ CarriedOff({s}) /\ receipts'[s] = r
      /\ s \in DOMAIN tickets' /\ tickets'[s] = ticket
  BY <1>1, TicketAdded
<1>3. TicketFits(r, ticket, DOMAIN public_keys, nonces)
  <2>1. StakeCarries([product |-> p], ticket, DOMAIN public_keys)
    BY OffersType
  <2> QED BY <1>1, <2>1 DEF TicketFits, StakeCarries
<1>4. /\ KeysKnown' /\ KeysGrow /\ \A c \in AccountIds : nonces[c] <= nonces'[c]
  BY <1>1 DEF TicketInv, KeysKnown, KeysGrow
<1>5. TicketsCarried'
  BY <1>1, <1>2, <1>3, <1>4, CarriedNext
<1>6. NothingAdded
  BY <1>1, NothingWritten DEF TicketInv
<1> QED BY <1>1, <1>2, <1>4, <1>5, <1>6, QuietInv

\* A restake leaves with its ticket.
LEMMA DepartsKeeps ==
    ASSUME TicketInv, TypeInv', NEW s, NEW a, NEW p, NEW x, NEW ticket,
           Departs(s, a, p, x, ticket)
    PROVE  TicketInv'
<1>1. /\ KeysKnown' /\ KeysGrow /\ \A c \in AccountIds : nonces[c] <= nonces'[c]
  BY DEF Departs, TicketInv, KeysKnown, KeysGrow
<1>2. TicketFits(receipts'[s], tickets'[s], DOMAIN public_keys', nonces')
  BY DEF Departs, TicketFits
<1>3. TicketsCarried'
  BY <1>1, <1>2, CarriedNext DEF Departs
<1> QED BY <1>1, <1>3, QuietInv DEF Departs

\* An effect keeps the invariant.
LEMMA EffectKeeps ==
    ASSUME TicketInv, TypeInv', NEW a, NEW p, NEW x, NEW ticket, Effect(a, p, x, ticket)
    PROVE  TicketInv'
BY EffectInv DEF Effect

\* The steps that neither use a ticket nor send one.
QuietCall ==
    \/ \E s \in Slots : RejectStake(s)
    \/ \E p \in Managed, k \in PublicKeys : SetPublicKey(p, k)
    \/ WithoutTicket /\ KeepsTickets

\* They deposit nothing, and forget the tickets of receipts that are gone.
LEMMA QuietCalls ==
    ASSUME TicketInv, QuietCall
    PROVE  /\ NothingAdded /\ UNCHANGED <<nonces, used>> /\ KeysGrow
           /\ CarriedOff({})
<1>1. ASSUME NEW s \in Slots, RejectStake(s)
      PROVE  /\ NothingAdded /\ UNCHANGED <<nonces, used>> /\ KeysGrow
             /\ CarriedOff({})
  <2>1. /\ s \in DOMAIN receipts /\ receipts[s].kind = "stake" /\ TypeInv
        /\ receipts' = [receipts EXCEPT ![s].status = "failed"]
        /\ tickets' = Drop(tickets, {s})
        /\ UNCHANGED <<accounts, nonces, public_keys, used>>
    BY <1>1 DEF RejectStake, InFlight, FailStake, TicketInv
  <2>2. NothingSent /\ ~Carries(receipts'[s])
    BY <2>1, AnswerSends
  <2>3. CarriedOff({})
    BY <2>1, <2>2, TicketDropped
  <2> QED BY <2>1, <2>3, NothingWritten DEF KeysGrow
<1>2. ASSUME NEW p \in Managed, NEW k \in PublicKeys, SetPublicKey(p, k)
      PROVE  /\ NothingAdded /\ UNCHANGED <<nonces, used>> /\ KeysGrow
             /\ CarriedOff({})
  <2>1. UNCHANGED <<accounts, receipts, nonces, tickets, used>> /\ TypeInv
    BY <1>2 DEF SetPublicKey, vars, TicketInv
  <2>2. KeysGrow
    BY <1>2 DEF SetPublicKey, KeysGrow, Put
  <2> QED BY <2>1, <2>2, NothingWritten, TicketsUntouched
<1>3. CASE WithoutTicket /\ KeepsTickets
  <2>1. /\ TypeInv /\ UNCHANGED <<nonces, public_keys, used>>
        /\ tickets' = Restrict(tickets, DOMAIN tickets \cap DOMAIN receipts')
    BY <1>3 DEF KeepsTickets, TicketInv
  <2>2. NothingAdded /\ NothingSent
    BY <1>3, <2>1, WithoutTicketAdds, WithoutTicketSends
  <2>3. CarriedOff({})
    BY <2>1, <2>2, TicketsKept
  <2> QED BY <2>1, <2>2, <2>3 DEF KeysGrow
<1> QED BY <1>1, <1>2, <1>3 DEF QuietCall

\* Every step keeps it.
LEMMA TicketInvNext == TicketInv /\ [TicketsNext]_<<vars, ticketVars>> => TicketInv'
<1> SUFFICES ASSUME TicketInv, [TicketsNext]_<<vars, ticketVars>> PROVE TicketInv'
  OBVIOUS
<1>1. TypeInv'
  BY TicketsTypeNext DEF TicketInv
<1>2. CASE UNCHANGED <<vars, ticketVars>>
  BY <1>2, <1>1 DEF TicketInv, KeysKnown, TicketsCarried, Covered, Stored, vars, ticketVars
<1>3. ASSUME NEW s \in Slots, AcceptStake(s)
      PROVE  TicketInv'
  BY <1>1, <1>3, AcceptStakeEffect, EffectKeeps
<1>4. ASSUME NEW s \in Slots, FinishRestake(s)
      PROVE  TicketInv'
  BY <1>1, <1>4, FinishRestakeEffect, EffectKeeps
<1>5. CASE QuietCall
  BY <1>1, <1>5, QuietCalls, QuietCarried
<1>6. ASSUME NEW s \in FreeSlots, NEW a \in AccountIds, TicketedCall(s, a)
      PROVE  TicketInv'
  <2>1. CASE \E b \in AccountIds, p \in ProductIds, x \in Amounts :
                \E tz \in TimezonesFor(p), t \in Offers(b, p, x) :
                    StakeWith(s, a, b, p, x, tz, t)
    BY <1>1, <2>1, StakeWithKeeps
  <2>2. CASE \E p, q \in ProductIds, x \in Amounts :
                \E tz \in TimezonesFor(q), t \in Offers(a, q, x) :
                    RestakeWith(s, a, p, q, x, tz, t)
    BY <1>1, <2>2, RestakeEffect, EffectKeeps, DepartsKeeps
  <2>3. CASE \E q \in ProductIds, x \in Amounts :
                \E tz \in TimezonesFor(q), t \in Offers(a, q, x) :
                    RestakeAllWith(s, a, q, x, tz, t)
    BY <1>1, <2>3, RestakeEffect, EffectKeeps, DepartsKeeps
  <2> QED BY <1>6, <2>1, <2>2, <2>3 DEF TicketedCall
<1> QED BY <1>2, <1>3, <1>4, <1>5, <1>6 DEF TicketsNext, QuietCall

-----------------------------------------------------------------------------
(* What an account holds was signed for.                                    *)

\* While no ticket was used twice, the tickets weigh what they say.
LEMMA WeightSigned ==
    ASSUME UsedTickets(used, nonces), TicketUsedOnce, NEW a, NEW p
    PROVE  Weight(used, a, p) <= Total([t \in SignedFor(used, a, p) |-> t.amount])
<1> DEFINE S == SignedFor(used, a, p)
           f == [t \in S |-> used[t] * t.amount]
           g == [t \in S |-> IF used[t] = 0 THEN t.amount ELSE 0]
           h == [t \in S |-> t.amount]
<1>1. IsFiniteSet(S)
  BY WeightNat
<1>2. \A t \in S : used[t] \in {0, 1} /\ t.amount \in Nat
  BY DEF UsedTickets, SignedFor, IsMap, Ticket, TicketUsedOnce
<1>3. \A n \in Nat : 0 * n = 0 /\ 1 * n = n
  OBVIOUS
<1>4. ASSUME NEW t \in S
      PROVE  f[t] \in Nat /\ g[t] \in Nat /\ h[t] = f[t] + g[t]
  <2> DEFINE n == t.amount
             u == used[t]
  <2>1. f[t] = u * n /\ g[t] = (IF u = 0 THEN n ELSE 0) /\ h[t] = n
    OBVIOUS
  <2>2. u \in {0, 1} /\ n \in Nat
    BY <1>2
  <2> HIDE DEF u, n, f, g, h
  <2>3. u * n = IF u = 0 THEN 0 ELSE n
    BY <1>3, <2>2
  <2> QED BY <2>1, <2>2, <2>3
<1>5. Weight(used, a, p) = SumFunctionOnSet(f, S)
  BY DEF Weight
<1>6. Total(h) = SumFunctionOnSet(h, S)
  BY TotalOver
<1> HIDE DEF S, f, g, h
<1>7. SumFunctionOnSet(h, S) = SumFunctionOnSet(f, S) + SumFunctionOnSet(g, S)
  BY <1>1, <1>4, SumPlus
<1>8. SumFunctionOnSet(f, S) \in Nat /\ SumFunctionOnSet(g, S) \in Nat
  BY <1>1, <1>4, SumNat
<1>9. Weight(used, a, p) <= Total(h)
  BY <1>5, <1>6, <1>7, <1>8
<1> QED BY <1>9 DEF S, h

\* The deposits in a protected product are covered.
LEMMA TicketInvSigned ==
    ASSUME TicketInv, TicketUsedOnce
    PROVE  SignedPrincipal
<1> SUFFICES ASSUME NEW a \in DOMAIN accounts,
                    NEW p \in DOMAIN InitialKeys \cap DOMAIN JarsOf(a)
             PROVE  TotalPrincipal(JarsOf(a)[p]) <= Total([t \in SignedFor(used, a, p) |-> t.amount])
  BY DEF SignedPrincipal, SignedFor
<1> DEFINE held == Stored(accounts, a, p)
           weight == Weight(used, a, p)
           signed == Total([t \in SignedFor(used, a, p) |-> t.amount])
<1>1. a \in AccountIds
  BY DEF TicketInv, TypeInv, AccountsBy, IsMap
<1>2. held = TotalPrincipal(JarsOf(a)[p])
  BY DEF Stored, PrincipalIn, JarsOf
<1>3. held <= weight
  BY <1>1 DEF TicketInv, Covered
<1>4. weight <= signed /\ weight \in Nat /\ held \in Nat
  BY WeightSigned, WeightNat, StoredNat DEF TicketInv
<1>5. signed \in Nat
  <2> DEFINE S == SignedFor(used, a, p)
             h == [t \in S |-> t.amount]
  <2>1. IsFiniteSet(S)
    BY WeightNat DEF TicketInv
  <2>2. \A t \in S : h[t] \in Nat
    BY DEF TicketInv, UsedTickets, SignedFor, IsMap, Ticket
  <2>3. signed = SumFunctionOnSet(h, S)
    BY TotalOver
  <2> HIDE DEF S, h
  <2> QED BY <2>1, <2>2, <2>3, SumNat
<1> HIDE DEF held, weight, signed
<1>6. held <= signed
  BY <1>3, <1>4, <1>5
<1> QED BY <1>2, <1>6 DEF signed

\* However deposits, restakes, changes of keys and expiries interleave, what
\* an account holds in a protected product is covered by tickets that were
\* signed for it, for as long as no ticket took effect twice.
THEOREM PrincipalSigned == TicketsSpec => [](TicketUsedOnce => SignedPrincipal)
<1>1. TicketsInit => TicketInv
  BY TicketInvInit
<1>2. TicketInv /\ [TicketsNext]_<<vars, ticketVars>> => TicketInv'
  BY TicketInvNext
<1>3. TicketInv => (TicketUsedOnce => SignedPrincipal)
  BY TicketInvSigned
<1> QED BY <1>1, <1>2, <1>3, PTL DEF TicketsSpec

\* A deposit's ticket is good once, whatever else is in flight: its receipt
\* both checks the nonce and spends it.
THEOREM DepositTicketsOnce == TicketsSpec => []DepositOnce(used)
<1>1. TicketsInit => TicketInv
  BY TicketInvInit
<1>2. TicketInv /\ [TicketsNext]_<<vars, ticketVars>> => TicketInv'
  BY TicketInvNext
<1>3. TicketInv => DepositOnce(used)
  BY DEF TicketInv
<1> QED BY <1>1, <1>2, <1>3, PTL DEF TicketsSpec

-----------------------------------------------------------------------------
(* A ticket is good once, unless two restakes of one account overlap.       *)

Restakes(s, all) == s \in DOMAIN all /\ all[s].kind = "restake"

\* What follows from the invariant for a current ticket: it is unused.
LEMMA CurrentUnused ==
    ASSUME TicketInv, NEW a \in AccountIds, NEW ticket \in Ticket, Current(ticket, a)
    PROVE  ticket \notin DOMAIN used
<1>1. ticket.account = a /\ ticket.nonce = nonces[a] /\ nonces[a] \in Nat
  BY DEF Current, Ticket, Unsigned, Purposes, TicketInv, KeysKnown
<1>2. ticket \in DOMAIN used => ticket.nonce < nonces[ticket.account]
  BY DEF TicketInv, UsedTickets
<1> QED BY <1>1, <1>2

\* No ticket is the one of a call that needs none.
LEMMA UnsignedUnused ==
    ASSUME TicketInv
    PROVE  Unsigned \notin Ticket /\ Unsigned \notin DOMAIN used
<1>1. Unsigned \notin Ticket
  BY DEF Ticket, Unsigned, Purposes
<1> QED BY <1>1 DEF TicketInv, UsedTickets, IsMap

\* A restake in flight was in flight before, with its ticket, unless it is
\* a new one.
LEMMA RestakeStays ==
    ASSUME NEW X, CarriedOff(X), NEW x, x \notin X, Restakes(x, receipts')
    PROVE  /\ Restakes(x, receipts) /\ tickets'[x] = tickets[x]
           /\ receipts'[x].account = receipts[x].account
BY DEF CarriedOff, Carries, Continues, KeepsTicket, SameBusiness, Restakes

\* No ticket takes effect, no restake is called.
LEMMA OnceQuiet ==
    ASSUME OnceInv, UNCHANGED used, NEW X, CarriedOff(X), \A x \in X : ~Restakes(x, receipts')
    PROVE  RestakesOnce'
<1>1. TicketUsedOnce'
  BY DEF OnceInv, RestakesOnce, TicketUsedOnce
<1>2. \A x : Restakes(x, receipts') =>
        /\ Restakes(x, receipts) /\ tickets'[x] = tickets[x]
        /\ receipts'[x].account = receipts[x].account
  BY RestakeStays
<1>3. ASSUME NEW s \in DOMAIN receipts', receipts'[s].kind = "restake"
      PROVE  /\ tickets'[s] \notin DOMAIN used'
             /\ \A x \in DOMAIN receipts' \ {s} :
                    ~(receipts'[x].kind = "restake" /\ receipts'[x].account = receipts'[s].account)
  BY <1>2, <1>3 DEF Restakes, OnceInv, RestakesOnce
<1> QED BY <1>1, <1>3 DEF RestakesOnce

\* A ticket takes effect that was unused, and that no restake still carries.
LEMMA OnceEffect ==
    ASSUME OnceInv, NEW a, NEW p, NEW x, NEW ticket, Effect(a, p, x, ticket),
           ticket # Unsigned => ticket \notin DOMAIN used,
           ticket # Unsigned => \A y : Restakes(y, receipts') => tickets[y] # ticket
    PROVE  RestakesOnce'
<1>1. /\ CarriedOff({}) /\ TakesEffect(ticket) /\ Pays(ticket, a, p, x) /\ SpendNonce(a)
  BY DEF Effect
<1>2. CASE ticket = Unsigned
  <2>1. UNCHANGED used
    BY <1>1, <1>2 DEF TakesEffect
  <2> QED BY <1>1, <2>1, OnceQuiet
<1>3. CASE ticket # Unsigned
  <2>1. /\ ticket \in Ticket /\ ticket.account = a /\ ticket.nonce <= nonces[ticket.account]
        /\ ticket.purpose = "deposit" => ticket.nonce = nonces[ticket.account]
    BY <1>1, <1>3 DEF Pays
  <2>2. /\ DOMAIN used' = DOMAIN used \cup {ticket}
        /\ used'[ticket] = Uses(ticket) + 1
        /\ \A t \in DOMAIN used \ {ticket} : used'[t] = used[t]
    <3>1. SpendNonce(ticket.account)
      BY <1>1, <2>1
    <3>2. UsedTickets(used, nonces) /\ DepositOnce(used) /\ nonces \in [AccountIds -> Nat]
      BY DEF OnceInv, TicketInv, KeysKnown
    <3> QED BY <1>1, <2>1, <3>1, <3>2, EffectWeight
  <2>3. TicketUsedOnce'
    BY <1>3, <2>2 DEF Uses, TicketUsedOnce, OnceInv, RestakesOnce
  <2>4. \A y : Restakes(y, receipts') =>
            /\ Restakes(y, receipts) /\ tickets'[y] = tickets[y]
            /\ receipts'[y].account = receipts[y].account
    BY <1>1, RestakeStays
  <2>5. ASSUME NEW s \in DOMAIN receipts', receipts'[s].kind = "restake"
        PROVE  /\ tickets'[s] \notin DOMAIN used'
               /\ \A y \in DOMAIN receipts' \ {s} :
                    ~(receipts'[y].kind = "restake" /\ receipts'[y].account = receipts'[s].account)
    <3>1. Restakes(s, receipts')
      BY <2>5 DEF Restakes
    <3>2. tickets'[s] \notin DOMAIN used /\ tickets'[s] # ticket
      BY <1>3, <2>4, <3>1 DEF Restakes, OnceInv, RestakesOnce
    <3> QED BY <2>2, <2>4, <2>5, <3>2 DEF Restakes, OnceInv, RestakesOnce
  <2> QED BY <2>3, <2>5 DEF RestakesOnce
<1> QED BY <1>2, <1>3

\* A restake departs that is the only one of its account.
LEMMA OnceDeparts ==
    ASSUME OnceInv, NEW s, NEW a, NEW p, NEW x, NEW ticket, Departs(s, a, p, x, ticket),
           NoRestakeOf(a), ticket \notin DOMAIN used
    PROVE  RestakesOnce'
<1>1. /\ CarriedOff({s}) /\ UNCHANGED used /\ tickets'[s] = ticket
      /\ receipts'[s].kind = "restake" /\ receipts'[s].account = a
  BY DEF Departs
<1>2. TicketUsedOnce'
  BY <1>1 DEF OnceInv, RestakesOnce, TicketUsedOnce
<1>3. \A y : Restakes(y, receipts') /\ y # s =>
        /\ Restakes(y, receipts) /\ tickets'[y] = tickets[y]
        /\ receipts'[y].account = receipts[y].account /\ receipts'[y].account # a
  BY <1>1, RestakeStays DEF NoRestakeOf, Restakes
<1>4. ASSUME NEW y \in DOMAIN receipts', receipts'[y].kind = "restake"
      PROVE  /\ tickets'[y] \notin DOMAIN used'
             /\ \A z \in DOMAIN receipts' \ {y} :
                    ~(receipts'[z].kind = "restake" /\ receipts'[z].account = receipts'[y].account)
  <2>1. CASE y = s
    BY <1>1, <1>3, <2>1 DEF Restakes
  <2>2. CASE y # s
    <3>1. Restakes(y, receipts')
      BY <1>4 DEF Restakes
    <3>2. tickets'[y] \notin DOMAIN used'
      BY <1>1, <1>3, <2>2, <3>1 DEF Restakes, OnceInv, RestakesOnce
    <3>3. \A z \in DOMAIN receipts' \ {y} :
            ~(receipts'[z].kind = "restake" /\ receipts'[z].account = receipts'[y].account)
      BY <1>1, <1>3, <2>2, <3>1 DEF Restakes, OnceInv, RestakesOnce
    <3> QED BY <3>2, <3>3
  <2> QED BY <2>1, <2>2
<1> QED BY <1>2, <1>4 DEF RestakesOnce

\* The ticket of a restake in flight is for a restake of its account.
LEMMA RestakeTicket ==
    ASSUME TicketInv, NEW y, Restakes(y, receipts)
    PROVE  \/ tickets[y] = Unsigned
           \/ /\ tickets[y] \in Ticket /\ tickets[y].purpose = "restake"
              /\ tickets[y].account = receipts[y].account
<1>1. RestakeCarries(receipts[y], tickets[y], nonces)
  BY DEF Restakes, TicketInv, TicketsCarried, Carries, TicketFits
<1> QED BY <1>1 DEF RestakeCarries

\* A stake is accepted.
LEMMA OnceAcceptStake ==
    ASSUME OnceInv, NEW s \in Slots, AcceptStake(s)
    PROVE  RestakesOnce'
<1> DEFINE r == receipts[s]
           ticket == tickets[s]
<1>1. /\ TicketInv /\ Effect(r.account, r.product, r.amount, ticket)
      /\ Current(ticket, r.account)
      /\ ticket # Unsigned => ticket \in Ticket /\ ticket.purpose = "deposit"
  BY AcceptStakeEffect DEF OnceInv
<1> HIDE DEF r, ticket
<1>2. r.account \in AccountIds /\ CarriedOff({})
  BY <1>1 DEF Effect
<1>3. ticket # Unsigned => ticket \notin DOMAIN used
  BY <1>1, <1>2, CurrentUnused
<1>4. ASSUME ticket # Unsigned, NEW y, Restakes(y, receipts')
      PROVE  tickets[y] # ticket
  <2>1. Restakes(y, receipts)
    BY <1>2, <1>4, RestakeStays
  <2>2. tickets[y] = Unsigned \/ tickets[y].purpose = "restake"
    BY <1>1, <2>1, RestakeTicket
  <2> QED BY <1>1, <1>4, <2>2
<1> QED BY <1>1, <1>3, <1>4, OnceEffect

\* A restake with a remainder is finished.
LEMMA OnceFinishRestake ==
    ASSUME OnceInv, NEW s \in Slots, FinishRestake(s)
    PROVE  RestakesOnce'
<1> DEFINE r == receipts[s]
           ticket == tickets[s]
<1>1. /\ TicketInv /\ s \in DOMAIN receipts /\ r.kind = "restake"
      /\ Effect(r.account, r.target, r.deposit, ticket)
      /\ DOMAIN receipts' = DOMAIN receipts \ {s}
  BY FinishRestakeEffect DEF OnceInv
<1>2. ticket \notin DOMAIN used
  BY <1>1 DEF OnceInv, RestakesOnce
<1>3. ticket = Unsigned \/ ticket.account = r.account
  BY <1>1, RestakeTicket DEF Restakes
<1>4. CarriedOff({})
  BY <1>1 DEF Effect
<1>5. ASSUME ticket # Unsigned, NEW y, Restakes(y, receipts')
      PROVE  tickets[y] # ticket
  <2>1. Restakes(y, receipts) /\ y # s
    BY <1>1, <1>4, <1>5, RestakeStays DEF Restakes
  <2>2. receipts[y].account # r.account
    BY <1>1, <2>1 DEF OnceInv, RestakesOnce, Restakes
  <2>3. tickets[y] = Unsigned \/ tickets[y].account = receipts[y].account
    BY <1>1, <2>1, RestakeTicket
  <2> QED BY <1>3, <1>5, <2>2, <2>3
<1> HIDE DEF r, ticket
<1> QED BY <1>1, <1>2, <1>5, OnceEffect

\* A restake is called while no other of its account is in flight.
LEMMA OnceRestake ==
    ASSUME OnceInv, NEW s \in FreeSlots, NEW a \in AccountIds, NoRestakeOf(a),
           NEW q \in ProductIds, NEW x \in Amounts, NEW tz \in TimezonesFor(q),
           NEW ticket \in Offers(a, q, x),
           \/ \E p \in ProductIds : RestakeWith(s, a, p, q, x, tz, ticket)
           \/ RestakeAllWith(s, a, q, x, tz, ticket)
    PROVE  RestakesOnce'
<1>1. /\ TicketInv /\ Current(ticket, a)
      /\ ticket # Unsigned => ticket \in Ticket
      /\ \/ UNCHANGED receipts /\ Effect(a, q, x, ticket)
         \/ Departs(s, a, q, x, ticket)
  BY RestakeEffect DEF OnceInv
<1>2. ticket \notin DOMAIN used
  BY <1>1, CurrentUnused, UnsignedUnused
<1>3. CASE UNCHANGED receipts /\ Effect(a, q, x, ticket)
  <2>1. ASSUME ticket # Unsigned, NEW y, Restakes(y, receipts')
        PROVE  tickets[y] # ticket
    <3>1. Restakes(y, receipts) /\ receipts[y].account # a
      BY <1>3, <2>1 DEF Restakes, NoRestakeOf
    <3>2. tickets[y] = Unsigned \/ tickets[y].account = receipts[y].account
      BY <1>1, <3>1, RestakeTicket
    <3> QED BY <1>1, <2>1, <3>1, <3>2 DEF Current
  <2> QED BY <1>2, <1>3, <2>1, OnceEffect
<1>4. CASE Departs(s, a, q, x, ticket)
  BY <1>2, <1>4, OnceDeparts
<1> QED BY <1>1, <1>3, <1>4

\* It holds initially.
LEMMA OnceInvInit == TicketsInit => OnceInv
<1> SUFFICES ASSUME TicketsInit PROVE OnceInv
  OBVIOUS
<1>1. DOMAIN used = {} /\ DOMAIN receipts = {}
  BY DEF TicketsInit, Init, EmptyMap
<1> QED BY <1>1, TicketInvInit DEF OnceInv, RestakesOnce, TicketUsedOnce

\* Every step keeps it, if no two restakes of one account overlap.
LEMMA OnceInvNext ==
    OnceInv /\ [TicketsNext]_<<vars, ticketVars>> /\ [RestakesAlone]_<<vars, ticketVars>> => OnceInv'
<1> SUFFICES ASSUME OnceInv, [TicketsNext]_<<vars, ticketVars>>,
                    [RestakesAlone]_<<vars, ticketVars>>
             PROVE  RestakesOnce'
  BY TicketInvNext DEF OnceInv
<1>1. TicketInv
  BY DEF OnceInv
<1>2. CASE UNCHANGED <<vars, ticketVars>>
  BY <1>2 DEF OnceInv, RestakesOnce, TicketUsedOnce, vars, ticketVars
<1>3. ASSUME NEW s \in Slots, AcceptStake(s) \/ FinishRestake(s)
      PROVE  RestakesOnce'
  BY <1>3, OnceAcceptStake, OnceFinishRestake
<1>4. CASE QuietCall
  <2>1. UNCHANGED used /\ CarriedOff({})
    BY <1>1, <1>4, QuietCalls
  <2> QED BY <2>1, OnceQuiet
<1>5. ASSUME NEW s \in FreeSlots, NEW a \in AccountIds, TicketedCall(s, a), RestakesAlone
      PROVE  RestakesOnce'
  <2>1. CASE \E b \in AccountIds, p \in ProductIds, x \in Amounts :
                \E tz \in TimezonesFor(p), t \in Offers(b, p, x) :
                    StakeWith(s, a, b, p, x, tz, t)
    <3>1. TypeInv'
      BY <1>1, TicketsTypeNext DEF TicketInv
    <3>2. PICK b \in AccountIds, p \in ProductIds, x \in Amounts :
            \E tz \in TimezonesFor(p), t \in Offers(b, p, x) : StakeWith(s, a, b, p, x, tz, t)
      BY <2>1
    <3>3. PICK tz \in TimezonesFor(p), t \in Offers(b, p, x) : StakeWith(s, a, b, p, x, tz, t)
      BY <3>2
    <3>4. CarriedOff({s}) /\ receipts'[s].kind = "stake" /\ UNCHANGED used
      BY <1>1, <3>1, <3>3, StakeWithKeeps
    <3>5. \A y \in {s} : ~Restakes(y, receipts')
      BY <3>4 DEF Restakes
    <3> QED BY <3>4, <3>5, OnceQuiet
  <2>2. CASE Restaking(s, a)
    <3>1. NoRestakeOf(a)
      BY <1>5, <2>2 DEF RestakesAlone, FreeSlots
    <3> QED BY <2>2, <3>1, OnceRestake DEF Restaking
  <2> QED BY <1>5, <2>1, <2>2 DEF TicketedCall, Restaking
<1> QED BY <1>2, <1>3, <1>4, <1>5 DEF TicketsNext, QuietCall

\* Overlapping restakes are the only way to use a ticket twice: an account
\* that waits for the outcome of a restake before it calls the next one uses
\* each ticket once, and has a signature for all that it holds.
THEOREM TicketsOnce ==
    TicketsSpec /\ [][RestakesAlone]_<<vars, ticketVars>>
        => []TicketUsedOnce /\ []SignedPrincipal
<1>1. TicketsInit => OnceInv
  BY OnceInvInit
<1>2. OnceInv /\ [TicketsNext]_<<vars, ticketVars>> /\ [RestakesAlone]_<<vars, ticketVars>>
        => OnceInv'
  BY OnceInvNext
<1>3. OnceInv => TicketUsedOnce /\ SignedPrincipal
  BY TicketInvSigned DEF OnceInv, RestakesOnce
<1> QED BY <1>1, <1>2, <1>3, PTL DEF TicketsSpec
=============================================================================
