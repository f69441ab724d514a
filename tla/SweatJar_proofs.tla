---------------------------- MODULE SweatJar_proofs ----------------------------
(***************************************************************************)
(* Type correctness of the contract, and the ownership of the jar locks,   *)
(* for any number of accounts, products and transfers in flight.           *)
(***************************************************************************)
EXTENDS SweatJarProperties, Account_proofs

-----------------------------------------------------------------------------
(* TypeOK is not inductive: a time stamp from the future, in a jar or in   *)
(* the snapshot of a claim, would let a flexible jar earn for a negative   *)
(* time. TypeInv rules such time stamps out.                               *)

ReceiptBy(r, t) ==
    \/ IsStake(r)
    \/ IsWithdrawal(r)
    \/ IsClaim(r) /\ \A p \in DOMAIN r.jars : r.jars[p].cache \in CacheBy(t)
    \/ IsRestake(r)
    \/ IsFee(r)

AccountsBy(all, t) ==
    IsMap(all, AccountIds) /\ \A a \in DOMAIN all : AccountBy(all[a], t)

ReceiptsBy(all, t) ==
    IsMap(all, Slots) /\ \A s \in DOMAIN all : ReceiptBy(all[s], t)

TypeInv ==
    /\ now \in Nat /\ now >= Genesis
    /\ enabled \subseteq ProductIds
    /\ AccountsBy(accounts, now)
    /\ fee_amount \in Nat
    /\ ReceiptsBy(receipts, now)
    /\ tokens \in [Holders -> Nat]

\* The strengthened invariant implies the checked one.
LEMMA TypeInvTypeOK == TypeInv => TypeOK
<1> SUFFICES ASSUME TypeInv PROVE TypeOK
  OBVIOUS
<1>1. \A a \in DOMAIN accounts : IsAccount(accounts[a])
  BY AccountType DEF TypeInv, AccountsBy
<1>2. \A s \in DOMAIN receipts :
        LET r == receipts[s]
        IN  IsStake(r) \/ IsWithdrawal(r) \/ IsClaim(r) \/ IsRestake(r) \/ IsFee(r)
  BY DEF TypeInv, ReceiptsBy, ReceiptBy
<1> QED BY <1>1, <1>2 DEF TypeInv, TypeOK, AccountsBy, ReceiptsBy

\* It holds initially.
LEMMA TypeInvInit == Init => TypeInv
<1> SUFFICES ASSUME Init PROVE TypeInv
  OBVIOUS
<1>1. DOMAIN EmptyMap = {} /\ IsMap(EmptyMap, AccountIds) /\ IsMap(EmptyMap, Slots)
  BY DEF EmptyMap, IsMap
<1> QED BY <1>1, SweatJarAssumption DEF Init, TypeInv, AccountsBy, ReceiptsBy

-----------------------------------------------------------------------------
(* What the parts of an action keep. *)

\* Writing one account.
LEMMA SetAccountType ==
    ASSUME TypeInv, NEW a \in AccountIds, NEW account, AccountBy(account, now),
           SetAccount(a, account)
    PROVE  /\ AccountsBy(accounts', now)
           /\ DOMAIN accounts' = DOMAIN accounts \cup {a}
           /\ \A b \in DOMAIN accounts \cup {a} :
                accounts'[b] = IF b = a THEN account ELSE accounts[b]
<1>1. /\ IsMap(accounts', AccountIds)
      /\ DOMAIN accounts' = DOMAIN accounts \cup {a}
      /\ \A b \in DOMAIN accounts \cup {a} :
            accounts'[b] = IF b = a THEN account ELSE accounts[b]
  BY DEF TypeInv, AccountsBy, SetAccount, IsMap, Put
<1> QED BY <1>1 DEF TypeInv, AccountsBy

\* Sending a receipt.
LEMMA SendType ==
    ASSUME TypeInv, NEW s \in Slots, NEW r, ReceiptBy(r, now), Send(s, r)
    PROVE  /\ ReceiptsBy(receipts', now)
           /\ DOMAIN receipts' = DOMAIN receipts \cup {s}
           /\ \A x \in DOMAIN receipts \cup {s} :
                receipts'[x] = IF x = s THEN r ELSE receipts[x]
<1>1. /\ IsMap(receipts', Slots)
      /\ DOMAIN receipts' = DOMAIN receipts \cup {s}
      /\ \A x \in DOMAIN receipts \cup {s} :
            receipts'[x] = IF x = s THEN r ELSE receipts[x]
  BY DEF TypeInv, ReceiptsBy, Send, IsMap, Put
<1> QED BY <1>1 DEF TypeInv, ReceiptsBy

\* Consuming one.
LEMMA ConsumeType ==
    ASSUME TypeInv, NEW s, Consume(s)
    PROVE  /\ ReceiptsBy(receipts', now)
           /\ DOMAIN receipts' = DOMAIN receipts \ {s}
           /\ \A x \in DOMAIN receipts \ {s} : receipts'[x] = receipts[x]
<1>1. /\ IsMap(receipts', Slots)
      /\ DOMAIN receipts' = DOMAIN receipts \ {s}
      /\ \A x \in DOMAIN receipts \ {s} : receipts'[x] = receipts[x]
  BY DropMap DEF TypeInv, ReceiptsBy, Consume
<1> QED BY <1>1 DEF TypeInv, ReceiptsBy

\* Answering one: its callback will be told the outcome.
LEMMA AnswerType ==
    ASSUME TypeInv, NEW s \in DOMAIN receipts, NEW status \in {"succeeded", "failed"},
           receipts[s].kind = "stake" => status = "failed",
           receipts' = [receipts EXCEPT ![s].status = status]
    PROVE  /\ ReceiptsBy(receipts', now)
           /\ DOMAIN receipts' = DOMAIN receipts
           /\ \A x \in DOMAIN receipts : receipts'[x] =
                IF x = s THEN [receipts[s] EXCEPT !.status = status] ELSE receipts[x]
<1>1. /\ IsMap(receipts', Slots)
      /\ DOMAIN receipts' = DOMAIN receipts
      /\ \A x \in DOMAIN receipts : receipts'[x] =
            IF x = s THEN [receipts[s] EXCEPT !.status = status] ELSE receipts[x]
  BY DEF TypeInv, ReceiptsBy, IsMap
<1> DEFINE r == [receipts[s] EXCEPT !.status = status]
<1>2. ReceiptBy(r, now)
  <2>0. ReceiptBy(receipts[s], now)
    BY DEF TypeInv, ReceiptsBy
  <2>1. CASE IsStake(receipts[s])
    <3>1. IsStake(r)
      BY <2>1 DEF IsStake
    <3> QED BY <3>1 DEF ReceiptBy
  <2>2. CASE IsWithdrawal(receipts[s])
    <3>1. IsWithdrawal(r)
      BY <2>2 DEF IsWithdrawal, Statuses, HasFootprint
    <3> QED BY <3>1 DEF ReceiptBy
  <2>3. CASE IsClaim(receipts[s])
             /\ \A p \in DOMAIN receipts[s].jars : receipts[s].jars[p].cache \in CacheBy(now)
    <3>1. IsClaim(r) /\ r.jars = receipts[s].jars
      BY <2>3 DEF IsClaim, Statuses, HasFootprint
    <3> QED BY <2>3, <3>1 DEF ReceiptBy
  <2>4. CASE IsRestake(receipts[s])
    <3>1. IsRestake(r)
      BY <2>4 DEF IsRestake, Statuses, HasFootprint
    <3> QED BY <3>1 DEF ReceiptBy
  <2>5. CASE IsFee(receipts[s])
    <3>1. IsFee(r)
      BY <2>5 DEF IsFee, Statuses
    <3> QED BY <3>1 DEF ReceiptBy
  <2> QED BY <2>0, <2>1, <2>2, <2>3, <2>4, <2>5 DEF ReceiptBy
<1> QED BY <1>1, <1>2 DEF TypeInv, ReceiptsBy

\* Moving tokens that are there.
LEMMA TransferType ==
    ASSUME TypeInv, NEW from \in Holders, NEW to \in Holders,
           NEW amount \in Nat, amount <= tokens[from], Transfer(from, to, amount)
    PROVE  tokens' \in [Holders -> Nat]
BY DEF TypeInv, Transfer

\* What is known of a receipt of each kind.
LEMMA ReceiptKinds ==
    ASSUME TypeInv, NEW s \in DOMAIN receipts
    PROVE  LET r == receipts[s]
           IN  /\ s \in Slots
               /\ r.kind = "stake" => IsStake(r)
               /\ r.kind = "withdraw" => IsWithdrawal(r)
               /\ r.kind = "claim" =>
                    IsClaim(r) /\ \A p \in DOMAIN r.jars : r.jars[p].cache \in CacheBy(now)
               /\ r.kind = "restake" => IsRestake(r)
               /\ r.kind = "fee" => IsFee(r)
               /\ r.kind \in {"stake", "withdraw", "claim", "restake", "fee"}
               /\ r.amount \in Nat
               /\ r.account \in AccountIds \cup {FeeAccount}
               /\ r.kind # "fee" => r.account \in AccountIds
<1>1. s \in Slots /\ ReceiptBy(receipts[s], now)
  BY DEF TypeInv, ReceiptsBy, IsMap
<1> QED BY <1>1 DEF ReceiptBy, IsStake, IsWithdrawal, IsClaim, IsRestake, IsFee
\* The account a method works on.
LEMMA AccountOrNewType ==
    ASSUME TypeInv, NEW a \in AccountIds
    PROVE  AccountBy(AccountOrNew(a), now) /\ (a \in DOMAIN accounts => AccountBy(accounts[a], now))
<1>1. AccountBy(EmptyAccount(now), now)
  <2>1. [updated_at |-> now, history |-> EmptyHistory] \in AccountScore
    BY ScoreAssumption DEF TypeInv, EmptyHistory, AccountScore, DailyScore, NoScore
  <2>2. IsMap(EmptyMap, ProductIds) /\ JarsBy(EmptyMap, now)
    BY DEF IsMap, EmptyMap, JarsBy
  <2> QED BY <2>1, <2>2 DEF EmptyAccount, AccountBy
<1> QED BY <1>1 DEF AccountOrNew, TypeInv, AccountsBy

\* A withdrawal request, and the part of the balance that has matured.
LEMMA WithdrawalRequestType ==
    ASSUME TypeInv, NEW account, AccountBy(account, now), NEW p \in DOMAIN account.jars
    PROVE  WithdrawalRequest(account, p) \in [amount : Nat, fee : Nat, partition_index : Nat]
<1>1. account.jars[p] \in JarBy(now) /\ p \in ProductIds /\ now \in Nat
  BY DEF TypeInv, AccountBy, JarsBy, IsMap
<1>2. LiquidBalance(account.jars[p], TermsOf(p), now) \in Nat
  BY <1>1, LiquidBalanceNat
<1>3. CalculateFee(Products[p], LiquidBalance(account.jars[p], TermsOf(p), now)) \in Nat
  BY <1>1, <1>2, FeeNat
<1>4. PartitionIndex(account.jars[p], TermsOf(p), now) \in Nat
  <2>1. account.jars[p].deposits \in Seq(DepositBy(now))
    BY <1>1 DEF JarBy, DepositsBy
  <2> QED BY <1>1, <2>1, PartitionIndexType
<1> QED BY <1>2, <1>3, <1>4 DEF WithdrawalRequest

\* The matured balance of several jars is an amount.
LEMMA MatureBalanceNat ==
    ASSUME TypeInv, NEW account, AccountBy(account, now), NEW ps \in SUBSET DOMAIN account.jars
    PROVE  MatureBalance(account, ps) \in Nat
<1>1. ASSUME NEW p \in ps
      PROVE  LiquidBalance(account.jars[p], TermsOf(p), now) \in Nat
  BY LiquidBalanceNat DEF TypeInv, AccountBy, JarsBy
<1>2. ps \subseteq ProductIds
  BY DEF AccountBy, IsMap
<1> QED BY <1>1, <1>2, TotalNat DEF MatureBalance

\* It depends on the deposits only, not on the caches.
LEMMA MatureBalanceSame ==
    ASSUME NEW account, NEW after, SameJars(account, after),
           NEW ps \in SUBSET DOMAIN account.jars
    PROVE  /\ MatureBalance(after, ps) = MatureBalance(account, ps)
           /\ \A p \in ps : PartitionIndex(after.jars[p], TermsOf(p), now)
                = PartitionIndex(account.jars[p], TermsOf(p), now)
<1>1. ASSUME NEW p \in ps
      PROVE  /\ LiquidBalance(after.jars[p], TermsOf(p), now)
                    = LiquidBalance(account.jars[p], TermsOf(p), now)
             /\ PartitionIndex(after.jars[p], TermsOf(p), now)
                    = PartitionIndex(account.jars[p], TermsOf(p), now)
  BY DEF SameJars, LiquidBalance, PartitionIndex
<1> QED BY <1>1 DEF MatureBalance

-----------------------------------------------------------------------------
(* Every action keeps the types. *)

\* The token's answers to a payout.
LEMMA FtTransferSucceedsType ==
    ASSUME TypeInv, NEW s \in Slots, FtTransferSucceeds(s)
    PROVE  TypeInv'
<1>1. s \in DOMAIN receipts /\ receipts[s].kind # "stake"
  BY DEF FtTransferSucceeds
<1>2. ReceiptsBy(receipts', now)
  BY <1>1, AnswerType DEF FtTransferSucceeds
<1>3. receipts[s].amount \in Nat /\ receipts[s].account \in AccountIds \cup {FeeAccount}
  BY <1>1, ReceiptKinds
<1>4. tokens' \in [Holders -> Nat]
  BY <1>3, TransferType DEF FtTransferSucceeds, Holders
<1> QED BY <1>2, <1>4 DEF TypeInv, FtTransferSucceeds

\* The token refuses a payout.
LEMMA FtTransferFailsType ==
    ASSUME TypeInv, NEW s \in Slots, FtTransferFails(s)
    PROVE  TypeInv'
<1>1. ReceiptsBy(receipts', now)
  BY AnswerType DEF FtTransferFails
<1> QED BY <1>1 DEF TypeInv, FtTransferFails

\* Deposits.
LEMMA StakeType ==
    ASSUME TypeInv, NEW s \in Slots, NEW sender \in AccountIds, NEW a \in AccountIds,
           NEW p \in ProductIds, NEW amount \in Amounts, NEW timezone \in Offered,
           Stake(s, sender, a, p, amount, timezone)
    PROVE  TypeInv'
<1> DEFINE r == [kind |-> "stake", status |-> "sent", account |-> a, sender |-> sender,
                 product |-> p, amount |-> amount, timezone |-> timezone, jars |-> NoJars]
<1>1. amount \in Nat /\ sender \in Holders /\ Vault \in Holders
  BY SweatJarAssumption DEF Holders
<1>2. tokens' \in [Holders -> Nat]
  BY <1>1, TransferType DEF Stake
<1>3. ReceiptBy(r, now)
  BY <1>1 DEF ReceiptBy, IsStake
<1>4. ReceiptsBy(receipts', now)
  <2>1. Send(s, r)
    BY DEF Stake
  <2> HIDE DEF r
  <2> QED BY <1>3, <2>1, SendType
<1> QED BY <1>2, <1>4 DEF TypeInv, Stake

\* The account a deposit goes to, with its timezone.
LEMMA StakeTargetType ==
    ASSUME TypeInv, NEW r, IsStake(r)
    PROVE  /\ AccountBy(StakeTarget(r), now)
           /\ StakeTarget(r).jars = AccountOrNew(r.account).jars
<1>1. r.account \in AccountIds /\ r.timezone \in Timezones \cup {InvalidTimezone}
  BY DEF IsStake, Offered
<1>2. AccountBy(AccountOrNew(r.account), now) /\ now \in Nat
  BY <1>1, AccountOrNewType DEF TypeInv
<1> QED BY <1>1, <1>2, TrySetTimezoneType DEF StakeTarget

\* ft_on_transfer adds the deposit.
LEMMA OnStakeType ==
    ASSUME TypeInv, NEW s \in Slots, OnStake(s)
    PROVE  TypeInv'
<1> DEFINE r == receipts[s]
           deposited == DepositTo(StakeTarget(r), r.product, r.amount, now)
           account == UpdateJarCaches(deposited, {r.product}, now)
<1>1. s \in DOMAIN receipts /\ IsStake(r) /\ now \in Nat
  BY ReceiptKinds DEF OnStake, InFlight, TypeInv
<1>2. r.account \in AccountIds /\ r.product \in ProductIds /\ r.amount \in Nat
  BY <1>1 DEF IsStake
<1>3. AccountBy(deposited, now)
  BY <1>1, <1>2, StakeTargetType, DepositToType
<1>4. AccountBy(account, now)
  <2> HIDE DEF deposited
  <2> QED BY <1>1, <1>3, UpdateJarCachesType
<1>5. AccountsBy(accounts', now)
  <2>1. SetAccount(r.account, account)
    BY DEF OnStake
  <2> HIDE DEF account
  <2> QED BY <1>2, <1>4, <2>1, SetAccountType
<1>6. ReceiptsBy(receipts', now)
  BY ConsumeType DEF OnStake
<1> QED BY <1>5, <1>6 DEF TypeInv, OnStake

\* ft_on_transfer panics.
LEMMA OnStakePanicsType ==
    ASSUME TypeInv, NEW s \in Slots, OnStakePanics(s)
    PROVE  TypeInv'
<1>1. ReceiptsBy(receipts', now)
  BY AnswerType DEF OnStakePanics, InFlight
<1> QED BY <1>1 DEF TypeInv, OnStakePanics

\* The refund never exceeds what the vault holds.
LEMMA RefundStakeType ==
    ASSUME TypeInv, NEW s \in Slots, RefundStake(s)
    PROVE  TypeInv'
<1> DEFINE amount == Smaller(receipts[s].amount, tokens[Vault])
<1>1. s \in DOMAIN receipts /\ IsStake(receipts[s])
  BY ReceiptKinds DEF RefundStake, InFlight
<1>2. receipts[s].sender \in Holders /\ Vault \in Holders /\ receipts[s].amount \in Nat
  BY <1>1 DEF IsStake, Holders
<1>3. amount \in Nat /\ amount <= tokens[Vault]
  BY <1>2 DEF TypeInv, Smaller
<1>4. tokens' \in [Holders -> Nat]
  BY <1>2, <1>3, TransferType DEF RefundStake
<1>5. ReceiptsBy(receipts', now)
  BY ConsumeType DEF RefundStake
<1> QED BY <1>4, <1>5 DEF TypeInv, RefundStake
\* Withdrawals: the net amounts are numbers because of the panic in net_amount.
LEMMA SendWithdrawalType ==
    ASSUME TypeInv, NEW s \in Slots, NEW a \in AccountIds, NEW requests,
           IsMap(requests, ProductIds), CanPay(requests),
           \A p \in DOMAIN requests :
                requests[p] \in [amount : Nat, fee : Nat, partition_index : Nat],
           SendWithdrawal(s, a, requests)
    PROVE  ReceiptsBy(receipts', now)
<1> DEFINE r == [kind |-> "withdraw", status |-> "sent", account |-> a,
                 amount |-> TotalNetAmount(requests), jars |-> requests]
           net == [p \in DOMAIN requests |-> requests[p].amount - requests[p].fee]
<1>1. \A p \in DOMAIN net : net[p] \in Nat
  BY DEF CanPay
<1>2. Total(net) \in Nat
  <2>1. DOMAIN net \subseteq ProductIds
    BY DEF IsMap
  <2> HIDE DEF net
  <2> QED BY <1>1, <2>1, TotalNat
<1>3. TotalNetAmount(requests) \in Nat
  BY <1>2 DEF TotalNetAmount
<1>4. ReceiptBy(r, now)
  BY <1>3 DEF ReceiptBy, IsWithdrawal, Statuses, HasFootprint
<1>5. Send(s, r)
  BY DEF SendWithdrawal
<1> HIDE DEF r
<1> QED BY <1>4, <1>5, SendType

\* withdraw of one jar.
LEMMA WithdrawType ==
    ASSUME TypeInv, NEW s \in Slots, NEW a \in AccountIds, NEW p \in ProductIds, Withdraw(s, a, p)
    PROVE  TypeInv'
<1> DEFINE requests == [q \in {p} |-> WithdrawalRequest(accounts[a], q)]
           updated == UpdateJarCaches(accounts[a], {p}, now)
           account == LockJars(updated, {p})
<1>1. /\ AccountBy(accounts[a], now) /\ now \in Nat
      /\ p \in DOMAIN accounts[a].jars
  BY AccountOrNewType DEF Withdraw, TypeInv, Unlocked, JarsOf
<1>2. \A q \in DOMAIN requests :
            requests[q] \in [amount : Nat, fee : Nat, partition_index : Nat]
  BY <1>1, WithdrawalRequestType
<1>3. IsMap(requests, ProductIds)
  BY DEF IsMap
<1>4. ReceiptsBy(receipts', now)
  <2>1. CanPay(requests) /\ SendWithdrawal(s, a, requests)
    BY DEF Withdraw
  <2> HIDE DEF requests
  <2> QED BY <1>2, <1>3, <2>1, SendWithdrawalType
<1>5. AccountBy(updated, now)
  BY <1>1, UpdateJarCachesType
<1>6. AccountBy(account, now)
  <2> HIDE DEF updated
  <2> QED BY <1>1, <1>5, LockJarsType
<1>7. AccountsBy(accounts', now)
  <2>1. SetAccount(a, account)
    BY DEF Withdraw
  <2> HIDE DEF account
  <2> QED BY <1>6, <2>1, SetAccountType
<1> QED BY <1>4, <1>7 DEF TypeInv, Withdraw

\* withdraw_all, with or without a jar to pay.
LEMMA WithdrawAllType ==
    ASSUME TypeInv, NEW s \in Slots, NEW a \in AccountIds, NEW ps \in SUBSET ProductIds,
           WithdrawAll(s, a, ps)
    PROVE  TypeInv'
<1> DEFINE requests == BulkRequests(a, ps)
           updated == UpdateAccountCache(accounts[a], now)
           account == LockJars(updated, DOMAIN requests)
<1>1. AccountBy(accounts[a], now) /\ now \in Nat
  BY AccountOrNewType DEF WithdrawAll, CanWithdrawAll, TypeInv
<1>2. \A q \in DOMAIN requests :
            requests[q] \in [amount : Nat, fee : Nat, partition_index : Nat]
  BY <1>1, WithdrawalRequestType DEF BulkRequests, Unlocked, JarsOf
<1>3. IsMap(requests, ProductIds)
  BY DEF IsMap, BulkRequests
<1>4. ReceiptsBy(receipts', now)
  <2>1. CanPay(requests) /\ (UNCHANGED receipts \/ SendWithdrawal(s, a, requests))
    BY DEF WithdrawAll, CanWithdrawAll
  <2>2. CASE UNCHANGED receipts
    BY <2>2 DEF TypeInv
  <2>3. CASE SendWithdrawal(s, a, requests)
    <3> HIDE DEF requests
    <3> QED BY <1>2, <1>3, <2>1, <2>3, SendWithdrawalType
  <2> QED BY <2>1, <2>2, <2>3
<1>5. AccountBy(updated, now)
  BY <1>1, UpdateAccountCacheType
<1>6. AccountBy(account, now)
  <2> HIDE DEF updated
  <2> QED BY <1>1, <1>5, LockJarsType
<1>7. AccountsBy(accounts', now)
  <2>1. SetAccount(a, account)
    BY DEF WithdrawAll
  <2> HIDE DEF account
  <2> QED BY <1>6, <2>1, SetAccountType
<1> QED BY <1>4, <1>7 DEF TypeInv, WithdrawAll

\* The callbacks of a withdrawal or a restake find an account they can settle.
LEMMA UnlockedAccountType ==
    ASSUME TypeInv, NEW s \in DOMAIN receipts, HasJars(receipts[s])
    PROVE  LET r == receipts[s]
               account == UnlockJars(accounts[r.account], DOMAIN r.jars)
           IN  /\ AccountBy(accounts[r.account], now)
               /\ AccountBy(account, now)
               /\ LocksSet(accounts[r.account], account, DOMAIN r.jars, FALSE)
               /\ r.account \in AccountIds
<1>1. receipts[s].account \in AccountIds /\ AccountBy(accounts[receipts[s].account], now)
  BY DEF HasJars, TypeInv, AccountsBy, IsMap
<1> QED BY <1>1, UnlockJarsType DEF TypeInv

\* How many deposits of each jar a receipt counted.
LEMMA PartitionType ==
    ASSUME TypeInv, NEW s \in DOMAIN receipts, receipts[s].kind \in {"withdraw", "restake"}
    PROVE  \A p \in DOMAIN PartitionOf(receipts[s]) : PartitionOf(receipts[s])[p] \in Nat
BY ReceiptKinds DEF PartitionOf, IsWithdrawal, IsRestake, HasFootprint

\* A paid withdrawal drains, closes and books the fee.
LEMMA AfterWithdrawType ==
    ASSUME TypeInv, NEW s \in Slots, AfterWithdraw(s)
    PROVE  TypeInv'
<1> DEFINE r == receipts[s]
           ps == DOMAIN r.jars
           unlocked == UnlockJars(accounts[r.account], ps)
           cleaned == CleanUpJars(unlocked, PartitionOf(r))
           account == CloseJars(cleaned, ps)
           fees == [p \in ps |-> r.jars[p].fee]
<1>1. /\ s \in DOMAIN receipts /\ now \in Nat /\ r.kind = "withdraw" /\ r.status = "succeeded"
      /\ CanFinishWithdrawal(r)
  BY DEF AfterWithdraw, InFlight, TypeInv
<1>2. /\ AccountBy(accounts[r.account], now) /\ AccountBy(unlocked, now)
      /\ LocksSet(accounts[r.account], unlocked, ps, FALSE)
      /\ r.account \in AccountIds
  BY <1>1, UnlockedAccountType DEF CanFinishWithdrawal
<1>3. CanCleanUpJars(unlocked, PartitionOf(r))
  <2>1. CanCleanUpJars(accounts[r.account], PartitionOf(r))
    BY <1>1 DEF CanFinishWithdrawal
  <2> HIDE DEF unlocked
  <2> QED BY <1>2, <2>1 DEF CanCleanUpJars, CanCleanUp, LocksSet
<1>4. AccountBy(cleaned, now)
  <2> HIDE DEF unlocked
  <2> QED BY <1>1, <1>2, <1>3, CleanUpJarsType, PartitionType
<1>5. AccountBy(account, now)
  <2> HIDE DEF cleaned
  <2> QED BY <1>1, <1>4, CloseJarsType
<1>6. AccountsBy(accounts', now)
  <2>1. SetAccount(r.account, account)
    BY DEF AfterWithdraw
  <2> HIDE DEF account
  <2> QED BY <1>2, <1>5, <2>1, SetAccountType
<1>7. Total(fees) \in Nat
  <2>1. IsWithdrawal(r)
    BY <1>1, ReceiptKinds
  <2>2. DOMAIN fees \subseteq ProductIds /\ \A p \in DOMAIN fees : fees[p] \in Nat
    BY <2>1 DEF IsWithdrawal, HasFootprint, IsMap
  <2> HIDE DEF fees
  <2> QED BY <2>2, TotalNat
<1>8. fee_amount' \in Nat
  BY <1>7 DEF AfterWithdraw, TypeInv
<1>9. ReceiptsBy(receipts', now)
  BY ConsumeType DEF AfterWithdraw
<1> QED BY <1>6, <1>8, <1>9 DEF TypeInv, AfterWithdraw

\* A failed withdrawal unlocks.
LEMMA AfterFailedWithdrawType ==
    ASSUME TypeInv, NEW s \in Slots, AfterFailedWithdraw(s)
    PROVE  TypeInv'
<1> DEFINE r == receipts[s]
           account == UnlockJars(accounts[r.account], DOMAIN r.jars)
<1>1. AccountBy(account, now) /\ r.account \in AccountIds
  BY UnlockedAccountType DEF AfterFailedWithdraw, InFlight, CanFinishWithdrawal
<1>2. AccountsBy(accounts', now)
  <2>1. SetAccount(r.account, account)
    BY DEF AfterFailedWithdraw
  <2> HIDE DEF account
  <2> QED BY <1>1, <2>1, SetAccountType
<1>3. ReceiptsBy(receipts', now)
  BY ConsumeType DEF AfterFailedWithdraw
<1> QED BY <1>2, <1>3 DEF TypeInv, AfterFailedWithdraw
\* Claims.
LEMMA ClaimJarsType ==
    ASSUME TypeInv, NEW account, AccountBy(account, now), NEW ps
    PROVE  /\ AccountBy(ClaimJars(account, ps), now)
           /\ LocksSet(account, ClaimJars(account, ps), ps, TRUE)
<1> DEFINE accrual(p) ==
               [interest |-> 0, remainder |-> InterestOf(account, p, now).remainder]
           claimed(p) == UpdateCache(account.jars[p], accrual(p), now)
           jars == [p \in DOMAIN account.jars |->
                IF p \in ps THEN Lock(claimed(p)) ELSE account.jars[p]]
<1>0. now \in Nat
  BY DEF TypeInv
<1>1. ASSUME NEW p \in DOMAIN account.jars
      PROVE  /\ jars[p] \in JarBy(now)
             /\ jars[p].is_locked = IF p \in ps THEN TRUE ELSE account.jars[p].is_locked
             /\ jars[p].deposits = account.jars[p].deposits
  <2>1. account.jars[p] \in JarBy(now)
    BY DEF AccountBy, JarsBy
  <2>2. accrual(p) \in Accrual
    BY <1>0, InterestNat DEF Accrual
  <2>3. claimed(p) \in JarBy(now) /\ claimed(p).deposits = account.jars[p].deposits
    <3>1. claimed(p) \in JarBy(now)
      <4> HIDE DEF accrual
      <4> QED BY <1>0, <2>1, <2>2, JarMethods
    <3>2. claimed(p).deposits = account.jars[p].deposits
      <4> HIDE DEF accrual
      <4> QED BY <2>1 DEF UpdateCache, JarBy
    <3> QED BY <3>1, <3>2
  <2>4. /\ Lock(claimed(p)) \in JarBy(now) /\ Lock(claimed(p)).is_locked = TRUE
        /\ Lock(claimed(p)).deposits = account.jars[p].deposits
    <3>1. Lock(claimed(p)) \in JarBy(now)
      <4> HIDE DEF claimed
      <4> QED BY <1>0, <2>3, JarMethods
    <3>2. /\ Lock(claimed(p)).is_locked = TRUE
          /\ Lock(claimed(p)).deposits = account.jars[p].deposits
      <4> HIDE DEF claimed
      <4> QED BY <2>3 DEF Lock, JarBy
    <3> QED BY <3>1, <3>2
  <2> HIDE DEF claimed
  <2> QED BY <2>1, <2>4
<1>2. ClaimJars(account, ps) = [account EXCEPT !.jars = jars]
  BY DEF ClaimJars
<1>3. jars = [p \in DOMAIN account.jars |-> jars[p]]
  OBVIOUS
<1> HIDE DEF jars
<1>4. /\ AccountBy([account EXCEPT !.jars = jars], now)
      /\ [account EXCEPT !.jars = jars].jars = jars
  BY <1>0, <1>1, <1>3, EachJar
<1> QED BY <1>1, <1>2, <1>3, <1>4 DEF LocksSet

\* claim_total sends what was settled, with the snapshot for a rollback.
LEMMA ClaimTotalType ==
    ASSUME TypeInv, NEW s \in Slots, NEW a \in AccountIds, ClaimTotal(s, a)
    PROVE  TypeInv'
<1> DEFINE account == SettleInterest(accounts[a], now)
           claimed == Claimable(a)
           interest == [p \in claimed |-> InterestOf(account, p, now).interest]
           jars == [p \in claimed |-> ToRollback(account.jars[p])]
           r == [kind |-> "claim", status |-> "sent", account |-> a,
                 amount |-> Total(interest), jars |-> jars,
                 timezone |-> account.timezone, score |-> account.score]
<1>1. AccountBy(accounts[a], now) /\ now \in Nat
  BY AccountOrNewType DEF ClaimTotal, TypeInv
<1>2. AccountBy(account, now) /\ SameJars(accounts[a], account)
  BY <1>1, SettleInterestType
<1>3. claimed \subseteq DOMAIN account.jars
  <2>1. claimed \subseteq DOMAIN accounts[a].jars
    BY DEF Claimable, Unlocked, JarsOf
  <2> HIDE DEF account, claimed
  <2> QED BY <1>2, <2>1 DEF SameJars
<1>4. AccountsBy(accounts', now)
  <2>1. SetAccount(a, ClaimJars(account, claimed))
    BY DEF ClaimTotal
  <2> HIDE DEF account, claimed
  <2>2. AccountBy(ClaimJars(account, claimed), now)
    BY <1>2, ClaimJarsType
  <2> QED BY <2>1, <2>2, SetAccountType
<1>5. ReceiptBy(r, now)
  <2>1. DOMAIN account.jars \subseteq ProductIds
    <3> HIDE DEF account
    <3> QED BY <1>2 DEF AccountBy, IsMap
  <2>2. Total(interest) \in Nat
    <3>1. \A p \in DOMAIN interest : interest[p] \in Nat
      <4> HIDE DEF account, claimed
      <4> QED BY <1>1, <1>2, <1>3, InterestNat DEF Accrual
    <3>2. DOMAIN interest \subseteq ProductIds
      BY <1>3, <2>1
    <3> HIDE DEF interest
    <3> QED BY <3>1, <3>2, TotalNat
  <2>3. \A p \in DOMAIN jars : jars[p] \in [claim_remainder : Nat, cache : CacheBy(now)]
    <3> TAKE p \in DOMAIN jars
    <3> HIDE DEF account, claimed
    <3>1. account.jars[p] \in JarBy(now)
      BY <1>2, <1>3 DEF AccountBy, JarsBy
    <3> QED BY <1>1, <3>1, JarMethods
  <2>4. IsMap(jars, ProductIds)
    <3> HIDE DEF account, claimed
    <3> QED BY <1>3, <2>1 DEF IsMap
  <2>5. account.timezone \in Offered /\ account.score \in AccountScore
    <3> HIDE DEF account
    <3> QED BY <1>2 DEF AccountBy, Offered
  <2>6. \A p \in DOMAIN jars : jars[p] \in [claim_remainder : Nat, cache : JarCache]
    BY <1>1, <2>3 DEF CacheBy, JarCache
  <2>7. \A p \in DOMAIN jars : jars[p].cache \in CacheBy(now)
    <3> HIDE DEF jars
    <3> QED BY <2>3
  <2>8. IsClaim(r)
    <3> HIDE DEF jars, interest, account
    <3> QED BY <2>2, <2>4, <2>5, <2>6 DEF IsClaim, Statuses, HasFootprint
  <2>9. r.jars = jars
    OBVIOUS
  <2> HIDE DEF r, jars
  <2> QED BY <2>7, <2>8, <2>9 DEF ReceiptBy
<1>6. ReceiptsBy(receipts', now)
  <2>1. UNCHANGED receipts \/ Send(s, r)
    BY DEF ClaimTotal
  <2>2. CASE UNCHANGED receipts
    BY <2>2 DEF TypeInv
  <2>3. CASE Send(s, r)
    <3> HIDE DEF r
    <3> QED BY <1>5, <2>3, SendType
  <2> QED BY <2>1, <2>2, <2>3
<1> QED BY <1>4, <1>6 DEF TypeInv, ClaimTotal

\* A paid claim unlocks and closes.
LEMMA AfterClaimType ==
    ASSUME TypeInv, NEW s \in Slots, AfterClaim(s)
    PROVE  TypeInv'
<1> DEFINE r == receipts[s]
           unlocked == UnlockJars(accounts[r.account], DOMAIN r.jars)
           account == CloseJars(unlocked, DOMAIN r.jars)
<1>1. AccountBy(unlocked, now) /\ r.account \in AccountIds /\ now \in Nat
  BY UnlockedAccountType DEF AfterClaim, InFlight, TypeInv
<1>2. AccountBy(account, now)
  <2> HIDE DEF unlocked
  <2> QED BY <1>1, CloseJarsType
<1>3. AccountsBy(accounts', now)
  <2>1. SetAccount(r.account, account)
    BY DEF AfterClaim
  <2> HIDE DEF account
  <2> QED BY <1>1, <1>2, <2>1, SetAccountType
<1>4. ReceiptsBy(receipts', now)
  BY ConsumeType DEF AfterClaim
<1> QED BY <1>3, <1>4 DEF TypeInv, AfterClaim

\* The rollback of a claim restores an account.
LEMMA RestoredAccountType ==
    ASSUME TypeInv, NEW s \in DOMAIN receipts, receipts[s].kind = "claim", HasJars(receipts[s])
    PROVE  LET r == receipts[s]
               account == RestoreAccount(accounts[r.account], r)
           IN  /\ AccountBy(account, now)
               /\ LocksSet(accounts[r.account], account, DOMAIN r.jars, FALSE)
               /\ r.account \in AccountIds
<1> DEFINE r == receipts[s]
<1>1. IsClaim(r) /\ \A p \in DOMAIN r.jars : r.jars[p].cache \in CacheBy(now)
  BY ReceiptKinds
<1>2. /\ r.timezone \in Timezones \cup {InvalidTimezone} /\ r.score \in AccountScore
      /\ r.account \in AccountIds
  BY <1>1 DEF IsClaim, Offered
<1>3. \A p \in DOMAIN r.jars : r.jars[p] \in [claim_remainder : Nat, cache : CacheBy(now)]
  BY <1>1 DEF IsClaim, HasFootprint
<1>4. AccountBy(accounts[r.account], now) /\ now \in Nat
  BY UnlockedAccountType DEF TypeInv
<1> HIDE DEF r
<1>5. /\ AccountBy(RestoreAccount(accounts[r.account], r), now)
      /\ LocksSet(accounts[r.account], RestoreAccount(accounts[r.account], r), DOMAIN r.jars, FALSE)
  BY <1>2, <1>3, <1>4, RestoreAccountType
<1> QED BY <1>2, <1>5 DEF r

\* A failed claim is rolled back.
LEMMA AfterFailedClaimType ==
    ASSUME TypeInv, NEW s \in Slots, AfterFailedClaim(s)
    PROVE  TypeInv'
<1> DEFINE r == receipts[s]
           account == RestoreAccount(accounts[r.account], r)
<1>1. AccountBy(account, now) /\ r.account \in AccountIds
  BY RestoredAccountType DEF AfterFailedClaim, InFlight
<1>2. AccountsBy(accounts', now)
  <2>1. SetAccount(r.account, account)
    BY DEF AfterFailedClaim
  <2> HIDE DEF account
  <2> QED BY <1>1, <2>1, SetAccountType
<1>3. ReceiptsBy(receipts', now)
  BY ConsumeType DEF AfterFailedClaim
<1> QED BY <1>2, <1>3 DEF TypeInv, AfterFailedClaim
\* Restakes. What is paid out is a number because the fee on it is no larger;
\* the fee is one because it is taken on a number.
LEMMA MoveDepositsType ==
    ASSUME TypeInv, NEW account, AccountBy(account, now), NEW partition,
           CanCleanUpJars(account, partition),
           \A p \in DOMAIN partition : partition[p] \in Nat,
           NEW target \in ProductIds, NEW amount \in Nat
    PROVE  /\ AccountBy(MoveDeposits(account, partition, target, amount), now)
           /\ JarAdded(account, MoveDeposits(account, partition, target, amount), target)
<1> DEFINE cleaned == CleanUpJars(account, partition)
           after == DepositTo(cleaned, target, amount, now)
<1>1. /\ AccountBy(cleaned, now) /\ DOMAIN cleaned.jars = DOMAIN account.jars /\ now \in Nat
      /\ \A p \in DOMAIN account.jars : cleaned.jars[p].is_locked = account.jars[p].is_locked
  BY CleanUpJarsType DEF TypeInv
<1> HIDE DEF cleaned
<1>2. AccountBy(after, now) /\ JarAdded(cleaned, after, target)
  BY <1>1, DepositToType
<1>3. MoveDeposits(account, partition, target, amount) = after
  BY DEF MoveDeposits, cleaned
<1> HIDE DEF after
<1> QED BY <1>1, <1>2, <1>3 DEF JarAdded

\* restake_internal, with or without a remainder to pay out.
LEMMA RestakeFromType ==
    ASSUME TypeInv, NEW s \in Slots, NEW a \in AccountIds, a \in DOMAIN accounts,
           NEW ps \in SUBSET DOMAIN JarsOf(a), NEW fee,
           NEW target \in ProductIds, NEW amount \in Amounts, NEW timezone \in Offered,
           MatureBalance(accounts[a], ps) - amount >= 0 => fee \in Nat,
           RestakeFrom(s, a, ps, fee, target, amount, timezone)
    PROVE  TypeInv'
<1> DEFINE account == UpdateJarCaches(accounts[a], ps, now)
           localised == IF IsScoreBased(TermsOf(target))
                        THEN TrySetTimezone(account, timezone) ELSE account
           partition == [p \in ps |-> PartitionIndex(account.jars[p], TermsOf(p), now)]
           withdrawn == MatureBalance(account, ps) - amount
           jars == [p \in ps |-> [partition_index |-> partition[p]]]
           r == [kind |-> "restake", status |-> "sent", account |-> a,
                 amount |-> withdrawn - fee, fee |-> fee, jars |-> jars,
                 target |-> target, deposit |-> amount]
<1>1. AccountBy(accounts[a], now) /\ now \in Nat /\ amount \in Nat
  BY AccountOrNewType, SweatJarAssumption DEF TypeInv
<1>2. AccountBy(account, now) /\ SameJars(accounts[a], account)
  BY <1>1, UpdateJarCachesType
<1>3. AccountBy(localised, now) /\ localised.jars = account.jars
  <2> HIDE DEF account
  <2>1. CASE IsScoreBased(TermsOf(target))
    BY <1>1, <1>2, <2>1, TrySetTimezoneType DEF Offered
  <2>2. CASE ~IsScoreBased(TermsOf(target))
    BY <1>2, <2>2
  <2> QED BY <2>1, <2>2
<1>4. /\ ps \subseteq DOMAIN account.jars
      /\ \A p \in ps : partition[p] \in 0 .. Len(account.jars[p].deposits)
                        /\ Len(account.jars[p].deposits) \in Nat
  <2> HIDE DEF account
  <2>1. ps \subseteq DOMAIN account.jars
    BY <1>2 DEF SameJars, JarsOf
  <2>2. ASSUME NEW p \in ps
        PROVE  /\ partition[p] \in 0 .. Len(account.jars[p].deposits)
               /\ Len(account.jars[p].deposits) \in Nat
    <3>1. account.jars[p] \in JarBy(now)
      BY <1>2, <2>1 DEF AccountBy, JarsBy
    <3>2. account.jars[p].deposits \in Seq(DepositBy(now))
      BY <3>1 DEF JarBy, DepositsBy
    <3> QED BY <1>1, <3>1, <3>2, PartitionIndexType
  <2> QED BY <2>1, <2>2
<1>5. ps \subseteq ProductIds
  BY <1>1 DEF AccountBy, IsMap, JarsOf
<1>6. CASE withdrawn = 0 /\ SetAccount(a, MoveDeposits(localised, partition, target, amount))
             /\ UNCHANGED receipts
  <2>1. CanCleanUpJars(localised, partition) /\ \A p \in DOMAIN partition : partition[p] \in Nat
    <3> HIDE DEF account, localised
    <3> QED BY <1>3, <1>4 DEF CanCleanUpJars, CanCleanUp
  <2>2. AccountBy(MoveDeposits(localised, partition, target, amount), now)
    <3> HIDE DEF localised, partition
    <3> QED BY <1>1, <1>3, <2>1, MoveDepositsType
  <2>3. AccountsBy(accounts', now)
    <3> HIDE DEF localised, partition
    <3> QED BY <1>6, <2>2, SetAccountType
  <2> QED BY <1>6, <2>3 DEF TypeInv, RestakeFrom
<1>7. CASE /\ withdrawn > 0 /\ fee <= withdrawn
           /\ SetAccount(a, LockJars(localised, ps)) /\ Send(s, r)
  <2>1. withdrawn \in Nat /\ fee \in Nat /\ withdrawn - fee \in Nat
    <3>1. MatureBalance(account, ps) = MatureBalance(accounts[a], ps)
      BY <1>2, MatureBalanceSame DEF JarsOf
    <3>2. MatureBalance(accounts[a], ps) \in Nat
      BY <1>1, MatureBalanceNat DEF JarsOf
    <3> HIDE DEF account
    <3> QED BY <1>1, <1>7, <3>1, <3>2
  <2>2. ReceiptBy(r, now)
    <3>1. /\ IsMap(jars, ProductIds)
          /\ \A p \in DOMAIN jars : jars[p] \in [partition_index : Nat]
      <4> HIDE DEF account, partition
      <4> QED BY <1>4, <1>5 DEF IsMap
    <3> HIDE DEF jars, withdrawn
    <3>2. IsRestake(r)
      BY <1>1, <2>1, <3>1 DEF IsRestake, Statuses, HasFootprint
    <3> QED BY <3>2 DEF ReceiptBy
  <2>3. ReceiptsBy(receipts', now)
    <3> HIDE DEF r
    <3> QED BY <1>7, <2>2, SendType
  <2>4. AccountsBy(accounts', now)
    <3> HIDE DEF localised
    <3>1. AccountBy(LockJars(localised, ps), now)
      BY <1>1, <1>3, LockJarsType
    <3> QED BY <1>7, <3>1, SetAccountType
  <2> QED BY <2>3, <2>4 DEF TypeInv, RestakeFrom
<1> QED BY <1>6, <1>7 DEF RestakeFrom

\* restake and restake_all restake from unlocked jars, for a fee that is a
\* number.
LEMMA RestakesFrom ==
    ASSUME TypeInv, NEW s \in Slots, NEW a \in AccountIds,
           NEW target \in ProductIds, NEW amount \in Amounts, NEW timezone \in Offered,
           \/ \E from \in ProductIds : Restake(s, a, from, target, amount, timezone)
           \/ RestakeAll(s, a, target, amount, timezone)
    PROVE  /\ a \in DOMAIN accounts
           /\ \E ps \in SUBSET Unlocked(a) : \E fee :
                /\ MatureBalance(accounts[a], ps) - amount >= 0 => fee \in Nat
                /\ RestakeFrom(s, a, ps, fee, target, amount, timezone)
<1>1. a \in DOMAIN accounts
  BY DEF Restake, RestakeAll
<1>2. AccountBy(accounts[a], now) /\ Unlocked(a) \subseteq DOMAIN accounts[a].jars
  BY <1>1, AccountOrNewType DEF Unlocked, JarsOf
<1>3. amount \in Nat /\ amount > 0
  BY SweatJarAssumption
<1>4. ASSUME NEW from \in ProductIds, Restake(s, a, from, target, amount, timezone)
      PROVE  \E ps \in SUBSET Unlocked(a) : \E fee :
                /\ MatureBalance(accounts[a], ps) - amount >= 0 => fee \in Nat
                /\ RestakeFrom(s, a, ps, fee, target, amount, timezone)
  <2> DEFINE rest == MatureBalance(accounts[a], {from}) - amount
             fee == CalculateFee(Products[from], rest)
  <2>1. {from} \in SUBSET Unlocked(a)
    BY <1>4 DEF Restake
  <2>2. MatureBalance(accounts[a], {from}) \in Nat
    BY <1>2, <2>1, MatureBalanceNat
  <2>3. rest >= 0 => fee \in Nat
    <3>1. rest >= 0 => rest \in Nat
      BY <1>3, <2>2
    <3> HIDE DEF rest
    <3> QED BY <3>1, FeeNat
  <2>4. RestakeFrom(s, a, {from}, fee, target, amount, timezone)
    BY <1>4 DEF Restake
  <2> HIDE DEF fee
  <2> QED BY <2>1, <2>3, <2>4
<1>5. ASSUME RestakeAll(s, a, target, amount, timezone)
      PROVE  \E ps \in SUBSET Unlocked(a) : \E fee :
                /\ MatureBalance(accounts[a], ps) - amount >= 0 => fee \in Nat
                /\ RestakeFrom(s, a, ps, fee, target, amount, timezone)
  <2> DEFINE mature == {p \in Unlocked(a) : MatureBalance(accounts[a], {p}) > 0}
             balance == MatureBalance(accounts[a], mature)
             fees == [p \in mature |->
                        CalculateFee(Products[p], MatureBalance(accounts[a], {p}))]
             fee == CeilDiv(Total(fees) * (balance - amount), balance)
  <2>1. mature \in SUBSET Unlocked(a)
    OBVIOUS
  <2>2. balance \in Nat
    <3> HIDE DEF mature
    <3> QED BY <1>2, <2>1, MatureBalanceNat
  <2>3. Total(fees) \in Nat
    <3>1. mature \subseteq ProductIds
      BY <1>2, <2>1 DEF AccountBy, IsMap
    <3>2. ASSUME NEW p \in mature
          PROVE  CalculateFee(Products[p], MatureBalance(accounts[a], {p})) \in Nat
      <4>1. {p} \in SUBSET DOMAIN accounts[a].jars
        BY <1>2, <2>1
      <4>2. MatureBalance(accounts[a], {p}) \in Nat
        BY <1>2, <4>1, MatureBalanceNat
      <4> HIDE DEF mature
      <4> QED BY <3>1, <4>2, FeeNat
    <3>3. DOMAIN fees \subseteq ProductIds /\ \A p \in DOMAIN fees : fees[p] \in Nat
      <4> HIDE DEF mature
      <4> QED BY <3>1, <3>2
    <3> HIDE DEF fees
    <3> QED BY <3>3, TotalNat
  <2>4. amount <= balance
    BY <1>5 DEF RestakeAll
  <2>5. fee \in Nat
    <3> DEFINE x == Total(fees) * (balance - amount)
    <3>1. x \in Nat
      <4> HIDE DEF fees, balance
      <4> QED BY <1>3, <2>2, <2>3, <2>4, TimesNat
    <3>2. x + balance - 1 \in Nat /\ balance \in Nat \ {0}
      <4> HIDE DEF x, balance
      <4> QED BY <1>3, <2>2, <2>4, <3>1
    <3>3. CeilDiv(x, balance) \in Nat
      <4> HIDE DEF x, balance
      <4> QED BY <3>2, DivNat DEF CeilDiv
    <3> QED BY <3>3
  <2>6. RestakeFrom(s, a, mature, fee, target, amount, timezone)
    BY <1>5 DEF RestakeAll
  <2> HIDE DEF fee, mature
  <2> QED BY <2>1, <2>5, <2>6
<1> QED BY <1>1, <1>4, <1>5

\* restake and restake_all.
LEMMA RestakeType ==
    ASSUME TypeInv, NEW s \in Slots, NEW a \in AccountIds,
           NEW target \in ProductIds, NEW amount \in Amounts, NEW timezone \in Offered,
           \/ \E from \in ProductIds : Restake(s, a, from, target, amount, timezone)
           \/ RestakeAll(s, a, target, amount, timezone)
    PROVE  TypeInv'
<1>1. a \in DOMAIN accounts
  BY RestakesFrom
<1>2. PICK ps \in SUBSET Unlocked(a) : \E fee :
        /\ MatureBalance(accounts[a], ps) - amount >= 0 => fee \in Nat
        /\ RestakeFrom(s, a, ps, fee, target, amount, timezone)
  BY RestakesFrom
<1>3. ps \in SUBSET DOMAIN JarsOf(a)
  BY DEF Unlocked
<1> QED BY <1>1, <1>2, <1>3, RestakeFromType

\* The remainder was paid, so the rest moves.
LEMMA AfterTransferRemainderType ==
    ASSUME TypeInv, NEW s \in Slots, AfterTransferRemainder(s)
    PROVE  TypeInv'
<1> DEFINE r == receipts[s]
           unlocked == UnlockJars(accounts[r.account], DOMAIN r.jars)
           account == MoveDeposits(unlocked, PartitionOf(r), r.target, r.deposit)
<1>1. s \in DOMAIN receipts /\ r.kind = "restake" /\ HasJars(r)
  BY DEF AfterTransferRemainder, InFlight
<1>2. IsRestake(r)
  BY <1>1, ReceiptKinds
<1>3. r.target \in ProductIds /\ r.deposit \in Nat /\ r.fee \in Nat
  BY <1>2 DEF IsRestake
<1>4. AccountBy(unlocked, now) /\ r.account \in AccountIds
  BY <1>1, UnlockedAccountType
<1>5. CanCleanUpJars(unlocked, PartitionOf(r))
  BY DEF AfterTransferRemainder
<1>6. AccountBy(account, now)
  <2> HIDE DEF unlocked
  <2> QED BY <1>1, <1>3, <1>4, <1>5, PartitionType, MoveDepositsType
<1>7. AccountsBy(accounts', now)
  <2>1. SetAccount(r.account, account)
    BY DEF AfterTransferRemainder
  <2> HIDE DEF account
  <2> QED BY <1>4, <1>6, <2>1, SetAccountType
<1>8. fee_amount' \in Nat
  BY <1>3 DEF AfterTransferRemainder, TypeInv
<1>9. ReceiptsBy(receipts', now)
  BY ConsumeType DEF AfterTransferRemainder
<1> QED BY <1>7, <1>8, <1>9 DEF TypeInv, AfterTransferRemainder

\* The remainder was not paid, so nothing moves.
LEMMA AfterFailedTransferRemainderType ==
    ASSUME TypeInv, NEW s \in Slots, AfterFailedTransferRemainder(s)
    PROVE  TypeInv'
<1> DEFINE r == receipts[s]
           account == UnlockJars(accounts[r.account], DOMAIN r.jars)
<1>1. AccountBy(account, now) /\ r.account \in AccountIds
  BY UnlockedAccountType DEF AfterFailedTransferRemainder, InFlight
<1>2. AccountsBy(accounts', now)
  <2>1. SetAccount(r.account, account)
    BY DEF AfterFailedTransferRemainder
  <2> HIDE DEF account
  <2> QED BY <1>1, <2>1, SetAccountType
<1>3. ReceiptsBy(receipts', now)
  BY ConsumeType DEF AfterFailedTransferRemainder
<1> QED BY <1>2, <1>3 DEF TypeInv, AfterFailedTransferRemainder

\* Fees.
LEMMA WithdrawFeeType ==
    ASSUME TypeInv, NEW s \in Slots, WithdrawFee(s)
    PROVE  TypeInv'
<1> DEFINE r == [kind |-> "fee", status |-> "sent", account |-> FeeAccount,
                 amount |-> fee_amount, jars |-> NoJars]
<1>1. ReceiptBy(r, now)
  BY DEF TypeInv, ReceiptBy, IsFee, Statuses
<1>2. ReceiptsBy(receipts', now)
  <2>1. Send(s, r)
    BY DEF WithdrawFee
  <2> HIDE DEF r
  <2> QED BY <1>1, <2>1, SendType
<1> QED BY <1>2 DEF TypeInv, WithdrawFee

\* The fees were paid out.
LEMMA AfterFeeWithdrawnType ==
    ASSUME TypeInv, NEW s \in Slots, AfterFeeWithdrawn(s)
    PROVE  TypeInv'
<1>1. ReceiptsBy(receipts', now)
  BY ConsumeType DEF AfterFeeWithdrawn
<1> QED BY <1>1 DEF TypeInv, AfterFeeWithdrawn

\* The fees were not paid out and are booked again.
LEMMA AfterFailedFeeWithdrawalType ==
    ASSUME TypeInv, NEW s \in Slots, AfterFailedFeeWithdrawal(s)
    PROVE  TypeInv'
<1>1. ReceiptsBy(receipts', now)
  BY ConsumeType DEF AfterFailedFeeWithdrawal
<1>2. receipts[s].amount \in Nat
  BY ReceiptKinds DEF AfterFailedFeeWithdrawal, InFlight
<1>3. fee_amount' \in Nat
  BY <1>2 DEF TypeInv, AfterFailedFeeWithdrawal
<1> QED BY <1>1, <1>3 DEF TypeInv, AfterFailedFeeWithdrawal

\* The oracle, the manager and the maintainers.
LEMMA SetFeatureEnabledType ==
    ASSUME TypeInv, NEW a \in AccountIds, NEW feature \in Features, NEW is_enabled \in BOOLEAN,
           SetFeatureEnabled(a, feature, is_enabled)
    PROVE  TypeInv'
<1> DEFINE account == IF a \in DOMAIN accounts
                      THEN UpdateAccountCache(accounts[a], now) ELSE EmptyAccount(now)
           features == IF is_enabled THEN account.features \cup {feature}
                       ELSE account.features \ {feature}
<1>1. AccountBy(account, now)
  <2>1. CASE a \in DOMAIN accounts
    BY <2>1, AccountOrNewType, UpdateAccountCacheType DEF TypeInv
  <2>2. CASE a \notin DOMAIN accounts
    BY <2>2, AccountOrNewType DEF AccountOrNew
  <2> QED BY <2>1, <2>2
<1>2. SetAccount(a, [account EXCEPT !.features = features])
  BY DEF SetFeatureEnabled
<1>3. features \in SUBSET Features
  <2> HIDE DEF account
  <2> QED BY <1>1 DEF AccountBy
<1> HIDE DEF account, features
<1>4. AccountBy([account EXCEPT !.features = features], now)
  BY <1>1, <1>3, WithFeatures DEF TypeInv
<1>5. AccountsBy(accounts', now)
  BY <1>2, <1>4, SetAccountType
<1> QED BY <1>5 DEF TypeInv, SetFeatureEnabled

\* set_timezone.
LEMMA SetTimezoneType ==
    ASSUME TypeInv, NEW a \in AccountIds, NEW timezone \in Timezones, SetTimezone(a, timezone)
    PROVE  TypeInv'
<1>1. AccountBy(TrySetTimezone(AccountOrNew(a), timezone), now)
  BY AccountOrNewType, TrySetTimezoneType DEF TypeInv
<1>2. AccountsBy(accounts', now)
  BY <1>1, SetAccountType DEF SetTimezone
<1> QED BY <1>2 DEF TypeInv, SetTimezone

\* record_score settles first.
LEMMA RecordScoreType ==
    ASSUME TypeInv, NEW a \in AccountIds, NEW increments \in Increments,
           RecordScore(a, increments)
    PROVE  TypeInv'
<1> DEFINE account == SettleInterest(accounts[a], now)
           score == UpdateScore(account.score, increments, now)
<1>1. AccountBy(account, now) /\ now \in Nat
  BY AccountOrNewType, SettleInterestType DEF RecordScore, HasTimezone, TypeInv
<1>2. score \in AccountScore
  <2>1. increments \in [DaysStored -> Nat]
    BY SweatJarAssumption
  <2> HIDE DEF account
  <2> QED BY <1>1, <2>1, UpdateScoreType DEF AccountBy
<1>3. SetAccount(a, [account EXCEPT !.score = score])
  BY DEF RecordScore
<1> HIDE DEF account, score
<1>4. AccountsBy(accounts', now)
  BY <1>1, <1>2, <1>3, WithScore, SetAccountType
<1> QED BY <1>4 DEF TypeInv, RecordScore

\* apply_booster settles first.
LEMMA ApplyBoosterType ==
    ASSUME TypeInv, NEW a \in AccountIds, NEW days_ago, NEW value \in Boosters,
           ApplyBooster(a, days_ago, value)
    PROVE  TypeInv'
<1> DEFINE account == SettleInterest(accounts[a], now)
           score == ApplyBoosterTo(account.score, days_ago, value, now)
<1>1. AccountBy(account, now) /\ now \in Nat
  BY AccountOrNewType, SettleInterestType DEF ApplyBooster, HasTimezone, TypeInv
<1>2. score \in AccountScore
  <2>1. value \in 0 .. MaxScore
    BY SweatJarAssumption
  <2> HIDE DEF account
  <2> QED BY <1>1, <2>1, ApplyBoosterToType DEF AccountBy
<1>3. SetAccount(a, [account EXCEPT !.score = score])
  BY DEF ApplyBooster
<1> HIDE DEF account, score
<1>4. AccountsBy(accounts', now)
  BY <1>1, <1>2, <1>3, WithScore, SetAccountType
<1> QED BY <1>4 DEF TypeInv, ApplyBooster

\* A maintainer unlocks jars.
LEMMA UnlockJarsForAccountType ==
    ASSUME TypeInv, NEW a \in AccountIds, NEW ps, UnlockJarsForAccount(a, ps)
    PROVE  TypeInv'
<1>1. AccountBy(UnlockJars(accounts[a], ps), now)
  BY AccountOrNewType, UnlockJarsType DEF UnlockJarsForAccount, TypeInv
<1>2. AccountsBy(accounts', now)
  BY <1>1, SetAccountType DEF UnlockJarsForAccount
<1> QED BY <1>2 DEF TypeInv, UnlockJarsForAccount

\* A callback that panics only disappears.
LEMMA CallbackPanicsType ==
    ASSUME TypeInv, NEW s \in Slots, CallbackPanics(s)
    PROVE  TypeInv'
<1>1. ReceiptsBy(receipts', now)
  BY ConsumeType DEF CallbackPanics
<1> QED BY <1>1 DEF TypeInv, CallbackPanics

\* Time passes: what is not from the future stays so.
LEMMA TickType ==
    ASSUME TypeInv, Tick
    PROVE  TypeInv'
<1>1. now \in Nat /\ now' = now + 1 /\ now' \in Nat /\ now <= now' /\ now' >= Genesis
  BY SweatJarAssumption DEF TypeInv, Tick
<1>2. AccountsBy(accounts, now')
  BY <1>1, LaterAccount DEF TypeInv, AccountsBy
<1>3. ReceiptsBy(receipts, now')
  <2>1. CacheBy(now) \subseteq CacheBy(now')
    BY <1>1 DEF CacheBy
  <2> QED BY <2>1 DEF TypeInv, ReceiptsBy, ReceiptBy
<1> QED BY <1>1, <1>2, <1>3 DEF TypeInv, Tick

\* Only the clock changes the time.
LEMMA TimeStandsStill ==
    ASSUME [Next]_vars, ~Tick
    PROVE  now' = now
<1>1. CASE UNCHANGED vars
  BY <1>1 DEF vars
<1>2. CASE \E s \in Slots : TokenReceipt(s) \/ ContractReceipt(s)
  BY <1>2 DEF TokenReceipt, ContractReceipt, PayoutReceipt, FtTransferSucceeds,
     FtTransferFails, RefundStake, OnStake, OnStakePanics, AfterWithdraw,
     AfterFailedWithdraw, AfterClaim, AfterFailedClaim, AfterTransferRemainder,
     AfterFailedTransferRemainder, AfterFeeWithdrawn, AfterFailedFeeWithdrawal,
     CallbackPanics
<1>3. CASE \E s \in FreeSlots, a \in AccountIds : UserCall(s, a)
  <2>1. \A s, a, ps, fee, q, x, tz : RestakeFrom(s, a, ps, fee, q, x, tz) => now' = now
    BY DEF RestakeFrom
  <2>2. \A s, a, p, q, x, tz : Restake(s, a, p, q, x, tz) => now' = now
    BY <2>1 DEF Restake
  <2>3. \A s, a, q, x, tz : RestakeAll(s, a, q, x, tz) => now' = now
    BY <2>1 DEF RestakeAll
  <2>4. \A s, a : PayoutCall(s, a) => now' = now
    BY DEF PayoutCall, Withdraw, WithdrawAll, ClaimTotal
  <2>5. \A s, sender, a, p, x, tz : Stake(s, sender, a, p, x, tz) => now' = now
    BY DEF Stake
  <2> QED BY <1>3, <2>2, <2>3, <2>4, <2>5 DEF UserCall
<1>4. CASE \E s \in FreeSlots : WithdrawFee(s)
  BY <1>4 DEF WithdrawFee
<1>5. CASE \E a \in AccountIds : OperatorCall(a)
  BY <1>5 DEF OperatorCall, SetPenalty, SetFeatureEnabled, SetTimezone, RecordScore,
     ApplyBooster, UnlockJarsForAccount
<1>6. CASE \E p \in Managed, e \in BOOLEAN : SetEnabled(p, e)
  BY <1>6 DEF SetEnabled
<1> QED BY <1>1, <1>2, <1>3, <1>4, <1>5, <1>6 DEF Next

-----------------------------------------------------------------------------
\* Every step keeps the types.
LEMMA TypeInvNext == TypeInv /\ [Next]_vars => TypeInv'
<1> SUFFICES ASSUME TypeInv, [Next]_vars PROVE TypeInv'
  OBVIOUS
<1>1. CASE UNCHANGED vars
  BY <1>1 DEF vars, TypeInv
<1>2. CASE \E s \in Slots : TokenReceipt(s) \/ ContractReceipt(s)
  <2> PICK s \in Slots : TokenReceipt(s) \/ ContractReceipt(s)
    BY <1>2
  <2>1. CASE TokenReceipt(s)
    BY <2>1, FtTransferSucceedsType, FtTransferFailsType, RefundStakeType DEF TokenReceipt
  <2>2. CASE ContractReceipt(s)
    BY <2>2, OnStakeType, OnStakePanicsType, AfterWithdrawType, AfterFailedWithdrawType,
       AfterClaimType, AfterFailedClaimType, AfterTransferRemainderType,
       AfterFailedTransferRemainderType, AfterFeeWithdrawnType,
       AfterFailedFeeWithdrawalType, CallbackPanicsType
       DEF ContractReceipt, PayoutReceipt
  <2> QED BY <2>1, <2>2
<1>3. CASE \E s \in FreeSlots, a \in AccountIds : UserCall(s, a)
  <2> PICK s \in Slots, a \in AccountIds : UserCall(s, a)
    BY <1>3 DEF FreeSlots
  <2> QED BY StakeType, WithdrawType, WithdrawAllType, ClaimTotalType, RestakeType
         DEF UserCall, PayoutCall
<1>4. CASE \E s \in FreeSlots : WithdrawFee(s)
  BY <1>4, WithdrawFeeType DEF FreeSlots
<1>5. CASE \E a \in AccountIds : OperatorCall(a)
  <2> PICK a \in AccountIds : OperatorCall(a)
    BY <1>5
  <2>1. \A f \in FeaturesSet : f \in Features
    BY SweatJarAssumption
  <2>2. \A e \in BOOLEAN : SetPenalty(a, e) => SetFeatureEnabled(a, "IncreasedApy", ~e)
    BY DEF SetPenalty
  <2>3. "IncreasedApy" \in Features /\ \A e \in BOOLEAN : (~e) \in BOOLEAN
    BY DEF Features
  <2>4. CASE \E f \in FeaturesSet, e \in BOOLEAN : SetFeatureEnabled(a, f, e)
    BY <2>1, <2>4, SetFeatureEnabledType
  <2>5. CASE \E e \in BOOLEAN : "IncreasedApy" \in FeaturesSet /\ SetPenalty(a, e)
    BY <2>2, <2>3, <2>5, SetFeatureEnabledType
  <2>6. CASE \E tz \in Timezones : SetTimezone(a, tz)
    BY <2>6, SetTimezoneType
  <2>7. CASE \E i \in Increments : RecordScore(a, i)
    BY <2>7, RecordScoreType
  <2>8. CASE \E d \in 0 .. 2, v \in Boosters : ApplyBooster(a, d, v)
    BY <2>8, ApplyBoosterType
  <2>9. CASE \E ps \in SUBSET ProductIds : UnlockJarsForAccount(a, ps)
    BY <2>9, UnlockJarsForAccountType
  <2> QED BY <2>4, <2>5, <2>6, <2>7, <2>8, <2>9 DEF OperatorCall
<1>6. CASE \E p \in Managed, e \in BOOLEAN : SetEnabled(p, e)
  BY <1>6, SweatJarAssumption DEF SetEnabled, TypeInv
<1>7. CASE Tick
  BY <1>7, TickType
<1> QED BY <1>1, <1>2, <1>3, <1>4, <1>5, <1>6, <1>7 DEF Next

\* Every state of the contract is type-correct: no subtraction of token
\* amounts underflows, and no deposit earns for a negative time.
THEOREM TypeCorrect == Spec => []TypeOK
<1>1. Init => TypeInv
  BY TypeInvInit
<1>2. TypeInv /\ [Next]_vars => TypeInv'
  BY TypeInvNext
<1>3. TypeInv => TypeOK
  BY TypeInvTypeOK
<1> QED BY <1>1, <1>2, <1>3, PTL DEF Spec

-----------------------------------------------------------------------------
(* What a callback does that reports a failed transfer.                     *)

\* A receipt is gone only when it is refunded or its callback has run.
LEMMA Consumed ==
    ASSUME [Next]_vars, NEW s \in DOMAIN receipts, s \notin DOMAIN receipts'
    PROVE  RefundStake(s) \/ ContractReceipt(s)
<1>1. \A x, r : ~Send(x, r)
  BY DEF Send, Put
<1>2. receipts' # receipts
  OBVIOUS
<1>3. \A x, status : receipts' # [receipts EXCEPT ![x].status = status]
  OBVIOUS
<1>4. ASSUME NEW x, Consume(x) PROVE x = s
  BY <1>4 DEF Consume, Drop, Restrict
<1>5. CASE \E x \in Slots : TokenReceipt(x) \/ ContractReceipt(x)
  <2> PICK x \in Slots : TokenReceipt(x) \/ ContractReceipt(x)
    BY <1>5
  <2>1. Consume(x) /\ (RefundStake(x) \/ ContractReceipt(x))
    <3>1. CASE TokenReceipt(x)
      BY <1>3, <3>1 DEF TokenReceipt, FtTransferSucceeds, FtTransferFails, RefundStake
    <3>2. CASE ContractReceipt(x)
      BY <1>3, <3>2 DEF ContractReceipt, PayoutReceipt, OnStake, OnStakePanics,
         AfterWithdraw, AfterFailedWithdraw, AfterClaim, AfterFailedClaim,
         AfterTransferRemainder, AfterFailedTransferRemainder, AfterFeeWithdrawn,
         AfterFailedFeeWithdrawal, CallbackPanics
    <3> QED BY <3>1, <3>2
  <2> QED BY <1>4, <2>1
<1>6. ~\E x \in FreeSlots, a \in AccountIds : UserCall(x, a)
  <2>1. \A x, a, ps, fee, q, amount, tz : ~RestakeFrom(x, a, ps, fee, q, amount, tz)
    BY <1>1, <1>2 DEF RestakeFrom
  <2>2. \A x, a, p, q, amount, tz : ~Restake(x, a, p, q, amount, tz)
    BY <2>1 DEF Restake
  <2>3. \A x, a, q, amount, tz : ~RestakeAll(x, a, q, amount, tz)
    BY <2>1 DEF RestakeAll
  <2>4. \A x, a : ~PayoutCall(x, a)
    BY <1>1, <1>2 DEF PayoutCall, Withdraw, WithdrawAll, ClaimTotal, SendWithdrawal
  <2>5. \A x, sender, a, p, amount, tz : ~Stake(x, sender, a, p, amount, tz)
    BY <1>1 DEF Stake
  <2> QED BY <2>2, <2>3, <2>4, <2>5 DEF UserCall
<1>7. ~\E x \in FreeSlots : WithdrawFee(x)
  BY <1>1 DEF WithdrawFee
<1>8. ~\E a \in AccountIds : OperatorCall(a)
  BY <1>2 DEF OperatorCall, SetPenalty, SetFeatureEnabled, SetTimezone, RecordScore,
     ApplyBooster, UnlockJarsForAccount
<1>9. ~UNCHANGED vars /\ ~Tick /\ ~\E p \in Managed, e \in BOOLEAN : SetEnabled(p, e)
  BY <1>2 DEF vars, Tick, SetEnabled
<1> QED BY <1>5, <1>6, <1>7, <1>8, <1>9 DEF Next

\* Setting locks leaves the deposits of an account alone.
LEMMA LocksKeepDeposits ==
    ASSUME TypeInv, NEW a \in AccountIds, a \in DOMAIN accounts, NEW after,
           SetAccount(a, after), NEW ps, NEW b, LocksSet(accounts[a], after, ps, b)
    PROVE  DepositsOf(a)' = DepositsOf(a)
<1>1. accounts'[a] = after
  BY DEF SetAccount, Put
<1>2. DepositsOf(a)' = [p \in DOMAIN after.jars |-> after.jars[p].deposits]
  BY <1>1 DEF DepositsOf, JarsOf
<1>3. DepositsOf(a) = [p \in DOMAIN after.jars |-> after.jars[p].deposits]
  BY DEF DepositsOf, JarsOf, LocksSet
<1> QED BY <1>2, <1>3

\* A step that consumes a failed payout keeps the deposits and the fees.
LEMMA FailedKeeps ==
    ASSUME TypeInv, [Next]_vars, NEW s \in DOMAIN receipts, s \notin DOMAIN receipts',
           receipts[s].kind \in {"withdraw", "claim", "restake"},
           receipts[s].status = "failed", NEW a, a = receipts[s].account
    PROVE  DepositsOf(a)' = DepositsOf(a) /\ fee_amount' = fee_amount
<1>1. \/ AfterFailedWithdraw(s) \/ AfterFailedTransferRemainder(s)
      \/ AfterFailedClaim(s) \/ CallbackPanics(s)
  <2>1. RefundStake(s) \/ ContractReceipt(s)
    BY Consumed
  <2>2. ~RefundStake(s) /\ ~OnStake(s) /\ ~OnStakePanics(s)
    BY DEF RefundStake, OnStake, OnStakePanics, InFlight
  <2>3. ~AfterWithdraw(s) /\ ~AfterClaim(s) /\ ~AfterTransferRemainder(s)
    BY DEF AfterWithdraw, AfterClaim, AfterTransferRemainder, InFlight
  <2>4. ~AfterFeeWithdrawn(s) /\ ~AfterFailedFeeWithdrawal(s)
    BY DEF AfterFeeWithdrawn, AfterFailedFeeWithdrawal, InFlight
  <2> QED BY <2>1, <2>2, <2>3, <2>4 DEF ContractReceipt, PayoutReceipt
<1>2. CASE CallbackPanics(s)
  BY <1>2 DEF CallbackPanics, DepositsOf, JarsOf
<1>3. CASE AfterFailedWithdraw(s) \/ AfterFailedTransferRemainder(s)
  <2> DEFINE after == UnlockJars(accounts[a], DOMAIN receipts[s].jars)
  <2>1. /\ HasJars(receipts[s]) /\ SetAccount(a, after) /\ fee_amount' = fee_amount
    BY <1>3 DEF AfterFailedWithdraw, AfterFailedTransferRemainder, CanFinishWithdrawal
  <2>2. a \in AccountIds /\ LocksSet(accounts[a], after, DOMAIN receipts[s].jars, FALSE)
    BY <2>1, UnlockedAccountType
  <2> HIDE DEF after
  <2> QED BY <2>1, <2>2, LocksKeepDeposits DEF HasJars
<1>4. CASE AfterFailedClaim(s)
  <2> DEFINE after == RestoreAccount(accounts[a], receipts[s])
  <2>1. /\ receipts[s].kind = "claim" /\ HasJars(receipts[s]) /\ SetAccount(a, after)
        /\ fee_amount' = fee_amount
    BY <1>4 DEF AfterFailedClaim, InFlight
  <2>2. a \in AccountIds /\ LocksSet(accounts[a], after, DOMAIN receipts[s].jars, FALSE)
    BY <2>1, RestoredAccountType, ReceiptKinds DEF IsClaim
  <2> HIDE DEF after
  <2> QED BY <2>1, <2>2, LocksKeepDeposits DEF HasJars
<1> QED BY <1>1, <1>2, <1>3, <1>4

\* A failed payout leaves the deposits of its account where they were and
\* keeps no fee of them, in whatever state its callback finds the jars, and
\* even if a maintainer has unlocked them meanwhile.
THEOREM DepositsKept == Spec => FailureKeepsDeposits
<1>1. ASSUME TypeInv, [Next]_vars
      PROVE  [\A r \in Failing({"withdraw", "claim", "restake"}) :
                /\ DepositsOf(r.account)' = DepositsOf(r.account)
                /\ fee_amount' = fee_amount]_vars
  <2> SUFFICES ASSUME NEW r \in Failing({"withdraw", "claim", "restake"})
               PROVE  /\ DepositsOf(r.account)' = DepositsOf(r.account)
                      /\ fee_amount' = fee_amount
    OBVIOUS
  <2>1. PICK s \in DOMAIN receipts :
            /\ receipts[s] = r /\ s \notin DOMAIN receipts'
            /\ r.kind \in {"withdraw", "claim", "restake"} /\ r.status = "failed"
    BY DEF Failing
  <2>2. r.account = receipts[s].account
    BY <2>1
  <2> QED BY <1>1, <2>1, <2>2, FailedKeeps
<1> QED BY <1>1, TypeInvInit, TypeInvNext, PTL DEF Spec, FailureKeepsDeposits
=============================================================================
