------------------------------ MODULE SweatJar ------------------------------
(***************************************************************************)
(* The contract and the fungible token it holds deposits in. A public      *)
(* method is one atomic receipt; one that panics leaves no trace, so its   *)
(* panics are the guards of its action. A payout is a receipt of its own:  *)
(* the method locks the jars it is about, sends ft_transfer to the token,  *)
(* and a callback settles the outcome, any number of receipts later.       *)
(* receipts holds what is in flight: withdrawals, claims, restakes and fee *)
(* payouts on their way out, and ft_transfer_call deposits on their way in.*)
(***************************************************************************)
EXTENDS Account

CONSTANTS AccountIds, FeeAccount,
          Vault,              \* the contract's own balance at the token
          Slots,              \* bounds how many transfers are in flight
          Genesis, MaxTime,   \* bound the clock
          InitialTokens,      \* balances at the token: bounds all deposits
          Calls,              \* the methods users call in this instance
          MaxJarsPerClaim,    \* MAX_JARS_PER_CLAIM
          Amounts,            \* amounts callers deposit and restake
          MaintainerUnlocks,  \* whether maintainers unlock jars by hand
          FeaturesSet,        \* features the oracle switches
          Increments,         \* step increments the oracle records, per day
          Boosters,           \* boosters the oracle grants
          Managed             \* products the manager enables and disables

Methods == {"withdraw", "withdraw_all", "claim_total", "restake", "restake_all",
            "withdraw_fee"}

Holders == AccountIds \cup {FeeAccount, Vault}

\* The chain's clock is past its second day when the contract starts.
ASSUME SweatJarAssumption ==
    /\ FeeAccount \notin AccountIds /\ Vault \notin AccountIds \cup {FeeAccount}
    /\ Genesis \in Nat /\ MaxTime \in Nat /\ Genesis > 2 * MsInDay
    /\ InitialTokens \in [Holders -> Nat]
    /\ Calls \subseteq Methods /\ Amounts \subseteq Nat \ {0}
    /\ MaxJarsPerClaim \in Nat
    /\ MaintainerUnlocks \in BOOLEAN
    /\ FeaturesSet \subseteq Features /\ Managed \subseteq ProductIds
    /\ Increments \subseteq [DaysStored -> Nat] /\ Boosters \subseteq 0 .. MaxScore

VARIABLES now,          \* block_timestamp_ms
          enabled,      \* the products that accept deposits
          accounts,     \* Contract::accounts
          fee_amount,   \* withdrawal fees collected and not paid out
          receipts,     \* transfers in flight
          tokens        \* balances at the token

vars == <<now, enabled, accounts, fee_amount, receipts, tokens>>

Init ==
    /\ now = Genesis
    /\ enabled = ProductIds
    /\ accounts = EmptyMap
    /\ fee_amount = 0
    /\ receipts = EmptyMap
    /\ tokens = InitialTokens

FreeSlots == Slots \ DOMAIN receipts

InFlight(s, kind, status) ==
    s \in DOMAIN receipts /\ receipts[s].kind = kind /\ receipts[s].status = status

Send(s, receipt) == receipts' = Put(receipts, s, receipt)
Consume(s) == receipts' = Drop(receipts, {s})

SetAccount(a, account) == accounts' = Put(accounts, a, account)

JarsOf(a) == accounts[a].jars

\* Mutant: assert_not_locked is not called.
LockedOrNot(a) == DOMAIN JarsOf(a)

Unlocked(a) == {p \in DOMAIN JarsOf(a) : ~JarsOf(a)[p].is_locked}

AccountOrNew(a) == IF a \in DOMAIN accounts THEN accounts[a] ELSE EmptyAccount(now)

NoJars == EmptyMap

-----------------------------------------------------------------------------
(* The token. *)

Transfer(from, to, amount) ==
    tokens' = [h \in Holders |->
        tokens[h] - (IF h = from THEN amount ELSE 0) + (IF h = to THEN amount ELSE 0)]

\* ft_transfer wants a positive amount and the vault's balance to cover it.
FtTransferSucceeds(s) ==
    /\ s \in DOMAIN receipts
    /\ receipts[s].kind # "stake" /\ receipts[s].status = "sent"
    /\ receipts[s].amount > 0 /\ receipts[s].amount <= tokens[Vault]
    /\ Transfer(Vault, receipts[s].account, receipts[s].amount)
    /\ receipts' = [receipts EXCEPT ![s].status = "succeeded"]
    /\ UNCHANGED <<now, enabled, accounts, fee_amount>>

\* It may also fail: the receiver may not be registered at the token.
FtTransferFails(s) ==
    /\ s \in DOMAIN receipts
    /\ receipts[s].kind # "stake" /\ receipts[s].status = "sent"
    /\ receipts' = [receipts EXCEPT ![s].status = "failed"]
    /\ UNCHANGED <<now, enabled, accounts, fee_amount, tokens>>

-----------------------------------------------------------------------------
(* Deposits: ft_transfer_call, then ft_on_transfer, then a refund if it panicked. *)

Stake(s, sender, a, p, amount, timezone) ==
    /\ amount <= tokens[sender]
    /\ Transfer(sender, Vault, amount)
    /\ Send(s, [kind |-> "stake", status |-> "sent", account |-> a, sender |-> sender,
                product |-> p, amount |-> amount, timezone |-> timezone, jars |-> NoJars])
    /\ UNCHANGED <<now, enabled, accounts, fee_amount>>

\* The account that Contract::deposit updates, its timezone set if it matters.
StakeTarget(r) ==
    IF IsScoreBased(TermsOf(r.product))
    THEN TrySetTimezone(AccountOrNew(r.account), r.timezone)
    ELSE AccountOrNew(r.account)

CanDeposit(r) ==
    /\ r.product \in enabled
    /\ WithinCap(Products[r.product], r.amount)
    /\ IsScoreBased(TermsOf(r.product)) =>
            CanSetTimezone(AccountOrNew(r.account), r.timezone)

OnStake(s) ==
    /\ InFlight(s, "stake", "sent")
    /\ LET r == receipts[s]
       IN  /\ CanDeposit(r)
           /\ SetAccount(r.account, UpdateJarCaches(
                DepositTo(StakeTarget(r), r.product, r.amount, now), {r.product}, now))
    /\ Consume(s)
    /\ UNCHANGED <<now, enabled, fee_amount, tokens>>

OnStakePanics(s) ==
    /\ InFlight(s, "stake", "sent")
    /\ ~CanDeposit(receipts[s])
    /\ receipts' = [receipts EXCEPT ![s].status = "failed"]
    /\ UNCHANGED <<now, enabled, accounts, fee_amount, tokens>>

\* ft_resolve_transfer returns what the vault still holds of the amount.
RefundStake(s) ==
    /\ InFlight(s, "stake", "failed")
    /\ Transfer(Vault, receipts[s].sender, Smaller(receipts[s].amount, tokens[Vault]))
    /\ Consume(s)
    /\ UNCHANGED <<now, enabled, accounts, fee_amount>>

-----------------------------------------------------------------------------
(* Withdrawals. *)

\* What a withdrawal takes from the jar, the fee in it, and how many deposits.
WithdrawalRequest(account, p) ==
    LET amount == LiquidBalance(account.jars[p], TermsOf(p), now)
    IN  [amount |-> amount, fee |-> CalculateFee(Products[p], amount),
         partition_index |-> PartitionIndex(account.jars[p], TermsOf(p), now)]

\* Mutant: the fee may exceed the amount.
PayAnyway(requests) == TRUE

\* net_amount: a fee above the amount panics.
CanPay(requests) == \A p \in DOMAIN requests : requests[p].fee <= requests[p].amount

TotalNetAmount(requests) ==
    Total([p \in DOMAIN requests |-> requests[p].amount - requests[p].fee])

SendWithdrawal(s, a, requests) ==
    Send(s, [kind |-> "withdraw", status |-> "sent", account |-> a,
             amount |-> TotalNetAmount(requests), jars |-> requests])

Withdraw(s, a, p) ==
    /\ a \in DOMAIN accounts /\ p \in Unlocked(a)
    /\ CanUpdateCaches(accounts[a], {p})
    /\ LET requests == [q \in {p} |-> WithdrawalRequest(accounts[a], q)]
       IN  /\ CanPay(requests)
           /\ SendWithdrawal(s, a, requests)
    /\ SetAccount(a, LockJars(UpdateJarCaches(accounts[a], {p}, now), {p}))
    /\ UNCHANGED <<now, enabled, fee_amount, tokens>>

\* Mutant: a bulk withdrawal takes locked jars too.
BulkRequestsUnfiltered(a, ps) ==
    [p \in ps |-> WithdrawalRequest(accounts[a], p)]

\* The jars withdraw_all is asked for, less the ones that are locked.
BulkRequests(a, ps) ==
    [p \in ps \cap Unlocked(a) |-> WithdrawalRequest(accounts[a], p)]

CanWithdrawAll(a, ps) ==
    /\ a \in DOMAIN accounts /\ ps \subseteq DOMAIN JarsOf(a)
    /\ CanUpdateCaches(accounts[a], DOMAIN JarsOf(a))
    /\ CanPay(BulkRequests(a, ps))

WithdrawAll(s, a, ps) ==
    /\ CanWithdrawAll(a, ps)
    /\ LET requests == BulkRequests(a, ps)
       IN  /\ IF requests = NoJars THEN UNCHANGED receipts ELSE SendWithdrawal(s, a, requests)
           /\ SetAccount(a, LockJars(UpdateAccountCache(accounts[a], now), DOMAIN requests))
    /\ UNCHANGED <<now, enabled, fee_amount, tokens>>

\* after_withdraw and after_bulk_withdraw. One that panics is lost, and the
\* locks it should have released stay.
HasJars(r) == r.account \in DOMAIN accounts /\ DOMAIN r.jars \subseteq DOMAIN JarsOf(r.account)

PartitionOf(r) == [p \in DOMAIN r.jars |-> r.jars[p].partition_index]

CanFinishWithdrawal(r) ==
    /\ HasJars(r)
    /\ r.status = "succeeded" => CanCleanUpJars(accounts[r.account], PartitionOf(r))

\* Mutant: the fee is not booked.
AfterWithdrawWithoutFee(s) ==
    /\ InFlight(s, "withdraw", "succeeded")
    /\ LET r == receipts[s]
       IN  /\ CanFinishWithdrawal(r)
           /\ SetAccount(r.account, CloseJars(CleanUpJars(
                UnlockJars(accounts[r.account], DOMAIN r.jars), PartitionOf(r)), DOMAIN r.jars))
    /\ Consume(s)
    /\ UNCHANGED <<now, enabled, fee_amount, tokens>>

AfterWithdraw(s) ==
    /\ InFlight(s, "withdraw", "succeeded")
    /\ LET r == receipts[s]
           account == accounts[r.account]
       IN  /\ CanFinishWithdrawal(r)
           /\ fee_amount' = fee_amount + Total([p \in DOMAIN r.jars |-> r.jars[p].fee])
           /\ SetAccount(r.account, CloseJars(
                CleanUpJars(UnlockJars(account, DOMAIN r.jars), PartitionOf(r)), DOMAIN r.jars))
    /\ Consume(s)
    /\ UNCHANGED <<now, enabled, tokens>>

\* Mutant: the deposits are drained whatever the token answered.
AfterFailedWithdrawDrains(s) ==
    /\ InFlight(s, "withdraw", "failed")
    /\ LET r == receipts[s]
       IN  /\ HasJars(r) /\ CanCleanUpJars(accounts[r.account], PartitionOf(r))
           /\ SetAccount(r.account,
                CleanUpJars(UnlockJars(accounts[r.account], DOMAIN r.jars), PartitionOf(r)))
    /\ Consume(s)
    /\ UNCHANGED <<now, enabled, fee_amount, tokens>>

AfterFailedWithdraw(s) ==
    /\ InFlight(s, "withdraw", "failed")
    /\ LET r == receipts[s]
       IN  /\ CanFinishWithdrawal(r)
           /\ SetAccount(r.account, UnlockJars(accounts[r.account], DOMAIN r.jars))
    /\ Consume(s)
    /\ UNCHANGED <<now, enabled, fee_amount, tokens>>

-----------------------------------------------------------------------------
(* Claims. *)

\* The unlocked jars that have earned a whole unit.
Claimable(a) ==
    LET account == SettleInterest(accounts[a], now)
    IN  {p \in Unlocked(a) : InterestOf(account, p, now).interest > 0}

\* Mutant: the fraction of a unit that is not paid is forgotten.
ClaimJarsDroppingRemainder(account, ps) ==
    [account EXCEPT !.jars = [p \in DOMAIN @ |->
        IF p \in ps THEN Lock(UpdateCache(@[p], [interest |-> 0, remainder |-> 0], now)) ELSE @[p]]]

ClaimJars(account, ps) ==
    [account EXCEPT !.jars = [p \in DOMAIN @ |->
        IF p \in ps
        THEN Lock(UpdateCache(@[p],
                [interest |-> 0, remainder |-> InterestOf(account, p, now).remainder], now))
        ELSE @[p]]]

ClaimTotal(s, a) ==
    /\ a \in DOMAIN accounts
    /\ CanUpdateCaches(accounts[a], Unlocked(a))
    /\ LET account == SettleInterest(accounts[a], now)
           claimed == Claimable(a)
       IN  /\ Cardinality(claimed) <= MaxJarsPerClaim
           /\ SetAccount(a, ClaimJars(account, claimed))
           /\ IF claimed = {}
              THEN UNCHANGED receipts
              ELSE Send(s, [kind |-> "claim", status |-> "sent", account |-> a,
                    amount |-> Total([p \in claimed |-> InterestOf(account, p, now).interest]),
                    jars |-> [p \in claimed |-> ToRollback(account.jars[p])],
                    timezone |-> account.timezone, score |-> account.score])
    /\ UNCHANGED <<now, enabled, fee_amount, tokens>>

AfterClaim(s) ==
    /\ InFlight(s, "claim", "succeeded")
    /\ LET r == receipts[s]
       IN  /\ HasJars(r)
           /\ SetAccount(r.account,
                CloseJars(UnlockJars(accounts[r.account], DOMAIN r.jars), DOMAIN r.jars))
    /\ Consume(s)
    /\ UNCHANGED <<now, enabled, fee_amount, tokens>>

AfterFailedClaim(s) ==
    /\ InFlight(s, "claim", "failed")
    /\ LET r == receipts[s]
       IN  /\ HasJars(r)
           /\ SetAccount(r.account, RestoreAccount(accounts[r.account], r))
    /\ Consume(s)
    /\ UNCHANGED <<now, enabled, fee_amount, tokens>>

-----------------------------------------------------------------------------
(* Restakes: matured deposits move to another product, or to the same one; *)
(* what is not restaked is paid out.                                       *)

\* Mutant: deposits that are still locked up count as mature.
WholeBalance(account, ps) == Total([p \in ps |-> TotalPrincipal(account.jars[p])])

MatureBalance(account, ps) ==
    Total([p \in ps |-> LiquidBalance(account.jars[p], TermsOf(p), now)])

\* Mutant: the deposits that move are not removed.
CopyDeposits(account, partition, target, amount) ==
    DepositTo(account, target, amount, now)

\* clean_up_and_deposit, on an account whose jars were unlocked.
MoveDeposits(account, partition, target, amount) ==
    DepositTo(CleanUpJars(account, partition), target, amount, now)

\* restake_internal once the jars and the fee on the paid part are known.
RestakeFrom(s, a, ps, fee, target, amount, timezone) ==
    LET account == UpdateJarCaches(accounts[a], ps, now)
        localised == IF IsScoreBased(TermsOf(target))
                     THEN TrySetTimezone(account, timezone) ELSE account
        partition == [p \in ps |-> PartitionIndex(account.jars[p], TermsOf(p), now)]
        withdrawn == MatureBalance(account, ps) - amount
    IN  /\ target \in enabled /\ WithinCap(Products[target], amount)
        /\ amount > 0 /\ withdrawn >= 0
        /\ CanUpdateCaches(accounts[a], ps)
        /\ IsScoreBased(TermsOf(target)) => CanSetTimezone(account, timezone)
        /\ \/ /\ withdrawn = 0
              /\ SetAccount(a, MoveDeposits(localised, partition, target, amount))
              /\ UNCHANGED receipts
           \/ /\ withdrawn > 0 /\ fee <= withdrawn
              /\ SetAccount(a, LockJars(localised, ps))
              /\ Send(s, [kind |-> "restake", status |-> "sent", account |-> a,
                          amount |-> withdrawn - fee, fee |-> fee,
                          jars |-> [p \in ps |-> [partition_index |-> partition[p]]],
                          target |-> target, deposit |-> amount])
        /\ UNCHANGED <<now, enabled, fee_amount, tokens>>

Restake(s, a, from, target, amount, timezone) ==
    /\ a \in DOMAIN accounts /\ from \in Unlocked(a)
    /\ RestakeFrom(s, a, {from},
            CalculateFee(Products[from], MatureBalance(accounts[a], {from}) - amount),
            target, amount, timezone)

\* The fee of a partial payout is the share of what a full one would cost.
RestakeAll(s, a, target, amount, timezone) ==
    /\ a \in DOMAIN accounts
    /\ LET mature == {p \in Unlocked(a) : MatureBalance(accounts[a], {p}) > 0}
           balance == MatureBalance(accounts[a], mature)
           total_fee == Total([p \in mature |->
                CalculateFee(Products[p], MatureBalance(accounts[a], {p}))])
       IN  /\ amount <= balance
           /\ RestakeFrom(s, a, mature, CeilDiv(total_fee * (balance - amount), balance),
                          target, amount, timezone)

AfterTransferRemainder(s) ==
    /\ InFlight(s, "restake", "succeeded")
    /\ LET r == receipts[s]
           account == UnlockJars(accounts[r.account], DOMAIN r.jars)
       IN  /\ HasJars(r)
           /\ CanCleanUpJars(account, PartitionOf(r))
           /\ fee_amount' = fee_amount + r.fee
           /\ SetAccount(r.account, MoveDeposits(account, PartitionOf(r), r.target, r.deposit))
    /\ Consume(s)
    /\ UNCHANGED <<now, enabled, tokens>>

AfterFailedTransferRemainder(s) ==
    /\ InFlight(s, "restake", "failed")
    /\ LET r == receipts[s]
       IN  /\ HasJars(r)
           /\ SetAccount(r.account, UnlockJars(accounts[r.account], DOMAIN r.jars))
    /\ Consume(s)
    /\ UNCHANGED <<now, enabled, fee_amount, tokens>>

-----------------------------------------------------------------------------
(* Fees, products, the oracle and the maintainers. *)

WithdrawFee(s) ==
    /\ fee_amount' = 0
    /\ Send(s, [kind |-> "fee", status |-> "sent", account |-> FeeAccount,
                amount |-> fee_amount, jars |-> NoJars])
    /\ UNCHANGED <<now, enabled, accounts, tokens>>

AfterFeeWithdrawn(s) ==
    /\ InFlight(s, "fee", "succeeded")
    /\ Consume(s)
    /\ UNCHANGED <<now, enabled, accounts, fee_amount, tokens>>

AfterFailedFeeWithdrawal(s) ==
    /\ InFlight(s, "fee", "failed")
    /\ fee_amount' = fee_amount + receipts[s].amount
    /\ Consume(s)
    /\ UNCHANGED <<now, enabled, accounts, tokens>>

SetEnabled(p, is_enabled) ==
    /\ is_enabled # (p \in enabled)
    /\ enabled' = IF is_enabled THEN enabled \cup {p} ELSE enabled \ {p}
    /\ UNCHANGED <<now, accounts, fee_amount, receipts, tokens>>

\* The rate may change, so what was earned at the old one is cached first.
SetFeatureEnabled(a, feature, is_enabled) ==
    /\ a \in DOMAIN accounts => CanUpdateCaches(accounts[a], DOMAIN JarsOf(a))
    /\ LET account == IF a \in DOMAIN accounts
                      THEN UpdateAccountCache(accounts[a], now) ELSE EmptyAccount(now)
       IN  SetAccount(a, [account EXCEPT !.features =
                IF is_enabled THEN @ \cup {feature} ELSE @ \ {feature}])
    /\ UNCHANGED <<now, enabled, fee_amount, receipts, tokens>>

SetPenalty(a, is_applied) ==
    /\ a \in DOMAIN accounts
    /\ SetFeatureEnabled(a, "IncreasedApy", ~is_applied)

SetTimezone(a, timezone) ==
    /\ SetAccount(a, TrySetTimezone(AccountOrNew(a), timezone))
    /\ UNCHANGED <<now, enabled, fee_amount, receipts, tokens>>

HasTimezone(a) == a \in DOMAIN accounts /\ accounts[a].timezone # InvalidTimezone

\* Mutant: the finished days are not settled first.
RecordScoreUnsettled(a, increments) ==
    /\ HasTimezone(a)
    /\ SetAccount(a, [accounts[a] EXCEPT !.score = UpdateScore(@, increments, now)])
    /\ UNCHANGED <<now, enabled, fee_amount, receipts, tokens>>

RecordScore(a, increments) ==
    /\ HasTimezone(a)
    /\ LET account == SettleInterest(accounts[a], now)
       IN  SetAccount(a, [account EXCEPT !.score = UpdateScore(@, increments, now)])
    /\ UNCHANGED <<now, enabled, fee_amount, receipts, tokens>>

ApplyBooster(a, days_ago, value) ==
    /\ HasTimezone(a)
    /\ LET account == SettleInterest(accounts[a], now)
       IN  SetAccount(a, [account EXCEPT !.score = ApplyBoosterTo(@, days_ago, value, now)])
    /\ UNCHANGED <<now, enabled, fee_amount, receipts, tokens>>

UnlockJarsForAccount(a, ps) ==
    /\ MaintainerUnlocks
    /\ a \in DOMAIN accounts
    /\ SetAccount(a, UnlockJars(accounts[a], ps))
    /\ UNCHANGED <<now, enabled, fee_amount, receipts, tokens>>

\* A callback that panics changes nothing, and nothing runs it again.
CallbackPanics(s) ==
    /\ s \in DOMAIN receipts
    /\ receipts[s].status \in {"succeeded", "failed"}
    /\ \/ receipts[s].kind = "withdraw" /\ ~CanFinishWithdrawal(receipts[s])
       \/ receipts[s].kind = "claim" /\ ~HasJars(receipts[s])
       \/ receipts[s].kind = "restake" /\ ~CanFinishWithdrawal(receipts[s])
    /\ Consume(s)
    /\ UNCHANGED <<now, enabled, accounts, fee_amount, tokens>>

Tick ==
    /\ now < MaxTime
    /\ now' = now + 1
    /\ UNCHANGED <<enabled, accounts, fee_amount, receipts, tokens>>

-----------------------------------------------------------------------------
Offered == Timezones \cup {InvalidTimezone}

PayoutCall(s, a) ==
    \/ "withdraw" \in Calls /\ \E p \in ProductIds : Withdraw(s, a, p)
    \/ "withdraw_all" \in Calls /\ \E ps \in SUBSET ProductIds : WithdrawAll(s, a, ps)
    \/ "claim_total" \in Calls /\ ClaimTotal(s, a)

UserCall(s, a) ==
    \/ \E b \in AccountIds, p \in ProductIds, x \in Amounts, tz \in Offered :
            Stake(s, a, b, p, x, tz)
    \/ PayoutCall(s, a)
    \/ "restake" \in Calls /\ \E p, q \in ProductIds, x \in Amounts, tz \in Offered :
            Restake(s, a, p, q, x, tz)
    \/ "restake_all" \in Calls /\ \E q \in ProductIds, x \in Amounts, tz \in Offered :
            RestakeAll(s, a, q, x, tz)

OperatorCall(a) ==
    \/ \E f \in FeaturesSet, e \in BOOLEAN : SetFeatureEnabled(a, f, e)
    \/ \E e \in BOOLEAN : "IncreasedApy" \in FeaturesSet /\ SetPenalty(a, e)
    \/ \E tz \in Timezones : SetTimezone(a, tz)
    \/ \E i \in Increments : RecordScore(a, i)
    \/ \E d \in 0 .. 2, v \in Boosters : ApplyBooster(a, d, v)
    \/ \E ps \in SUBSET ProductIds : UnlockJarsForAccount(a, ps)

TokenReceipt(s) ==
    FtTransferSucceeds(s) \/ FtTransferFails(s) \/ RefundStake(s)

\* The receipts that add no deposit, and the ones that may.
PayoutReceipt(s) ==
    \/ AfterWithdraw(s) \/ AfterFailedWithdraw(s)
    \/ AfterClaim(s) \/ AfterFailedClaim(s)
    \/ AfterFailedTransferRemainder(s)
    \/ AfterFeeWithdrawn(s) \/ AfterFailedFeeWithdrawal(s)
    \/ CallbackPanics(s)

ContractReceipt(s) ==
    OnStake(s) \/ OnStakePanics(s) \/ AfterTransferRemainder(s) \/ PayoutReceipt(s)

Next ==
    \/ \E s \in Slots : TokenReceipt(s) \/ ContractReceipt(s)
    \/ \E s \in FreeSlots, a \in AccountIds : UserCall(s, a)
    \/ "withdraw_fee" \in Calls /\ \E s \in FreeSlots : WithdrawFee(s)
    \/ \E a \in AccountIds : OperatorCall(a)
    \/ \E p \in Managed, e \in BOOLEAN : SetEnabled(p, e)
    \/ Tick

Spec == Init /\ [][Next]_vars

\* Every receipt is executed in the end; the chain never drops one.
Fairness ==
    \A s \in Slots : WF_vars(TokenReceipt(s)) /\ WF_vars(ContractReceipt(s))

FairSpec == Spec /\ Fairness
=============================================================================
