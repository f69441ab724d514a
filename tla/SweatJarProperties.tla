-------------------------- MODULE SweatJarProperties --------------------------
(***************************************************************************)
(* What the contract promises about the jars it keeps while transfers are  *)
(* in flight.                                                              *)
(***************************************************************************)
EXTENDS SweatJar

Statuses == {"sent", "succeeded", "failed"}

\* A receipt of one kind, with what its callback reads; footprint is the type
\* of what it keeps about each jar it is about.
IsStake(r) ==
    r \in [kind : {"stake"}, status : {"sent", "failed"}, account : AccountIds,
           sender : AccountIds, product : ProductIds, amount : Nat,
           timezone : Offered, jars : {NoJars}]

HasFootprint(r, footprint) ==
    IsMap(r.jars, ProductIds) /\ \A p \in DOMAIN r.jars : r.jars[p] \in footprint

IsWithdrawal(r) ==
    /\ r \in [kind : {"withdraw"}, status : Statuses, account : AccountIds,
              amount : Nat, jars : {r.jars}]
    /\ HasFootprint(r, [amount : Nat, fee : Nat, partition_index : Nat])

IsClaim(r) ==
    /\ r \in [kind : {"claim"}, status : Statuses, account : AccountIds, amount : Nat,
              jars : {r.jars}, timezone : Offered, score : AccountScore]
    /\ HasFootprint(r, [claim_remainder : Nat, cache : JarCache])

IsRestake(r) ==
    /\ r \in [kind : {"restake"}, status : Statuses, account : AccountIds,
              amount : Nat, fee : Nat, jars : {r.jars}, target : ProductIds, deposit : Nat]
    /\ HasFootprint(r, [partition_index : Nat])

IsFee(r) ==
    r \in [kind : {"fee"}, status : Statuses, account : {FeeAccount},
           amount : Nat, jars : {NoJars}]

\* Every balance, amount and settled interest is a natural number (no u128
\* subtraction in the code underflows) and every receipt carries what its
\* callback reads.
TypeOK ==
    /\ now \in Nat /\ now >= Genesis
    /\ enabled \subseteq ProductIds
    /\ IsMap(accounts, AccountIds) /\ \A a \in DOMAIN accounts : IsAccount(accounts[a])
    /\ fee_amount \in Nat
    /\ IsMap(receipts, Slots)
    /\ \A s \in DOMAIN receipts :
        LET r == receipts[s]
        IN  IsStake(r) \/ IsWithdrawal(r) \/ IsClaim(r) \/ IsRestake(r) \/ IsFee(r)
    /\ tokens \in [Holders -> Nat]

\* Jar p of account a is held by the operation in slot s.
Covers(s, a, p) ==
    s \in DOMAIN receipts /\ receipts[s].account = a /\ p \in DOMAIN receipts[s].jars

IsLocked(a, p) ==
    a \in DOMAIN accounts /\ p \in DOMAIN JarsOf(a) /\ JarsOf(a)[p].is_locked

\* A jar is locked exactly while one transfer about it is in flight: the
\* lock is taken by the method that sends the transfer (try_lock, lock), kept
\* whatever else happens to the account, and released by that transfer's
\* callback and no other. In particular the jars an operation in flight is
\* about still exist when its callback looks for them.
LockOwnership ==
    /\ \A s \in DOMAIN receipts : \A p \in DOMAIN receipts[s].jars :
            IsLocked(receipts[s].account, p)
    /\ \A a \in AccountIds, p \in ProductIds :
            IsLocked(a, p) => \E s \in Slots : Covers(s, a, p)
    /\ \A s, t \in DOMAIN receipts : \A p \in ProductIds :
            Covers(s, receipts[s].account, p) /\ Covers(t, receipts[s].account, p) => s = t

\* Deposits are kept oldest first, as partition_point needs them.
DepositsSorted(jar) ==
    \A i, j \in DOMAIN jar.deposits :
        i <= j => jar.deposits[i].created_at <= jar.deposits[j].created_at

\* The n oldest deposits have all served their term.
AllLiquid(p, jar, n) ==
    \A i \in 1 .. n : IsLiquid(TermsOf(p), jar.deposits[i], now)

\* The deposits an operation counted when it was sent are still the oldest
\* ones when its callback drains them, whatever was deposited meanwhile: as
\* many, with the same total, all of them past their lockup term.
RequestMatchesJars(r) ==
    LET jar(p) == JarsOf(r.account)[p]
        taken(p) == Principal(jar(p).deposits, r.jars[p].partition_index)
    IN  /\ \A p \in DOMAIN r.jars :
            /\ CanCleanUp(jar(p), r.jars[p].partition_index)
            /\ AllLiquid(p, jar(p), r.jars[p].partition_index)
        /\ r.kind = "withdraw" => \A p \in DOMAIN r.jars : r.jars[p].amount = taken(p)
        /\ r.kind = "restake" =>
                r.amount + r.fee + r.deposit = Total([p \in DOMAIN r.jars |-> taken(p)])

\* The partition index and the amounts are computed before the transfer and
\* used after it: every request in flight still fits the jars it was made for.
RequestsMatchJars ==
    /\ \A a \in DOMAIN accounts : \A p \in DOMAIN JarsOf(a) : DepositsSorted(JarsOf(a)[p])
    /\ \A s \in DOMAIN receipts :
            receipts[s].kind \in {"withdraw", "restake"} => RequestMatchesJars(receipts[s])

\* No callback of a payout panics. It is the one chance to book what was paid,
\* to restore what was not and to release the locks, and nothing runs it again
\* ("Account is not found", "Jar for product ... is not found").
CallbacksRun == [][\A s \in Slots : ~CallbackPanics(s)]_vars

\* What an account could claim at time t from its jars ps.
InterestIn(account, ps, t) ==
    Total([p \in ps |-> InterestOf(SettleInterest(account, t), p, t).interest])

\* The receipts of the given kinds whose callback runs in this step and is
\* told that the transfer failed.
Failing(kinds) ==
    {receipts[s] : s \in {t \in DOMAIN receipts :
        /\ receipts[t].kind \in kinds /\ receipts[t].status = "failed"
        /\ t \notin DOMAIN receipts'}}

\* When the transfer of a claim fails, the interest it was to pay is in the
\* jars again and can be claimed (claim_rollback "must cover every piece of
\* account state claim_total mutates").
FailedClaimKeepsInterest ==
    [][\A r \in Failing({"claim"}) :
        InterestIn(accounts'[r.account], DOMAIN r.jars, now') >= r.amount]_vars

\* The steps an account has recorded for the local day.
StepsOfToday(a) ==
    IF HasTimezone(a) /\ DaysSinceUpdate(accounts[a].score, accounts[a].timezone, now) = 0
    THEN accounts[a].score.history[0].value ELSE 0

\* Nor is anything the account was told meanwhile: the callback of a failed
\* claim takes away no timezone that was set and no steps that were recorded
\* while the transfer was in flight ("Failed claim. Score should stay the
\* same").
FailedClaimKeepsRecords ==
    [][\A r \in Failing({"claim"}) :
        /\ HasTimezone(r.account) => HasTimezone(r.account)'
        /\ StepsOfToday(r.account)' >= StepsOfToday(r.account)]_vars

\* The deposits in an account, by jar.
DepositsOf(a) == [p \in DOMAIN JarsOf(a) |-> JarsOf(a)[p].deposits]

\* A callback that reports a failed transfer, or that panics, removes and adds
\* no deposit and collects no fee from them, even when a maintainer has
\* unlocked the jars meanwhile.
FailureKeepsDeposits ==
    [][\A r \in Failing({"withdraw", "claim", "restake"}) :
        /\ DepositsOf(r.account)' = DepositsOf(r.account)
        /\ fee_amount' = fee_amount]_vars

\* The jars of account a whose interest can be computed.
Accruing(a) ==
    {p \in DOMAIN JarsOf(a) : CanAccrue(accounts[a], TermsOf(p), InvalidTimezone)}

\* The step takes nothing from what a could claim.
KeepsInterest(a) ==
    \A p \in Accruing(a) :
        InterestIn(accounts'[a], {p}, now') >= InterestIn(accounts[a], {p}, now)

\* No call of the oracle takes away interest that could be claimed before it:
\* a new score, booster, timezone or feature counts from now on, and what was
\* earned before is settled and cached first.
OracleCallsKeepInterest ==
    [][\A a \in DOMAIN accounts : OperatorCall(a) => KeepsInterest(a)]_vars

\* Every lock is released: the transfer it waits for is executed, and its
\* callback after it.
LocksReleased ==
    \A a \in AccountIds, p \in ProductIds : IsLocked(a, p) ~> ~IsLocked(a, p)
=============================================================================
