------------------------------- MODULE Account -------------------------------
(***************************************************************************)
(* An account: one jar per product, the local timezone, the step score and *)
(* the enabled features. The operators are the methods the contract calls  *)
(* on an account; each returns the account afterwards.                     *)
(***************************************************************************)
EXTENDS Interest

CONSTANTS ProductIds,
          Products,         \* the product registered under each id
          Timezones,        \* shifts from UTC
          InvalidTimezone   \* Timezone::invalid(): no timezone was set

ASSUME AccountAssumption ==
    /\ IsFiniteSet(ProductIds)
    /\ Products \in [ProductIds -> Product]
    /\ \A p \in ProductIds : CanRegister(Products[p])
    /\ Timezones \subseteq -MsInDay .. MsInDay
    /\ InvalidTimezone \in Int \ Timezones

Features == {"IncreasedApy", "IncreasedScoreCap"}

IsAccount(account) ==
    /\ account \in [jars : {account.jars}, timezone : Timezones \cup {InvalidTimezone},
                    score : AccountScore, features : SUBSET Features]
    /\ IsMap(account.jars, ProductIds)
    /\ \A p \in DOMAIN account.jars : account.jars[p] \in JarRecord

EmptyAccount(now) ==
    [jars |-> EmptyMap, timezone |-> InvalidTimezone,
     score |-> [updated_at |-> now, history |-> EmptyHistory], features |-> {}]

TermsOf(p) == Products[p].terms

InterestOf(account, p, now) ==
    GetInterest(account, TermsOf(p), account.jars[p], now)

\* Interest can be computed for the jars ps.
CanUpdateCaches(account, ps) ==
    \A p \in ps : CanAccrue(account, TermsOf(p), InvalidTimezone)

\* update_jar_cache for the jars ps; each reads its own jar only.
UpdateJarCaches(account, ps, now) ==
    [account EXCEPT !.jars = [p \in DOMAIN @ |->
        IF p \in ps THEN UpdateCache(@[p], InterestOf(account, p, now), now) ELSE @[p]]]

\* A jar is created, without a cache, by the first deposit.
JarOrNew(account, p) ==
    IF p \in DOMAIN account.jars THEN account.jars[p] ELSE EmptyJar

DepositTo(account, p, principal, now) ==
    [account EXCEPT !.jars = Put(@, p, AddDeposit(JarOrNew(account, p), principal, now))]

\* try_set_timezone: only the first timezone counts; no timezone at all is
\* a panic. A caller that offers none offers InvalidTimezone.
CanSetTimezone(account, timezone) ==
    account.timezone # InvalidTimezone \/ timezone # InvalidTimezone

TrySetTimezone(account, timezone) ==
    IF account.timezone = InvalidTimezone
    THEN [account EXCEPT !.timezone = timezone]
    ELSE account

LockJars(account, ps) ==
    [account EXCEPT !.jars = [p \in DOMAIN @ |-> IF p \in ps THEN Lock(@[p]) ELSE @[p]]]

UnlockJars(account, ps) ==
    [account EXCEPT !.jars = [p \in DOMAIN @ |-> IF p \in ps THEN Unlock(@[p]) ELSE @[p]]]

\* Drains the deposits that left, as many as partition[p] for each jar.
CanCleanUpJars(account, partition) ==
    \A p \in DOMAIN partition :
        p \in DOMAIN account.jars /\ CanCleanUp(account.jars[p], partition[p])

CleanUpJars(account, partition) ==
    [account EXCEPT !.jars = [p \in DOMAIN @ |->
        IF p \in DOMAIN partition THEN CleanUpDeposits(@[p], partition[p]) ELSE @[p]]]

\* Mutant: every jar that is empty is closed, whoever holds its lock.
CloseAnyJars(account, ps) ==
    [account EXCEPT !.jars = Drop(@, {p \in DOMAIN @ : ShouldClose(account.jars[p])})]

CloseJars(account, ps) ==
    [account EXCEPT !.jars =
        Drop(@, {p \in ps \cap DOMAIN @ : ShouldClose(account.jars[p])})]

\* settle_interest: pays the finished days of every score-based jar into its
\* cache and moves the score window on. Its cached date is the start of today.
SettleInterest(account, now) ==
    LET days == DaysSinceUpdate(account.score, account.timezone, now)
    IN  IF account.timezone = InvalidTimezone \/ days < 1
        THEN account
        ELSE [account EXCEPT
                !.jars = [p \in DOMAIN @ |->
                    IF IsScoreBased(TermsOf(p))
                    THEN UpdateCache(@[p],
                            GetSettledInterest(account, TermsOf(p), @[p], now),
                            StartOfTheDay(now))
                    ELSE @[p]],
                !.score.history = IF days = 1 THEN Shift(@) ELSE EmptyHistory]

\* Mutant: only score-based jars are brought up to date.
UpdateScoreJarsOnly(account, now) == SettleInterest(account, now)

\* update_account_cache without a filter.
UpdateAccountCache(account, now) ==
    UpdateJarCaches(SettleInterest(account, now), DOMAIN account.jars, now)

\* Account::apply of the snapshot taken by a claim.
RestoreAccount(account, rollback) ==
    [account EXCEPT
        !.jars = [p \in DOMAIN @ |->
            IF p \in DOMAIN rollback.jars THEN ApplyRollback(@[p], rollback.jars[p]) ELSE @[p]],
        !.timezone = rollback.timezone,
        !.score = rollback.score]
=============================================================================
