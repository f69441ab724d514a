------------------------------ MODULE Interest ------------------------------
(***************************************************************************)
(* How much a jar has earned. Interest is computed per deposit in whole    *)
(* units and the remainders, in units of 1 / MsInYear, are carried over in *)
(* the jar's claim_remainder so that claiming often loses nothing.         *)
(* An account is a record with the fields timezone, score and features.    *)
(***************************************************************************)
EXTENDS Jar

CONSTANT MsInYear       \* milliseconds in a year

ASSUME InterestAssumption == MsInYear \in Nat \ {0}

ScoreCap(account, terms) ==
    terms.score_cap["IncreasedScoreCap" \in account.features]

\* The annual rate a jar earns today.
EffectiveApy(account, terms, now) ==
    IF IsScoreBased(terms)
    THEN ToCappedApy(LastFinalized(account.score, account.timezone, now),
                     ScoreCap(account, terms), terms.kind = "tiered")
    ELSE terms.apy["IncreasedApy" \in account.features]

\* For how long a deposit has earned interest that is not in the cache yet.
\* Score-based terms only count today's part here: earlier days are settled.
InterestTerm(account, terms, jar, deposit, now) ==
    LET since == Larger(jar.cache.updated_at, deposit.created_at)
        until == Smaller(now, deposit.created_at + terms.lockup_term)
        today == StartOfTheDay(now) + account.timezone
    IN  CASE terms.kind = "flexible" -> now - since
          [] terms.kind = "fixed" -> Monus(until, since)
          [] OTHER -> Monus(until, Larger(today, since))

\* Whole units and remainders of a family of yields, each rounded on its own.
WholeUnits(yield) == Total([i \in DOMAIN yield |-> yield[i] \div MsInYear])
Remainders(yield) == Total([i \in DOMAIN yield |-> yield[i] % MsInYear])

\* InterestCalculator::get_interest.
GetInterest(account, terms, jar, now) ==
    LET apy == EffectiveApy(account, terms, now)
        yield == [i \in DOMAIN jar.deposits |->
                    Rate(apy, jar.deposits[i].principal)
                        * InterestTerm(account, terms, jar, jar.deposits[i], now)]
        rest == jar.claim_remainder + Remainders(yield)
    IN  [interest |-> jar.cache.interest + WholeUnits(yield) + rest \div MsInYear,
         remainder |-> rest % MsInYear]

\* The rate of a score-based jar comes from the account's local day: without
\* a timezone the computation panics.
CanAccrue(account, terms, invalid) ==
    IsScoreBased(terms) => account.timezone # invalid

Yesterday(t) == Monus(t, MsInDay)

\* Which stored days the next settlement pays, as offsets into the history.
DaysToSettle(account, now) ==
    LET days == DaysSinceUpdate(account.score, account.timezone, now)
    IN  CASE days < 1 -> {}
          [] days = 1 -> {1}
          [] days > 1 -> DaysStored

\* get_settled_interest for one score-based jar, added to what is cached.
\* Timestamps are compared a day back, on the days the scores were made.
GetSettledInterest(account, terms, jar, now) ==
    LET day_start(d) == StartOfTheDay(Monus(account.score.updated_at, d * MsInDay))
        apy(d) == ToCappedApy(account.score.history[d],
                              ScoreCap(account, terms), terms.kind = "tiered")
        start(d, i) == Larger(Larger(Yesterday(jar.deposits[i].created_at), day_start(d)),
                              Yesterday(jar.cache.updated_at))
        yield == [di \in DaysToSettle(account, now) \X DOMAIN jar.deposits |->
                    Rate(apy(di[1]), jar.deposits[di[2]].principal)
                        * Monus(day_start(di[1]) + MsInDay, start(di[1], di[2]))]
    IN  [interest |-> jar.cache.interest + WholeUnits(yield),
         remainder |-> jar.claim_remainder + Remainders(yield)]
=============================================================================
