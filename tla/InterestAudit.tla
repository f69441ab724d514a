----------------------------- MODULE InterestAudit -----------------------------
(***************************************************************************)
(* The contract next to a ledger of interest that is kept independently of *)
(* it: what each account's deposits earned in every tick of the clock, the *)
(* most they could have earned, what claims paid, what leaving deposits    *)
(* gave up, and the steps that were recorded for each local day.           *)
(***************************************************************************)
EXTENDS SweatJarProperties

VARIABLES earned,    \* at the rate of each tick, in units of 1 / MsInYear
          ceiling,   \* the same at 100%
          forgone,   \* earned and given up with a deposit or a jar
          paid,      \* interest that claims paid out
          recorded   \* steps by local day

auditVars == <<vars, earned, ceiling, forgone, paid, recorded>>

Days == 0 .. (MaxTime + MsInDay) \div MsInDay

ByAccount(x) == [a \in AccountIds |-> x]

AuditInit ==
    /\ Init
    /\ earned = ByAccount(0) /\ ceiling = ByAccount(0) /\ forgone = ByAccount(0)
    /\ paid = ByAccount(0) /\ recorded = ByAccount([d \in Days |-> 0])

JarIds(a) == IF a \in DOMAIN accounts THEN DOMAIN JarsOf(a) ELSE {}

\* The sum of f over all the deposits of a.
SumDeposits(a, f(_, _)) ==
    Total([p \in JarIds(a) |->
        LET deposits == JarsOf(a)[p].deposits
        IN  Total([i \in DOMAIN deposits |-> f(p, deposits[i])])])

\* A deposit earns until its lockup term has passed, or for ever.
IsEarning(p, deposit) ==
    TermsOf(p).kind = "flexible" \/ now < deposit.created_at + TermsOf(p).lockup_term

\* What a deposit earns in this millisecond at the rate that holds for it.
Earns(a) ==
    SumDeposits(a, LAMBDA p, deposit :
        IF IsEarning(p, deposit)
        THEN Rate(EffectiveApy(accounts[a], TermsOf(p), now), deposit.principal) ELSE 0)

CouldEarn(a) ==
    SumDeposits(a, LAMBDA p, deposit :
        IF IsEarning(p, deposit) THEN Rate(RateScale, deposit.principal) ELSE 0)

\* The receipts of the kinds ks, for a, that succeeded and are finished in
\* this step.
Finishing(a, ks) ==
    {s \in DOMAIN receipts : receipts[s].kind \in ks /\ receipts[s].status = "succeeded"
        /\ receipts[s].account = a /\ s \notin DOMAIN receipts'}

\* Deposits that leave take along what they earned since the jar was cached.
Leaving(a) ==
    Total([s \in Finishing(a, {"withdraw", "restake"}) |->
        Total([p \in DOMAIN receipts[s].jars |->
            LET jar == JarsOf(a)[p]
            IN  Total([i \in 1 .. receipts[s].jars[p].partition_index |->
                    Rate(EffectiveApy(accounts[a], TermsOf(p), now), jar.deposits[i].principal)
                        * InterestTerm(accounts[a], TermsOf(p), jar, jar.deposits[i], now)])])])

\* A jar that is closed takes along less than one unit of interest.
Closing(a) ==
    Total([p \in JarIds(a) \ DOMAIN accounts'[a].jars |-> JarsOf(a)[p].claim_remainder])

PaidNow(a) == Total([s \in Finishing(a, {"claim"}) |-> receipts[s].amount])

\* The steps that the oracle records for a in this step, by local day.
Recording(a) ==
    IF \E i \in Increments : RecordScore(a, i)
    THEN CHOOSE i \in Increments : RecordScore(a, i)
    ELSE [d \in DaysStored |-> 0]

Today(a) == DayIn(accounts[a].timezone, now)

Recorded(a) ==
    LET increments == Recording(a)
    IN  IF \A d \in DaysStored : increments[d] = 0
        THEN recorded[a]
        ELSE [day \in Days |->
            IF Today(a) - day \in DaysStored
            THEN Smaller(recorded[a][day] + increments[Today(a) - day], MaxScore)
            ELSE recorded[a][day]]

Audit ==
    /\ earned' = [a \in AccountIds |-> earned[a] + (now' - now) * Earns(a)]
    /\ ceiling' = [a \in AccountIds |-> ceiling[a] + (now' - now) * CouldEarn(a)]
    /\ forgone' = [a \in AccountIds |-> forgone[a] +
            (IF a \in DOMAIN accounts THEN Leaving(a) + Closing(a) ELSE 0)]
    /\ paid' = [a \in AccountIds |-> paid[a] + PaidNow(a)]
    /\ recorded' = [a \in AccountIds |-> Recorded(a)]

AuditSpec == AuditInit /\ [][Next /\ Audit]_auditVars

-----------------------------------------------------------------------------
Claiming(a) ==
    Total([s \in {t \in DOMAIN receipts : receipts[t].kind = "claim" /\ receipts[t].account = a}
            |-> receipts[s].amount])

\* What an account has had of its interest: paid, on the way, or claimable.
InterestHad(a) == paid[a] + Claiming(a)

Claimables(a) ==
    Total([p \in JarIds(a) |-> InterestOf(accounts[a], p, now).interest])

Fractions(a) ==
    Total([p \in JarIds(a) |-> InterestOf(accounts[a], p, now).remainder])

\* Of fixed and flexible products, to the last fraction of a unit: everything
\* deposits earned is paid, being paid or claimable, or left with the
\* deposit, exactly once, however often it was cached, claimed, rolled back
\* and rounded ("remainder").
InterestConserved ==
    \A a \in AccountIds :
        (InterestHad(a) + Claimables(a)) * MsInYear + Fractions(a) + forgone[a] = earned[a]

\* No one earns above 100%, nor after the term of a deposit ("This is the hard
\* ceiling on score + booster", "during which it yields interest"), however
\* claims, scores and the changes of the local and the UTC day are interleaved.
BelowCeiling ==
    \A a \in DOMAIN accounts :
        (InterestHad(a) + InterestIn(accounts[a], Accruing(a), now)) * MsInYear <= ceiling[a]

\* The rate of a day is the score that was recorded for the day before ("APY
\* for day N is defined by score of the day N-1", "Normal claim. Score
\* shouldn't change").
ScoreOfYesterday ==
    \A a \in AccountIds : HasTimezone(a) =>
        LastFinalized(accounts[a].score, accounts[a].timezone, now).value
            = recorded[a][Today(a) - 1]

=============================================================================
