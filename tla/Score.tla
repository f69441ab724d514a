-------------------------------- MODULE Score --------------------------------
(***************************************************************************)
(* The step score of an account: a window of two local days (DAYS_STORED), *)
(* 0 the day of the last update and 1 the day before it, each with a value *)
(* and a booster. The annual rate of day N is the score of day N - 1.      *)
(***************************************************************************)
EXTENDS ProductTerms

CONSTANTS MsInDay,      \* milliseconds in a day
          MaxScore      \* the largest u16

ASSUME ScoreAssumption == MsInDay \in Nat \ {0} /\ MaxScore \in Nat

DaysStored == 0 .. 1

DailyScore == [value : 0 .. MaxScore, booster : 0 .. MaxScore]

AccountScore == [updated_at : Nat, history : [DaysStored -> DailyScore]]

NoScore == [value |-> 0, booster |-> 0]

EmptyHistory == [d \in DaysStored |-> NoScore]

StartOfTheDay(t) == t - (t % MsInDay)

\* The day index of an instant in a timezone, a shift from UTC.
DayIn(timezone, t) == (t + timezone) \div MsInDay

DaysSinceUpdate(score, timezone, now) ==
    DayIn(timezone, now) - DayIn(timezone, score.updated_at)

\* The booster is added on top of the product's cap; the sum stops at 100%.
ToCappedApy(daily, cap, include_booster) ==
    LET capped == Smaller(daily.value, cap)
    IN  IF include_booster
        THEN Smaller(capped + daily.booster, RateScale)
        ELSE capped

\* The last day whose score can no longer grow.
LastFinalized(score, timezone, now) ==
    LET days == DaysSinceUpdate(score, timezone, now)
    IN  CASE days = 0 -> score.history[1]
          [] days = 1 -> score.history[0]
          [] OTHER -> NoScore

Shift(history) == [history EXCEPT ![1] = history[0], ![0] = NoScore]

\* Mutant: addition does not saturate.
UpdateScoreUnbounded(score, increments, now) ==
    [updated_at |-> now,
     history |-> [d \in DaysStored |-> [score.history[d] EXCEPT !.value = @ + increments[d]]]]

\* increments[d] is the sum of the valid increments of d days ago; older
\* ones are dropped by the increment processor. Addition saturates.
UpdateScore(score, increments, now) ==
    [updated_at |-> now,
     history |-> [d \in DaysStored |->
        [score.history[d] EXCEPT !.value = Smaller(@ + increments[d], MaxScore)]]]

CanApplyBooster(score, days_ago) ==
    days_ago \in DaysStored /\ score.history[days_ago].booster = 0

ApplyBoosterTo(score, days_ago, value, now) ==
    IF CanApplyBooster(score, days_ago)
    THEN [updated_at |-> now,
          history |-> [score.history EXCEPT ![days_ago].booster = value]]
    ELSE score
=============================================================================
