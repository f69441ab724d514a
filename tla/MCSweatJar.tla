------------------------------ MODULE MCSweatJar ------------------------------
(***************************************************************************)
(* Small instances of the contract. Rates are whole (RateScale = 1) unless *)
(* an instance needs fractions, and a year is two milliseconds long, so    *)
(* that a unit of principal earns half a unit of interest per tick at 100%.*)
(***************************************************************************)
EXTENDS SweatJarCustody, TLC

CONSTANTS alice, bob, vault, treasury, s1, s2

Constantly(x) == [b \in BOOLEAN |-> x]

NoFee == [kind |-> "none", value |-> 0]
FixFee(x) == [kind |-> "fix", value |-> x]
PercentFee(x) == [kind |-> "percent", value |-> x]

MakeProduct(kind, lockup_term, apy, fee) ==
    [terms |-> [kind |-> kind, lockup_term |-> lockup_term, apy |-> apy,
                score_cap |-> Constantly(1)],
     cap |-> [min |-> 2, max |-> 4], withdrawal_fee |-> fee]

\* A fixed product with a fixed fee next to a flexible one without.
TermProducts ==
    ("locked" :> MakeProduct("fixed", 1, Constantly(1), FixFee(1)))
        @@ ("flexible" :> MakeProduct("flexible", 0, Constantly(1), NoFee))

FlexibleOnly == Restrict(TermProducts, {"flexible"})

\* Both take a fee, which is half of a withdrawal from the flexible one.
CostlyProducts ==
    ("locked" :> MakeProduct("fixed", 1, Constantly(1), FixFee(1)))
        @@ ("flexible" :> MakeProduct("flexible", 0, Constantly(2), PercentFee(1)))

Tokens(user, reserve) ==
    [h \in Holders |-> CASE h = Vault -> reserve [] h = FeeAccount -> 0 [] OTHER -> user]

RichVault == Tokens(4, 1)
PoorVault == Tokens(4, 0)
OneDeposit == Tokens(2, 1)

\* Steps recorded today earn at most 100%, or half of that without the
\* feature that raises the cap of the tiered product.
StepProducts ==
    ("steps" :> [MakeProduct("tiered", 2, Constantly(0), NoFee) EXCEPT
                    !.terms.score_cap = (TRUE :> 2 @@ FALSE :> 1)])
        @@ ("flexible" :> MakeProduct("flexible", 0, (TRUE :> 2 @@ FALSE :> 1), NoFee))

StepProduct == Restrict(StepProducts, {"steps"})

\* A step product that never ends within the bounds of the clock.
LongSteps == "steps" :> MakeProduct("tiered", 20, Constantly(0), NoFee)

Utc == {0}
East == {1}
StepsToday == {[d \in DaysStored |-> IF d = 0 THEN 1 ELSE 0]}
OneBooster == {1}
PremiumOnly == {"IncreasedApy"}

NoTimezones == {}
Unset == -100

\* Slots are interchangeable.
SlotSymmetry == Permutations(Slots)
NoFeatures == {}
NoIncrements == {}
NoBoosters == {}
=============================================================================
