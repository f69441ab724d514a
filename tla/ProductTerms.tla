---------------------------- MODULE ProductTerms ----------------------------
(***************************************************************************)
(* Products: the terms under which a jar earns interest and lets its       *)
(* deposits go, the bounds on a deposit, and the withdrawal fee.           *)
(* Rates are fixed-point numbers (UDecimal) over the denominator           *)
(* RateScale; a score of RateScale is an annual rate of 100%, which is     *)
(* what DailyScore::MAX = 100_000 is in the code.                          *)
(***************************************************************************)
EXTENDS Collections

CONSTANT RateScale

ASSUME RateScaleAssumption == RateScale \in Nat \ {0}

TermsKinds == {"fixed", "flexible", "score_based", "tiered"}

\* apy and score_cap are ConfigurableValues: what they are with and without
\* the account feature that raises them. A constant has the same value twice.
Terms == [kind : TermsKinds, lockup_term : Nat,
          apy : [BOOLEAN -> Nat], score_cap : [BOOLEAN -> Nat]]

WithdrawalFee == [kind : {"none", "fix", "percent"}, value : Nat]

Product == [terms : Terms, cap : [min : Nat, max : Nat],
            withdrawal_fee : WithdrawalFee]

\* UDecimal multiplication rounds down.
Rate(rate, x) == (rate * x) \div RateScale

AllowsEarlyWithdrawal(terms) == terms.kind = "flexible"

IsScoreBased(terms) == terms.kind \in {"score_based", "tiered"}

\* A deposit is liquid once more than the lockup term has passed.
IsLiquid(terms, deposit, now) ==
    \/ AllowsEarlyWithdrawal(terms)
    \/ now - deposit.created_at > terms.lockup_term

WithinCap(product, amount) ==
    product.cap.min <= amount /\ amount <= product.cap.max

CalculateFee(product, amount) ==
    CASE product.withdrawal_fee.kind = "none" -> 0
      [] product.withdrawal_fee.kind = "fix" -> product.withdrawal_fee.value
      [] product.withdrawal_fee.kind = "percent" ->
            Rate(product.withdrawal_fee.value, amount)

\* What register_product requires of a product.
CanRegister(product) ==
    /\ product.cap.min < product.cap.max
    /\ product.withdrawal_fee.kind = "fix" =>
            product.withdrawal_fee.value < product.cap.min
    /\ product.withdrawal_fee.kind = "percent" =>
            product.withdrawal_fee.value < RateScale
=============================================================================
