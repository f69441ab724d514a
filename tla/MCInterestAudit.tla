---------------------------- MODULE MCInterestAudit ----------------------------
(***************************************************************************)
(* Small instances of the contract next to its ledger of interest.         *)
(***************************************************************************)
EXTENDS InterestAudit, MCSweatJar

\* With RateScale = 2 and a year of three milliseconds, interest comes in
\* thirds.
ThirdsProducts ==
    ("locked" :> MakeProduct("fixed", 1, Constantly(1), FixFee(1)))
        @@ ("flexible" :> MakeProduct("flexible", 0, Constantly(1), NoFee))

Reserve == Tokens(4, 4)
=============================================================================
