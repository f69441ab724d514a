------------------------------ MODULE MCTickets ------------------------------
(***************************************************************************)
(* Small instances of the contract with protected products.                *)
(***************************************************************************)
EXTENDS Tickets, MCSweatJar

CONSTANTS k1, k2

\* Deposits move from a flexible product into a protected one.
GuardedProducts ==
    ("locked" :> MakeProduct("fixed", 2, Constantly(1), NoFee))
        @@ ("flexible" :> MakeProduct("flexible", 0, Constantly(1), NoFee))

\* Two jars can be restaked at a time.
TwoSources == GuardedProducts
    @@ ("spare" :> MakeProduct("flexible", 0, Constantly(0), NoFee))

LockedKey == "locked" :> k1

FourTokens == Tokens(4, 1)
SixTokens == Tokens(6, 0)
=============================================================================
