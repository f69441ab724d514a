------------------------------ MODULE MCAirdrop ------------------------------
(***************************************************************************)
(* A small instance of the contract with airdrops into a protected product.*)
(***************************************************************************)
EXTENDS Airdrop, MCTickets

StepsKey == "steps" :> k1

\* One receiver twice, and two receivers.
TwoReceivers == {<<bob, bob>>, <<alice, bob>>}

\* Only the oracle has tokens to begin with.
OracleTokens == [Tokens(0, 0) EXCEPT ![alice] = 6]
=============================================================================
