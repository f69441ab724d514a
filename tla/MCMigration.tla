------------------------------ MODULE MCMigration ------------------------------
(***************************************************************************)
(* Small instances of the contract while accounts move in.                 *)
(***************************************************************************)
EXTENDS Migration, MCAirdrop

CONSTANTS legacy, system

DepositOf(t, x) == [created_at |-> t, principal |-> x]

JarOf(deposits) == [EmptyJar EXCEPT !.deposits = deposits]

StoredV1(tag, jars, penalty) ==
    [tag |-> tag, nonce |-> 1, jars |-> jars, timezone |-> Unset, updated_at |-> 1,
     scores_history |-> [d \in DaysStored |-> 0], is_penalty_applied |-> penalty]

\* Three deposits, two of them made at the same time, not in order.
Unsorted ==
    StoredV1(0, "locked" :> JarOf(<<DepositOf(2, 1), DepositOf(1, 1), DepositOf(2, 1)>>), FALSE)

Sorted == StoredV1(2, "locked" :> JarOf(<<DepositOf(2, 2)>>), TRUE)

\* An account that was only ever given tokens.
Latest ==
    [tag |-> 3, nonce |-> 0,
     account |-> [EmptyAccount(1) EXCEPT !.jars = "locked" :> JarOf(<<DepositOf(2, 2)>>)]]

Unknown == [tag |-> 4, nonce |-> 0]

ImagesOfAlice ==
    [a \in AccountIds |-> IF a = alice THEN {Unsorted, Sorted, Latest, Unknown} ELSE {}]

LockedOnly == Restrict(TermProducts, {"locked"})

\* The previous version holds what it moves.
MovingTokens == [Tokens(0, 0) EXCEPT ![legacy] = 3, ![alice] = 2]

ToAlice == {<<alice>>}
OneFeature == {"IncreasedApy"}
=============================================================================
