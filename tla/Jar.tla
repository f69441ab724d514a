--------------------------------- MODULE Jar ---------------------------------
(***************************************************************************)
(* A jar: the deposits of one account in one product, oldest first, the    *)
(* interest settled so far (cache), the part of a unit of interest that a  *)
(* claim could not pay (claim_remainder), and the lock that keeps a second *)
(* operation out while a transfer is in flight.                            *)
(***************************************************************************)
EXTENDS Score, Sequences

Deposit == [created_at : Nat, principal : Nat]

JarCache == [updated_at : Nat, interest : Nat]

JarRecord == [deposits : Seq(Deposit), cache : JarCache,
              is_locked : BOOLEAN, claim_remainder : Nat]

\* A jar that was never cached. Every instant of the contract's life is
\* positive, so no cached value is stamped with 0.
NoCache == [updated_at |-> 0, interest |-> 0]

EmptyJar == [deposits |-> <<>>, cache |-> NoCache,
             is_locked |-> FALSE, claim_remainder |-> 0]

\* The principal of the n oldest deposits.
Principal(deposits, n) ==
    SumFunctionOnSet([i \in 1 .. n |-> deposits[i].principal], 1 .. n)

TotalPrincipal(jar) == Principal(jar.deposits, Len(jar.deposits))

\* The number of liquid deposits. The code searches for the first deposit
\* that is not liquid (partition_point), which is the same number as long as
\* the deposits are sorted by the time they were made.
PartitionIndex(jar, terms, now) ==
    Cardinality({i \in DOMAIN jar.deposits : IsLiquid(terms, jar.deposits[i], now)})

LiquidBalance(jar, terms, now) ==
    Principal(jar.deposits, PartitionIndex(jar, terms, now))

ShouldClose(jar) == jar.deposits = <<>> /\ jar.cache.interest = 0

Lock(jar) == [jar EXCEPT !.is_locked = TRUE]
Unlock(jar) == [jar EXCEPT !.is_locked = FALSE]

UpdateCache(jar, accrual, at) ==
    [jar EXCEPT !.cache = [updated_at |-> at, interest |-> accrual.interest],
                !.claim_remainder = accrual.remainder]

\* Mutant: the newest deposit goes first.
AddDepositFirst(jar, principal, now) ==
    [jar EXCEPT !.deposits = <<[created_at |-> now, principal |-> principal]>> \o @]

AddDeposit(jar, principal, now) ==
    [jar EXCEPT !.deposits =
        Append(@, [created_at |-> now, principal |-> principal])]

\* Draining more deposits than there are panics.
CanCleanUp(jar, partition_index) == partition_index <= Len(jar.deposits)

CleanUpDeposits(jar, partition_index) ==
    [jar EXCEPT !.deposits = SubSeq(@, partition_index + 1, Len(@))]

\* What a failed claim restores. The snapshot goes through the JSON of the
\* callback's arguments, where a cache that is absent (null) cannot be told
\* from a cache that is not to be restored, so such a jar keeps its cache.
ToRollback(jar) ==
    [claim_remainder |-> jar.claim_remainder, cache |-> jar.cache]

\* Mutants: a rollback that forgets the cache, and one that forgets the lock.
ApplyRollbackWithoutCache(jar, rollback) ==
    [jar EXCEPT !.is_locked = FALSE, !.claim_remainder = rollback.claim_remainder]

ApplyRollbackLocked(jar, rollback) ==
    [jar EXCEPT !.claim_remainder = rollback.claim_remainder,
                !.cache = IF rollback.cache = NoCache THEN @ ELSE rollback.cache]

ApplyRollback(jar, rollback) ==
    [jar EXCEPT !.is_locked = FALSE,
                !.claim_remainder = rollback.claim_remainder,
                !.cache = IF rollback.cache = NoCache THEN @ ELSE rollback.cache]
=============================================================================
