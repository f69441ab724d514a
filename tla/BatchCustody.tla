---------------------------- MODULE BatchCustody ----------------------------
(***************************************************************************)
(* A custodian that also takes batches: tokens sent in one piece for       *)
(* several holders. Who is meant to have how much is fixed when a batch is *)
(* sent. It is accepted for all of them at once, each getting exactly that *)
(* much, or it comes back as a whole; a batch whose shares do not add up   *)
(* to what was sent can only come back.                                    *)
(***************************************************************************)
EXTENDS Custody

CONSTANT Batches        \* names of batches on their way in

VARIABLE batches        \* their senders, amounts and shares

batchCustody == <<custody, batches>>

BatchInit == Init /\ batches = EmptyMap

SendBatch(b, a, x, shares) ==
    /\ b \notin DOMAIN batches
    /\ wallets' = [wallets EXCEPT ![a] = @ - x]
    /\ held' = held + x
    /\ batches' = Put(batches, b, [sender |-> a, amount |-> x, shares |-> shares])
    /\ UNCHANGED <<inbound, principal, fees>>

AcceptBatch(b) ==
    /\ Total(batches[b].shares) = batches[b].amount
    /\ principal' = [a \in AccountIds |-> principal[a] + batches[b].shares[a]]
    /\ batches' = Drop(batches, {b})
    /\ UNCHANGED <<wallets, inbound, fees, held>>

\* As of any deposit, all of it comes back unless the custodian holds less.
ReturnBatch(b) ==
    LET y == Smaller(batches[b].amount, held)
    IN  /\ wallets' = [wallets EXCEPT ![batches[b].sender] = @ + y]
        /\ held' = held - y
        /\ batches' = Drop(batches, {b})
        /\ UNCHANGED <<inbound, principal, fees>>

BatchNext ==
    \/ Next /\ UNCHANGED batches
    \/ \E b \in Batches, a \in AccountIds : \E x \in 1 .. wallets[a] :
        \E shares \in [AccountIds -> 0 .. x] : SendBatch(b, a, x, shares)
    \/ \E b \in DOMAIN batches : AcceptBatch(b) \/ ReturnBatch(b)

BatchSpec == BatchInit /\ [][BatchNext]_batchCustody
=============================================================================
