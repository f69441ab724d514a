--------------------------- MODULE SweatJarCustody ---------------------------
(***************************************************************************)
(* The contract implements Custody. A payout happens when the token moves  *)
(* the tokens, between the method that asked for it and the callback that  *)
(* books it: the mapping books a transfer that succeeded at once. The      *)
(* balance of the contract at the token is what the custodian holds.       *)
(***************************************************************************)
EXTENDS SweatJarProperties

\* Account ids are names of at most 64 characters, so there are finitely many.
ASSUME CustodyAssumption == IsFiniteSet(AccountIds)

FeeOf(r) ==
    CASE r.kind = "withdraw" -> Total([p \in DOMAIN r.jars |-> r.jars[p].fee])
      [] r.kind = "restake" -> r.fee
      [] OTHER -> 0

\* The receipts in flight that satisfy a test, and their sums.
SumOver(S, Value(_)) == Total([s \in S |-> Value(receipts[s])])

Amount(r) == r.amount
Gross(r) == r.amount + FeeOf(r)

\* Payouts of principal that the token made and the contract has yet to book.
Unbooked == {s \in DOMAIN receipts :
    receipts[s].kind \in {"withdraw", "restake"} /\ receipts[s].status = "succeeded"}

StakesOf(a) == {s \in DOMAIN receipts : receipts[s].kind = "stake" /\ receipts[s].sender = a}

FeesUnpaid == {s \in DOMAIN receipts :
    receipts[s].kind = "fee" /\ receipts[s].status # "succeeded"}

AccountPrincipal(a) ==
    IF a \in DOMAIN accounts
    THEN Total([p \in DOMAIN JarsOf(a) |-> TotalPrincipal(JarsOf(a)[p])])
    ELSE 0

WalletsBar == [h \in AccountIds \cup {FeeAccount} |-> tokens[h]]

InboundBar == [a \in AccountIds |-> SumOver(StakesOf(a), Amount)]

PrincipalBar == [a \in AccountIds |->
    AccountPrincipal(a) - SumOver({s \in Unbooked : receipts[s].account = a}, Gross)]

FeesBar == fee_amount + SumOver(Unbooked, FeeOf) + SumOver(FeesUnpaid, Amount)

Ledger == INSTANCE Custody WITH
    Wallets <- [h \in AccountIds \cup {FeeAccount} |-> InitialTokens[h]],
    Reserve <- InitialTokens[Vault],
    wallets <- WalletsBar, inbound <- InboundBar, principal <- PrincipalBar,
    fees <- FeesBar, held <- tokens[Vault]

\* However calls, transfers and callbacks interleave, principal is neither
\* lost nor paid twice: it leaves a jar only when the token has moved it to
\* the owner's wallet less the fee, failed transfers change nothing, a refused
\* deposit comes back, and the reserve changes only by interest paid.
ImplementsCustody == Ledger!Spec
=============================================================================
