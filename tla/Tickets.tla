------------------------------- MODULE Tickets -------------------------------
(***************************************************************************)
(* Tickets: a product with a public key takes a deposit, or a restake,     *)
(* only with a ticket that the service signed for it. A ticket names the   *)
(* account's nonce, so that it is good once. A deposit spends the nonce in *)
(* the receipt that checks it, a restake with a remainder to pay out only  *)
(* in the callback of that transfer.                                       *)
(* The variables of SweatJar are left to its actions; Account::nonce and   *)
(* the keys of the products are kept here.                                 *)
(***************************************************************************)
EXTENDS SweatJarCustody

CONSTANTS PublicKeys,
          InitialKeys,          \* the key of each product that has one
          MaxTicketLifetime,    \* MAX_TICKET_LIFETIME_MS
          Expiries,             \* values of valid_until
          MaxNonce              \* bounds the deposits and restakes

ASSUME TicketsAssumption ==
    /\ IsMap(InitialKeys, ProductIds)
    /\ \A p \in DOMAIN InitialKeys : InitialKeys[p] \in PublicKeys
    /\ \A p \in ProductIds \ DOMAIN InitialKeys : ~IsScoreBased(TermsOf(p))
    /\ MaxTicketLifetime \in Nat /\ Expiries \subseteq Nat /\ MaxNonce \in Nat

VARIABLES nonces,       \* Account::nonce, 0 where there is no account
          public_keys,  \* Product::public_key
          tickets,      \* what the stakes and restakes in flight were sent with
          used          \* history: how often each ticket took effect

ticketVars == <<nonces, public_keys, tickets, used>>

Purposes == {"deposit", "restake"}

\* A signed message. The contract's own account is the same in all of them.
DepositMessage(key, purpose, a, p, amount, nonce, valid_until) ==
    [key |-> key, purpose |-> purpose, account |-> a, product |-> p,
     amount |-> amount, nonce |-> nonce, valid_until |-> valid_until]

Unsigned == [purpose |-> "unsigned"]

TicketsInit ==
    /\ Init
    /\ nonces = [a \in AccountIds |-> 0]
    /\ public_keys = InitialKeys
    /\ tickets = EmptyMap
    /\ used = EmptyMap

\* What a caller can hold: any ticket ever signed for the account, the
\* product and the amount, under any key, or none. The service signs with the
\* nonce it reads, so there is none for a later one.
Offers(a, p, amount) ==
    IF p \in DOMAIN public_keys
    THEN {Unsigned} \cup
         {DepositMessage(k, purpose, a, p, amount, n, t) :
            k \in PublicKeys, purpose \in Purposes, n \in 0 .. nonces[a], t \in Expiries}
    ELSE {Unsigned}

NotExpired(valid_until) ==
    now <= valid_until /\ valid_until <= now + MaxTicketLifetime

\* Mutant: a ticket without a signature passes.
IsVerifiedIfSigned(purpose, a, p, amount, ticket) ==
    p \in DOMAIN public_keys /\ ticket # Unsigned =>
        ticket = DepositMessage(public_keys[p], purpose, a, p, amount,
                                nonces[a], ticket.valid_until)

\* Contract::verify.
IsVerified(purpose, a, p, amount, ticket) ==
    p \in DOMAIN public_keys =>
        /\ ticket # Unsigned
        /\ NotExpired(ticket.valid_until)
        /\ ticket = DepositMessage(public_keys[p], purpose, a, p, amount,
                                   nonces[a], ticket.valid_until)

\* Mutant: the nonce is not spent.
KeepNonce(a) == UNCHANGED nonces

SpendNonce(a) == nonces' = [nonces EXCEPT ![a] = @ + 1]

Uses(ticket) == IF ticket \in DOMAIN used THEN used[ticket] ELSE 0

TakesEffect(ticket) ==
    used' = IF ticket = Unsigned THEN used ELSE Put(used, ticket, Uses(ticket) + 1)

\* The timezone in a message is read only for a score-based product.
TimezonesFor(p) == IF IsScoreBased(TermsOf(p)) THEN Offered ELSE {InvalidTimezone}

-----------------------------------------------------------------------------
(* Deposits. *)

StakeWith(s, sender, a, p, amount, timezone, ticket) ==
    /\ nonces[a] < MaxNonce
    /\ Stake(s, sender, a, p, amount, timezone)
    /\ tickets' = Put(tickets, s, ticket)
    /\ UNCHANGED <<nonces, public_keys, used>>

IsStakeVerified(s) ==
    LET r == receipts[s]
    IN  IsVerified("deposit", r.account, r.product, r.amount, tickets[s])

AcceptStake(s) ==
    /\ InFlight(s, "stake", "sent")
    /\ IsStakeVerified(s)
    /\ OnStake(s)
    /\ SpendNonce(receipts[s].account)
    /\ TakesEffect(tickets[s])
    /\ tickets' = Drop(tickets, {s})
    /\ UNCHANGED public_keys

FailStake(s) ==
    /\ receipts' = [receipts EXCEPT ![s].status = "failed"]
    /\ tickets' = Drop(tickets, {s})
    /\ UNCHANGED <<now, enabled, accounts, fee_amount, tokens, nonces, public_keys, used>>

RejectStake(s) ==
    /\ InFlight(s, "stake", "sent")
    /\ ~(CanDeposit(receipts[s]) /\ IsStakeVerified(s))
    /\ FailStake(s)

-----------------------------------------------------------------------------
(* Restakes. *)

\* One with no remainder takes effect at once. One with a remainder carries
\* its ticket along, since clean_up_and_deposit is left to the callback.
WithTicket(s, a, ticket) ==
    \/ /\ UNCHANGED receipts
       /\ SpendNonce(a) /\ TakesEffect(ticket)
       /\ UNCHANGED <<public_keys, tickets>>
    \/ /\ s \in DOMAIN receipts'
       /\ tickets' = Put(tickets, s, ticket)
       /\ UNCHANGED <<nonces, public_keys, used>>

RestakeWith(s, a, from, target, amount, timezone, ticket) ==
    /\ nonces[a] < MaxNonce
    /\ IsVerified("restake", a, target, amount, ticket)
    /\ Restake(s, a, from, target, amount, timezone)
    /\ WithTicket(s, a, ticket)

RestakeAllWith(s, a, target, amount, timezone, ticket) ==
    /\ nonces[a] < MaxNonce
    /\ IsVerified("restake", a, target, amount, ticket)
    /\ RestakeAll(s, a, target, amount, timezone)
    /\ WithTicket(s, a, ticket)

FinishRestake(s) ==
    /\ AfterTransferRemainder(s)
    /\ SpendNonce(receipts[s].account)
    /\ TakesEffect(tickets[s])
    /\ tickets' = Drop(tickets, {s})
    /\ UNCHANGED public_keys

-----------------------------------------------------------------------------
SetPublicKey(p, key) ==
    /\ public_keys' = Put(public_keys, p, key)
    /\ UNCHANGED <<vars, nonces, tickets, used>>

\* A step that checks no ticket and spends no nonce. The ticket of a restake
\* whose transfer failed is forgotten with its receipt.
KeepsTickets ==
    /\ tickets' = Restrict(tickets, DOMAIN tickets \cap DOMAIN receipts')
    /\ UNCHANGED <<nonces, public_keys, used>>

WithoutTicket ==
    \/ \E s \in Slots : TokenReceipt(s) \/ PayoutReceipt(s)
    \/ \E s \in FreeSlots, a \in AccountIds : PayoutCall(s, a)
    \/ "withdraw_fee" \in Calls /\ \E s \in FreeSlots : WithdrawFee(s)
    \/ \E a \in AccountIds : OperatorCall(a)
    \/ \E p \in Managed, e \in BOOLEAN : SetEnabled(p, e)
    \/ Tick

TicketedCall(s, a) ==
    \/ \E b \in AccountIds, p \in ProductIds, x \in Amounts :
        \E tz \in TimezonesFor(p), t \in Offers(b, p, x) : StakeWith(s, a, b, p, x, tz, t)
    \/ "restake" \in Calls /\ \E p, q \in ProductIds, x \in Amounts :
        \E tz \in TimezonesFor(q), t \in Offers(a, q, x) : RestakeWith(s, a, p, q, x, tz, t)
    \/ "restake_all" \in Calls /\ \E q \in ProductIds, x \in Amounts :
        \E tz \in TimezonesFor(q), t \in Offers(a, q, x) : RestakeAllWith(s, a, q, x, tz, t)

TicketsNext ==
    \/ \E s \in Slots : AcceptStake(s) \/ RejectStake(s) \/ FinishRestake(s)
    \/ \E s \in FreeSlots, a \in AccountIds : TicketedCall(s, a)
    \/ \E p \in Managed, k \in PublicKeys : SetPublicKey(p, k)
    \/ WithoutTicket /\ KeepsTickets

TicketsSpec == TicketsInit /\ [][TicketsNext]_<<vars, ticketVars>>

-----------------------------------------------------------------------------
\* A ticket is good for one deposit or restake: its nonce is spent by the one
\* it is used for, and no other operation on the account that was checked
\* with the same nonce takes effect on it later ("outdated nonce").
TicketUsedOnce == \A t \in DOMAIN used : used[t] <= 1

\* What an account holds in a protected product is covered by tickets that
\* were signed for it: keys change, stakes and restakes are checked before
\* others that were sent earlier take effect, and tickets expire meanwhile.
SignedPrincipal ==
    \A a \in DOMAIN accounts : \A p \in DOMAIN InitialKeys \cap DOMAIN JarsOf(a) :
        TotalPrincipal(JarsOf(a)[p])
            <= Total([t \in {u \in DOMAIN used : u.account = a /\ u.product = p} |-> t.amount])
=============================================================================
