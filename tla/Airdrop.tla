------------------------------- MODULE Airdrop -------------------------------
(***************************************************************************)
(* Airdrops: an ft_transfer_call of the oracle that is shared out, in one  *)
(* receipt, among a list of receivers, with a booster for each of them if  *)
(* it carries one. A receiver may be listed twice. Any panic refuses the   *)
(* whole batch, and the token refunds it.                                  *)
(***************************************************************************)
EXTENDS Tickets

LOCAL INSTANCE SequencesExt

CONSTANTS Oracle,           \* the account with the Oracle role
          ReceiverLists,    \* sequences of accounts
          AirdropAmounts,   \* amounts transferred, for all receivers together
          AirdropBoosters,  \* 0 for none
          BoosterTimes      \* when the booster was earned; NoTimestamp for none

\* Every instant of the contract's life is positive.
NoTimestamp == 0

ASSUME AirdropAssumption ==
    /\ Oracle \in AccountIds
    /\ \A list \in ReceiverLists : list \in Seq(AccountIds)
    /\ AirdropAmounts \subseteq Nat \ {0}
    /\ AirdropBoosters \subseteq 0 .. MaxScore /\ BoosterTimes \subseteq Nat

VARIABLE airdrops           \* airdrops on their way in

airdropVars == <<vars, ticketVars, airdrops>>

\* How often each account is listed.
Listed(receivers) ==
    [a \in AccountIds |-> Cardinality({i \in DOMAIN receivers : receivers[i] = a})]

\* The message that is signed for a batch: the receivers are sorted in it, so
\* it says how often each is listed, and it names no nonce.
AirdropMessage(key, p, amount, receivers, valid_until) ==
    [key |-> key, purpose |-> "airdrop", product |-> p, amount |-> amount,
     receivers |-> Listed(receivers), valid_until |-> valid_until]

AirdropOffers(p, amount) ==
    IF p \in DOMAIN public_keys
    THEN {Unsigned} \cup
         {AirdropMessage(k, p, amount, list, t) :
            k \in PublicKeys, list \in ReceiverLists, t \in Expiries}
    ELSE {Unsigned}

\* Contract::verify_airdrop.
IsAirdropVerified(m, share) ==
    m.product \in DOMAIN public_keys =>
        /\ m.ticket # Unsigned
        /\ NotExpired(m.ticket.valid_until)
        /\ m.ticket = AirdropMessage(public_keys[m.product], m.product, share,
                                     m.receivers, m.ticket.valid_until)

Share(m) == m.amount \div Len(m.receivers)

\* The account of one receiver, its timezone set if it matters.
Prepare(account, m) ==
    IF IsScoreBased(TermsOf(m.product)) THEN TrySetTimezone(account, m.timezone) ELSE account

CanAirdrop(m) ==
    /\ m.sender = Oracle
    /\ m.receivers # <<>> /\ m.amount % Len(m.receivers) = 0
    /\ m.product \in enabled
    /\ WithinCap(Products[m.product], Share(m))
    /\ IsAirdropVerified(m, Share(m))
    /\ \A i \in DOMAIN m.receivers :
        LET account == AccountOrNew(m.receivers[i])
        IN  /\ IsScoreBased(TermsOf(m.product)) => CanSetTimezone(account, m.timezone)
            /\ m.booster > 0 /\ Prepare(account, m).timezone # InvalidTimezone
                    => m.booster_timestamp <= now

DaysAgo(account, m) ==
    IF m.booster_timestamp = NoTimestamp
    THEN 0
    ELSE DayIn(account.timezone, now) - DayIn(account.timezone, m.booster_timestamp)

\* A receiver without a timezone gets no booster.
BoostFrom(account, m) ==
    IF m.booster = 0 \/ account.timezone = InvalidTimezone
    THEN account
    ELSE [account EXCEPT !.score = ApplyBoosterTo(@, DaysAgo(account, m), m.booster, now)]

\* Mutant: the finished days are not settled before a booster.
SettleForBoosterLate(account, m) == account

\* settle_interest_before_booster.
SettleForBooster(account, m) ==
    IF m.booster > 0 THEN SettleInterest(account, now) ELSE account

AirdropTo(account, m) ==
    BoostFrom(UpdateJarCaches(
        DepositTo(SettleForBooster(Prepare(account, m), m), m.product, Share(m), now),
        {m.product}, now), m)

\* Mutant: every receiver is given what is due to the batch as it was before,
\* so that one listed twice is credited once.
AirdropToAllAtOnce(m) ==
    [a \in DOMAIN accounts \cup {m.receivers[i] : i \in DOMAIN m.receivers} |->
        IF \E i \in DOMAIN m.receivers : m.receivers[i] = a
        THEN AirdropTo(AccountOrNew(a), m) ELSE accounts[a]]

\* The receivers in the order of the list.
AirdropToAll(m) ==
    FoldLeft(LAMBDA accs, a :
        Put(accs, a, AirdropTo(IF a \in DOMAIN accs THEN accs[a] ELSE EmptyAccount(now), m)),
        accounts, m.receivers)

-----------------------------------------------------------------------------
AirdropInit == TicketsInit /\ airdrops = EmptyMap

SendAirdrop(s, m) ==
    /\ s \notin DOMAIN airdrops
    /\ m.amount <= tokens[m.sender]
    /\ Transfer(m.sender, Vault, m.amount)
    /\ airdrops' = Put(airdrops, s, m)
    /\ UNCHANGED <<now, enabled, accounts, fee_amount, receipts, ticketVars>>

Arrived(s, status) == s \in DOMAIN airdrops /\ airdrops[s].status = status

OnAirdrop(s) ==
    /\ Arrived(s, "sent")
    /\ CanAirdrop(airdrops[s])
    /\ accounts' = AirdropToAll(airdrops[s])
    /\ airdrops' = Drop(airdrops, {s})
    /\ UNCHANGED <<now, enabled, fee_amount, receipts, tokens, ticketVars>>

FailAirdrop(s) ==
    /\ airdrops' = [airdrops EXCEPT ![s].status = "failed"]
    /\ UNCHANGED <<vars, ticketVars>>

OnAirdropPanics(s) ==
    /\ Arrived(s, "sent")
    /\ ~CanAirdrop(airdrops[s])
    /\ FailAirdrop(s)

RefundAirdrop(s) ==
    /\ Arrived(s, "failed")
    /\ Transfer(Vault, airdrops[s].sender, Smaller(airdrops[s].amount, tokens[Vault]))
    /\ airdrops' = Drop(airdrops, {s})
    /\ UNCHANGED <<now, enabled, accounts, fee_amount, receipts, ticketVars>>

AirdropCall ==
    \E s \in Slots, sender \in AccountIds, p \in ProductIds, x \in AirdropAmounts,
       list \in ReceiverLists, v \in AirdropBoosters, at \in BoosterTimes :
        \E tz \in TimezonesFor(p), t \in AirdropOffers(p, IF list = <<>> THEN 0 ELSE x \div Len(list)) :
            SendAirdrop(s, [status |-> "sent", sender |-> sender, product |-> p, amount |-> x,
                            receivers |-> list, booster |-> v, booster_timestamp |-> at,
                            timezone |-> tz, ticket |-> t])

AirdropNext ==
    \/ TicketsNext /\ UNCHANGED airdrops
    \/ AirdropCall
    \/ \E s \in Slots : OnAirdrop(s) \/ OnAirdropPanics(s) \/ RefundAirdrop(s)

AirdropSpec == AirdropInit /\ [][AirdropNext]_airdropVars

-----------------------------------------------------------------------------
\* What the list of an airdrop says each account is to have of it.
SharesOf(m) ==
    [a \in AccountIds |-> IF m.receivers = <<>> THEN 0 ELSE Listed(m.receivers)[a] * Share(m)]

\* The same custodian as before; an airdrop on its way is a batch.
AirdropLedger == INSTANCE BatchCustody WITH
    Batches <- Slots,
    Wallets <- [h \in AccountIds \cup {FeeAccount} |-> InitialTokens[h]],
    Reserve <- InitialTokens[Vault],
    wallets <- WalletsBar, inbound <- InboundBar, principal <- PrincipalBar,
    fees <- FeesBar, held <- tokens[Vault],
    batches <- [s \in DOMAIN airdrops |->
        [sender |-> airdrops[s].sender, amount |-> airdrops[s].amount,
         shares |-> SharesOf(airdrops[s])]]

\* An airdrop is accepted for all its receivers or comes back as a whole, also
\* when only one of them cannot be served; accepted, it adds to what each
\* account holds its share as often as the account is listed, and nothing to
\* anyone else, with deposits and payouts of the receivers around it.
AirdropImplementsCustody == AirdropLedger!BatchSpec

\* An airdrop with a booster takes away nothing that a receiver could claim
\* before it: a booster raises the rate of days to come and moves the date of
\* the score, so finished days are settled first.
AirdropsKeepInterest ==
    [][\A s \in DOMAIN airdrops :
        OnAirdrop(s) /\ airdrops[s].booster > 0 =>
            \A a \in DOMAIN accounts : KeepsInterest(a)]_airdropVars
=============================================================================
