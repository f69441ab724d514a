------------------------------ MODULE Migration ------------------------------
(***************************************************************************)
(* Migration: the previous version of the contract registers its products  *)
(* here and moves its accounts, one ft_transfer_call each, with the tokens *)
(* they hold and the bytes they were stored in, in any older layout. It    *)
(* must not meet an account that is in use, and deposits, airdrops and the *)
(* oracle create accounts meanwhile.                                       *)
(* Restakes, recorded scores and boosters are left out: they act only on   *)
(* accounts that are in use, and leave them so; so are the switches of a   *)
(* product. What the previous version does is external; it is one of the   *)
(* accounts, and any account sends any message.                            *)
(***************************************************************************)
EXTENDS Airdrop

LOCAL INSTANCE SequencesExt

CONSTANTS System,            \* the account that nobody can sign for
          PreviousVersion,   \* the one named when the contract was set up
          InitialProducts,   \* products registered by then
          Images,            \* what the previous version stored for each account
          ImportAmounts      \* amounts sent with them

\* Layouts 0 to 2 are AccountV1, layout 3 is AccountV2, others do not exist.
IsAccountV1(image) ==
    /\ image \in [tag : 0 .. 2, nonce : Nat, jars : {image.jars}, updated_at : Nat,
                  timezone : Timezones \cup {InvalidTimezone},
                  scores_history : [DaysStored -> 0 .. MaxScore], is_penalty_applied : BOOLEAN]
    /\ IsMap(image.jars, ProductIds)
    /\ \A p \in DOMAIN image.jars : image.jars[p] \in JarRecord

IsAccountV2(image) ==
    image \in [tag : {3}, nonce : Nat, account : {image.account}] /\ IsAccount(image.account)

ASSUME MigrationAssumption ==
    /\ System \notin AccountIds /\ PreviousVersion \in AccountIds
    /\ InitialProducts \subseteq ProductIds
    /\ \A a \in AccountIds : \A image \in Images[a] :
        /\ image.tag \in 0 .. 2 => IsAccountV1(image)
        /\ image.tag = 3 => IsAccountV2(image)
    /\ ImportAmounts \subseteq Nat \ {0} /\ AirdropBoosters = {0}

VARIABLES previous_version,  \* Contract::previous_version_account_id
          registered,        \* Contract::products, by id
          imports            \* accounts on their way in

migrationVars == <<previous_version, registered, imports>>

MigrationInit ==
    /\ AirdropInit
    /\ previous_version = PreviousVersion
    /\ registered = InitialProducts
    /\ imports = EmptyMap

-----------------------------------------------------------------------------
(* What an account is read from. *)

CreatedAt(jar) == {jar.deposits[i].created_at : i \in DOMAIN jar.deposits}

MergedAt(jar, t) ==
    [created_at |-> t,
     principal |-> Total([i \in {j \in DOMAIN jar.deposits : jar.deposits[j].created_at = t}
                            |-> jar.deposits[i].principal])]

\* Mutant: the deposits are merged and not sorted. A HashMap yields them in
\* any order, this is one.
MergeDeposits(jar) ==
    [jar EXCEPT !.deposits =
        [i \in 1 .. Cardinality(CreatedAt(jar)) |->
            MergedAt(jar, SetToSortSeq(CreatedAt(jar), LAMBDA t, u : t > u)[i])]]

\* merge_deposits, then sort_deposits: one deposit for each creation time.
MergeAndSortDeposits(jar) ==
    [jar EXCEPT !.deposits =
        [i \in 1 .. Cardinality(CreatedAt(jar)) |->
            MergedAt(jar, SetToSortSeq(CreatedAt(jar), LAMBDA t, u : t < u)[i])]]

WithMergedDeposits(image) ==
    [image EXCEPT !.jars = [p \in DOMAIN @ |-> MergeAndSortDeposits(@[p])]]

\* From<AccountV1> for AccountV2, and the legacy score without its timezone.
FromV1(image) ==
    [jars |-> image.jars, timezone |-> image.timezone,
     score |-> [updated_at |-> image.updated_at,
                history |-> [d \in DaysStored |->
                    [value |-> image.scores_history[d], booster |-> 0]]],
     features |-> IF image.is_penalty_applied THEN {} ELSE {"IncreasedApy"}]

CanDeserialize(image) == image.tag \in 0 .. 3

Deserialize(image) ==
    CASE image.tag \in {0, 1} -> FromV1(WithMergedDeposits(image))
      [] image.tag = 2 -> FromV1(image)
      [] image.tag = 3 -> image.account

GetTotalPrincipal(account) ==
    Total([p \in DOMAIN account.jars |-> TotalPrincipal(account.jars[p])])

\* Account::is_empty.
IsEmpty(a) ==
    /\ nonces[a] = 0
    /\ JarsOf(a) = EmptyMap
    /\ accounts[a].timezone = InvalidTimezone
    /\ accounts[a].features = {}
    /\ accounts[a].score.history = EmptyHistory

\* Mutant: whatever is there is overwritten.
AcceptAnyAccount(a) == TRUE

IsNewOrEmptyAccount(a) == a \in DOMAIN accounts => IsEmpty(a)

-----------------------------------------------------------------------------
(* Accounts on their way in. *)

SendImport(s, sender, a, image, amount) ==
    /\ s \notin DOMAIN imports
    /\ amount <= tokens[sender]
    /\ Transfer(sender, Vault, amount)
    /\ imports' = Put(imports, s, [status |-> "sent", sender |-> sender, account |-> a,
                                   image |-> image, amount |-> amount])
    /\ UNCHANGED <<now, enabled, accounts, fee_amount, receipts, ticketVars, airdrops>>
    /\ UNCHANGED <<previous_version, registered>>

ImportArrived(s, status) == s \in DOMAIN imports /\ imports[s].status = status

\* Mutant: the principal is not compared with the amount.
CanMigrateAnyAmount(m) ==
    /\ m.sender = previous_version
    /\ IsNewOrEmptyAccount(m.account)
    /\ CanDeserialize(m.image)

CanMigrate(m) ==
    /\ m.sender = previous_version
    /\ IsNewOrEmptyAccount(m.account)
    /\ CanDeserialize(m.image)
    /\ GetTotalPrincipal(Deserialize(m.image)) = m.amount

OnMigrate(s) ==
    /\ ImportArrived(s, "sent")
    /\ LET m == imports[s]
       IN  /\ CanMigrate(m)
           /\ SetAccount(m.account, Deserialize(m.image))
           /\ nonces' = [nonces EXCEPT ![m.account] = m.image.nonce]
    /\ imports' = Drop(imports, {s})
    /\ UNCHANGED <<now, enabled, fee_amount, receipts, tokens, public_keys, tickets, used>>
    /\ UNCHANGED <<airdrops, previous_version, registered>>

OnMigratePanics(s) ==
    /\ ImportArrived(s, "sent")
    /\ ~CanMigrate(imports[s])
    /\ imports' = [imports EXCEPT ![s].status = "failed"]
    /\ UNCHANGED <<airdropVars, previous_version, registered>>

RefundImport(s) ==
    /\ ImportArrived(s, "failed")
    /\ Transfer(Vault, imports[s].sender, Smaller(imports[s].amount, tokens[Vault]))
    /\ imports' = Drop(imports, {s})
    /\ UNCHANGED <<now, enabled, accounts, fee_amount, receipts, ticketVars, airdrops>>
    /\ UNCHANGED <<previous_version, registered>>

ImportReceipt(s) == OnMigrate(s) \/ OnMigratePanics(s) \/ RefundImport(s)

-----------------------------------------------------------------------------
(* The switch, and the products. *)

DisableMigration ==
    /\ previous_version' = System
    /\ UNCHANGED <<airdropVars, registered, imports>>

EnableMigration(a) ==
    /\ previous_version' = a
    /\ UNCHANGED <<airdropVars, registered, imports>>

\* register_product by a manager, or several at once by the previous version.
\* What else it requires of a product is assumed of Products.
RegisterProducts(ps) ==
    /\ ps \cap registered = {}
    /\ registered' = registered \cup ps
    /\ UNCHANGED <<airdropVars, previous_version, imports>>

MigrateProducts(sender, ps) ==
    /\ sender = previous_version
    /\ RegisterProducts(ps)

-----------------------------------------------------------------------------
(* The rest of the contract. get_product panics if there is none. *)

AllRegistered(a) == a \in DOMAIN accounts => DOMAIN JarsOf(a) \subseteq registered

\* settle_interest looks up every jar's product, if there are days to settle.
CanSettle(a) ==
    HasTimezone(a) /\ DaysToSettle(accounts[a], now) # {} => AllRegistered(a)

\* The previous version is a contract that does nothing but move out.
Users == AccountIds \ {PreviousVersion}

RegisteredCall(s, a) ==
    \/ "withdraw" \in Calls /\ \E p \in registered : Withdraw(s, a, p)
    \/ "withdraw_all" \in Calls /\ AllRegistered(a)
        /\ \E ps \in SUBSET ProductIds : WithdrawAll(s, a, ps)
    \/ "claim_total" \in Calls /\ a \in DOMAIN accounts
        /\ Unlocked(a) \subseteq registered /\ CanSettle(a) /\ ClaimTotal(s, a)

UnticketedStep ==
    \/ \E s \in Slots : TokenReceipt(s) \/ PayoutReceipt(s)
    \/ \E s \in FreeSlots, a \in Users : RegisteredCall(s, a)
    \/ \E a \in Users, tz \in Timezones : SetTimezone(a, tz)
    \/ \E a \in Users, f \in FeaturesSet, e \in BOOLEAN :
            AllRegistered(a) /\ SetFeatureEnabled(a, f, e)
    \/ Tick

RejectUnregistered(s) ==
    /\ InFlight(s, "stake", "sent")
    /\ receipts[s].product \notin registered
    /\ FailStake(s)

StakeStep ==
    \/ \E s \in Slots : RejectStake(s) \/ RejectUnregistered(s)
    \/ \E s \in Slots : AcceptStake(s) /\ receipts[s].product \in registered
    \/ \E s \in FreeSlots, a, b \in Users, p \in ProductIds, x \in Amounts :
            \E tz \in TimezonesFor(p), t \in Offers(b, p, x) : StakeWith(s, a, b, p, x, tz, t)

AirdropStep ==
    \/ \E s \in Slots : OnAirdropPanics(s) \/ RefundAirdrop(s)
    \/ \E s \in Slots : OnAirdrop(s) /\ airdrops[s].product \in registered
    \/ \E s \in Slots : Arrived(s, "sent") /\ airdrops[s].product \notin registered
                            /\ FailAirdrop(s)
    \/ AirdropCall

ContractStep ==
    /\ \/ UnticketedStep /\ KeepsTickets /\ UNCHANGED airdrops
       \/ StakeStep /\ UNCHANGED airdrops
       \/ AirdropStep
    /\ UNCHANGED <<previous_version, registered, imports>>

MigrationNext ==
    \/ \E s \in Slots : ImportReceipt(s)
    \/ \E s \in Slots, sender, a \in AccountIds, x \in ImportAmounts : \E image \in Images[a] :
            SendImport(s, sender, a, image, x)
    \/ DisableMigration
    \/ \E a \in AccountIds : EnableMigration(a)
    \/ \E p \in ProductIds : RegisterProducts({p})
    \/ \E a \in AccountIds, ps \in SUBSET ProductIds : MigrateProducts(a, ps)
    \/ ContractStep

MigrationSpec == MigrationInit /\ [][MigrationNext]_<<airdropVars, migrationVars>>

-----------------------------------------------------------------------------
AirdropsOf(a) == {s \in DOMAIN airdrops : airdrops[s].sender = a}
ImportsOf(a) == {s \in DOMAIN imports : imports[s].sender = a}

\* The same custodian as before: an account on its way is inbound, and so is
\* an airdrop.
MigrationLedger == INSTANCE Custody WITH
    Wallets <- [h \in AccountIds \cup {FeeAccount} |-> InitialTokens[h]],
    Reserve <- InitialTokens[Vault],
    wallets <- WalletsBar, principal <- PrincipalBar, fees <- FeesBar, held <- tokens[Vault],
    inbound <- [a \in AccountIds |->
        InboundBar[a] + Total([s \in AirdropsOf(a) |-> airdrops[s].amount])
                      + Total([s \in ImportsOf(a) |-> imports[s].amount])]

\* An account that moves in brings exactly the tokens it says it holds, or
\* none of it is accepted: it replaces no principal of a deposit or airdrop
\* that came before it, in whatever order they are sent and executed.
MigrationImplementsCustody == MigrationLedger!Spec
=============================================================================
