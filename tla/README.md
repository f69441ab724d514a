# sweat-jar: a TLA+ model

A formal model of the Sweat Jar smart contract (`contract/`, `model/`,
`primitives/`): deposits of SWEAT tokens in *jars* that earn interest, kept by a
NEAR contract whose payouts are asynchronous calls to a fungible token. The
modules are checked with TLC on small instances. Proved with TLAPS, for every
instance: type correctness, the ownership of jar locks, that requests in flight
go on fitting their jars, that callbacks do not panic, that failed transfers
move no deposits, that the contract implements an abstract custodian of
deposits, what tickets are good for, that the interest of fixed and flexible
products is conserved and comes back when a claim fails, and that no call of the
oracle takes interest away.

## 1. The system

### Execution model

A public method runs as one receipt: atomically, and without effect if it
panics. A payout is never part of that receipt. The method locks the jars it is
about, sends `ft_transfer` to the token and names a callback; the token executes
the transfer in a receipt of its own, successfully or not, and the callback runs
in a third one, with the outcome and with arguments that were serialised to JSON
when the method ran. Between the three, any number of other receipts may run, on
the same account too. A callback that panics has no effect and is not repeated.
Nearly everything that is hard about this contract is in those two gaps.

### Components

| Component | State | Operations | What makes it correct |
|---|---|---|---|
| Products and terms (`product/v1.rs`, `product/common.rs`, `UDecimal`) | terms, cap, withdrawal fee, `is_enabled` | `register_product`, `set_enabled`, `calculate_fee`, `is_liquid` | a fee never exceeds a deposit within the cap; lockup is respected |
| Scores (`score/mod.rs`, `timezone.rs`) | two local days of steps and boosters, `updated_at` | `update`, `apply_booster`, `shift`, `wipe`, `to_capped_apy` | steps saturate; the rate of a day is the finished day's before it, capped |
| Jars (`jar/common.rs`) | deposits (oldest first), cache, remainder, lock | deposit, `get_liquid_balance`, `clean_up_deposits`, `lock`, `to_rollback`, `apply` | only liquid deposits leave; a rollback restores what it stands for |
| Interest (`interest.rs`, `get_settled_interest`) | none of its own | current interest, settlement of finished days | no time is lost, none counted twice, nothing after the term |
| Accounts (`account/common.rs`, `account/v2.rs`) | jars, timezone, score, features, nonce | cache updates, settlement, restore | features and penalties do not touch the past |
| Deposits (`ft_receiver.rs`, `Contract::deposit`) | deposits on their way | `ft_on_transfer`, refund by the token | accepted once or refunded |
| Withdrawals (`withdraw/api.rs`) | requests in flight | `withdraw`, `withdraw_all`, their callbacks | principal leaves a jar exactly when the token paid it |
| Claims (`claim/api.rs`) | snapshot in flight | `claim_total`, `after_claim` | interest is paid once; a failed claim changes nothing |
| Restakes (`restake/api`) | requests in flight | `restake`, `restake_all`, callback | deposits move, none is duplicated or dropped |
| Fees (`fee/api.rs`) | `fee_amount` | `withdraw_fee`, callback | fees are paid out once |
| Oracle, penalties, maintainer (`account/api.rs`, `penalty/api.rs`) | – | `record_score`, `apply_booster`, `set_timezone`, features, penalties, `unlock_jars_for_account` | what was earned before the call stays |
| Token (external, used through `ft_interface.rs`) | balances | `ft_transfer`, `ft_transfer_call`, `ft_resolve_transfer` | – |
| Tickets and nonces (`verification/model.rs`, `signer.rs`) | nonce | `verify` | a ticket is good for one operation |
| Airdrop (`airdrop/api.rs`) | – | batch deposit with boosters | equals the single deposits |
| Migration (`migration/api.rs`, `versioned.rs`) | `previous_version_account_id` | on/off, products, accounts | imports once, never over a live account |
| Roles and upgrade (`lib.rs`), views, events, gas | – | – | – |

Components interact through `Contract::accounts` (all of them read and write
jars), `fee_amount`, the vault's single balance at the token (deposits, fees and
interest are paid from the same tokens) and the promises in flight.

## 2. The modules

| Module | What it is |
|---|---|
| `Collections` | finite maps (`HashMap`, `LookupMap`), saturating subtraction, ceiling division |
| `ProductTerms`, `Score`, `Jar`, `Interest`, `Account` | the `model` crate, bottom up, as operators without state: each returns the value a method leaves behind |
| `SweatJar` | the contract and the token: the state machine |
| `SweatJarProperties` | type invariant, safety, action and liveness properties |
| `InterestAudit` | `SweatJar` next to a ledger of interest and steps kept independently of it |
| `Custody` | abstract specification: what a custodian of deposits owes its users |
| `BatchCustody` | extends `Custody` with batches for several holders |
| `SweatJarCustody` | the refinement mapping; `ImplementsCustody` |
| `Tickets` | extends `SweatJarCustody` with keys, signed tickets and nonces |
| `Airdrop` | extends `Tickets` with airdrops |
| `Migration` | extends `Airdrop` with accounts and products that move in |
| `MCSweatJar`, `MCTickets`, `MCAirdrop`, `MCMigration`, `MCInterestAudit` + `*.cfg` | instances for TLC |
| `Sums_proofs`, `Account_proofs`, `Worth_proofs` | lemmas: sums over finite sets; types and effects of the methods of an account; what they do to its principal |
| `SweatJar_proofs`, `Locks_proofs`, `Custody_proofs`, `Tickets_proofs`, `Interest_proofs` | the theorems |

### State and actions of `SweatJar`

`now` is the block timestamp; `enabled` the products that accept deposits;
`accounts` is `Contract::accounts`; `fee_amount` the field of that name;
`tokens` the balances at the token. `receipts` maps slots to transfers in flight,
each with its `kind`, its `status` (`sent`, then `succeeded` or `failed`) and what
its callback is given: the requests of a withdrawal, the rollback of a claim, the
partitions and the target of a restake. `Slots` only bounds how many there are.

Each public method that changes state is an action (`Withdraw`, `WithdrawAll`,
`ClaimTotal`, `Restake`, `RestakeAll`, `WithdrawFee`, `SetEnabled`,
`SetFeatureEnabled`, `SetPenalty`, `SetTimezone`, `RecordScore`, `ApplyBooster`,
`UnlockJarsForAccount`); its panics are the action's guards. Each callback is two,
one per outcome (`AfterWithdraw`/`AfterFailedWithdraw` for both withdrawal
callbacks, `AfterClaim`/`AfterFailedClaim`, ...). `CallbackPanics` consumes a
callback whose guard is false. The token's `FtTransferSucceeds` and
`FtTransferFails`, `Stake` (`ft_transfer_call`) and `RefundStake`
(`ft_resolve_transfer`) are modelled from how the contract uses NEP-141. A batch
call of the oracle is a sequence of single ones.

### Tickets, airdrops and migration

Each of these modules extends the one before with variables of its own and calls
the actions of `SweatJar`, whose variables they share: `AcceptStake` is `OnStake`
with the ticket's check and the nonce, `RestakeWith` is `Restake` with a ticket.

`Tickets` has `nonces` (`Account::nonce`), `public_keys` (`Product::public_key`),
`tickets` (what the stakes and restakes in flight were sent with) and the history
`used`. A ticket is the message it signs, with the key it was signed under, or
`Unsigned`; `IsVerified` is `Contract::verify`. Callers hold every ticket ever
signed for what they do (`Offers`): under any key, with any nonce up to the
present one, for any expiry. A deposit checks and spends the nonce in one receipt
(`AcceptStake`); a restake spends it when its deposits move, which may be in the
callback (`FinishRestake`). `SetPublicKey` rotates a key.

`Airdrop` has `airdrops`, the batches on their way in: `SendAirdrop`, `OnAirdrop`
or `OnAirdropPanics`, and `RefundAirdrop`. The batch is folded over the receivers
in the order of the list (`AirdropToAll`); any receiver that cannot be served
refuses all of them (`CanAirdrop`).

`Migration` has `previous_version` (`previous_version_account_id`), `registered`
(the ids in `Contract::products`) and `imports` (accounts on their way in). The
previous version is a contract that does nothing but move out, and has no jars of
its own (`Users`). An account's stored bytes are an image: a tag and the fields
of the layout; `Deserialize` is `AccountVersioned`'s reader with its conversions
(`MergeAndSortDeposits`, `FromV1`). Calls that would read an unregistered product
are refused (`RegisteredCall`, `RejectUnregistered`).

`InterestAudit` is `Next` conjoined with `Audit`, which never looks at caches,
remainders or score windows: it adds, for every millisecond, what each deposit
earns at the rate of that millisecond (`earned`) and what it could earn at 100%
(`ceiling`), what claims paid (`paid`), what left with withdrawn or restaked
deposits and closed jars (`forgone`), and the steps recorded for each local day
(`recorded`). Interest is counted in units of 1 / `MsInYear`, so that it is exact.

### Time scales

Time scales are constants: `MsInDay`, `MsInYear`, `RateScale` (the denominator of
rates, at which a score means 100%) and `MaxScore` (the largest `u16`).

### Abstraction

* In `SweatJar` a deposit ticket is only its product and timezone and is taken for
  valid; `Tickets` adds the rest. The ed25519 check is abstract: a signature fits a
  message and a key or it does not. The service that signs uses the nonce it reads,
  so no ticket exists for a later one.
* A rate is an integer over `RateScale`; `saturating_mul` and `u128` limits do not
  bite at the amounts of the token's supply and are left out. Rounding down, the
  remainder carried per jar, and the ceiling of `restake_all` are kept.
* Increments of one call to `record_score` arrive as a sum per day; outdated ones
  are dropped by the code and never offered.
* The JSON of the callbacks' arguments is modelled where it matters: an absent
  cache comes back as "do not restore" (`ToRollback`, `ApplyRollback`).
* `products` is constant apart from `enabled`, with `register_product`'s
  assertions (`CanRegister`) as an assumption; `Tickets` changes keys, `Migration`
  registers products.
* `Migration` leaves out restakes, scores and boosters, which only act on accounts
  in use and leave them so. The bytes of an image, their base64 and their borsh
  encoding are abstract; an unknown tag is kept, since it panics.
* Gas, storage, events and views are left out. A receipt that runs out of gas is
  a panic, which the model has for transfers (`FtTransferFails`) but not for
  callbacks, whose gas is reserved statically.

## 3. Properties

* `TypeOK`: every variable has its type. For amounts this is a statement on the
  code: none of its unchecked `u128`/`u64` subtractions goes below zero.
* `LockOwnership`: a jar is locked exactly while one transfer about it is in
  flight. It fails if a method forgets to lock or skips `assert_not_locked`, if a
  callback forgets to unlock or unlocks another's jar, or if anything closes a jar
  under a callback.
* `RequestsMatchJars`: the amounts and partition indices computed before a
  transfer still fit the jars when the callback uses them.
* `CallbacksRun`: no callback of a payout panics. It fails if a jar disappears, or
  loses deposits, while it waits for a transfer.
* `ImplementsCustody`: see below.
* `FailedClaimKeepsInterest`: when a claim's transfer fails, its interest can be
  claimed again.
* `FailedClaimKeepsRecords`: nor does the callback take away a timezone or today's
  steps, whenever they were recorded.
* `FailureKeepsDeposits`: a callback told of a failure moves no deposit and books
  no fee, even if a maintainer unlocked the jars.
* `OracleCallsKeepInterest`: no score, booster, timezone, feature or penalty takes
  away what could be claimed just before.
* `LocksReleased`: every lock is released in the end.
* `TicketUsedOnce`: no ticket takes effect twice. It holds for deposits and for one
  restake at a time, with the receipts of other operations and rotations of the key
  between the check and the effect.
* `SignedPrincipal`: what an account holds in a protected product is covered by the
  tickets that took effect: nothing enters it unsigned, by either way in.
* `AirdropImplementsCustody`: the custodian of `BatchCustody`, which also takes
  batches. What each account is to have of one follows from its list when it is sent.
  It is accepted for all its receivers, each getting its share as often as it is listed
  and nobody else anything, or it comes back as a whole, also if only one of its
  receivers cannot be served.
* `MigrationImplementsCustody`: the custodian of `Custody` with one more way in, next to
  deposits and airdrops: an account that moves in brings exactly the
  principal it says, replaces none, and refused ones go back.
* `AirdropsKeepInterest`: an airdrop with a booster takes away nothing its receivers
  could claim just before. One without a booster may: see the end of section 4.
* `InterestConserved`: had (paid, on the way, claimable) + forgone = earned, exactly,
  at any interleaving of deposits, claims, failures and withdrawals. It fails for a
  lost remainder, a cache skipped before a rate changes, an interval counted twice. It
  is stated for fixed and flexible products. A rate that changes while a claim is in
  flight breaks it, and so does a claim of a jar that a restake created
  (`RestakedClaim`); section 5 says that nothing else does.
* `BelowCeiling`: interest never exceeds 100%, nor anything after a deposit's term.
* `ScoreOfYesterday`: the score that sets today's rate is the one recorded for the
  local day before.

### The abstract specification

`Custody` knows wallets, tokens on their way in, principal in custody per user,
fees, and the one balance that holds it all together with a reserve. Principal
leaves custody only into the wallet of the one whose it is, less a fee; only
interest moves the reserve. The mapping books a payout at the moment the token
makes it (`PrincipalBar` subtracts payouts that succeeded and whose callback has
not run). So `ImplementsCustody` says that, seen from outside, method, transfer
and callback are one atomic step: nothing is paid twice, no failed transfer costs
anything, no restake duplicates a deposit, fees add up. The balance may fall below
what `Custody` owes, as in the code: nothing keeps interest from being paid out of
what others deposited.

`Custody` does not say whose principal inbound tokens become (`Accept`), as the
sender of a deposit may name another account. `SignedPrincipal` says it for protected
products, and `BatchCustody` for airdrops.

## 4. Runs

A year mostly lasts two milliseconds, so that one unit of
principal earns half a unit per tick at 100% and remainders matter.

| Run | Instance | Shows |
|---|---|---|
| `Payouts` | one user, a fixed product with a fixed fee and a flexible one at half rates, deposits of 2 and 3, two transfers in flight, three instants, `claim_total`, `withdraw`, `withdraw_all`; the ledger of interest | `TypeOK`, `LockOwnership`, `RequestsMatchJars`, `ImplementsCustody`, `InterestConserved`, `FailedClaimKeepsInterest` |
| `Restakes` | both products take fees, no reserve, one jar per claim, `restake`, `restake_all`, `withdraw`, `withdraw_fee`, `claim_total`, a product that is disabled and enabled | `LockOwnership`, `RequestsMatchJars`, `CallbacksRun`, `ImplementsCustody` when interest eats into deposits, fee shares are rounded and payouts of fees fail |
| `Release` | `FairSpec`, a flexible product, two transfers in flight, a maintainer who unlocks at will | `LocksReleased`, `FailureKeepsDeposits`; callbacks do panic here |
| `Scores` | a tiered and a flexible product, days of two ticks, a timezone one tick ahead of UTC, steps, boosters, a feature and penalties, `claim_total` | `TypeOK`, `OracleCallsKeepInterest` |
| `Tickets` | a protected product, two keys, two expiries, stakes, `restake`, `restake_all`, `withdraw`; three instants, nonces up to 3 | `TicketUsedOnce`, `SignedPrincipal` |
| `Airdrops` | the oracle and a second account, a protected tiered product, three days, lists of both and of one twice, amounts that divide and that do not, boosters dated the second day, deposits by the oracle for either, recorded steps, timezones set by oracle or ticket, `withdraw` | `AirdropImplementsCustody`, `AirdropsKeepInterest`, `OracleCallsKeepInterest` |
| `Migrations` | V1 accounts with unsorted deposits or a penalty, a V2 account, an unknown layout, right and wrong amounts; tickets, airdrops, a timezone, a feature, `claim_total` and both withdrawals of their owner; the product registered late | `LockOwnership`, `RequestsMatchJars`, `TicketUsedOnce`, `MigrationImplementsCustody` |

Bounds: `InitialTokens` bounds deposits (two of the smallest size, or one that is
later split), `Slots` transfers in flight, `MaxTime` the clock, `Calls` the methods
users call in an instance, `Amounts` what they deposit and restake,
`MaxJarsPerClaim` is the code's limit. Two slots are enough for everything that two
operations can do to each other, and a third adds only a bystander: locks keep
operations on the same jars apart. Three instants take a fixed deposit from locked
(at its first and second tick) to liquid; two products give a jar that is in an
operation and one that is not, and a source and a target of a restake. `Scores` has
the shift of the score window in the middle of a UTC day; `Airdrops` spans three
days, so that shift, wipe and a day without steps all happen. Its two accounts are
the least for which sharing out means anything, and they differ when a batch
arrives: by having a timezone or not (without one in the ticket, the batch panics
over the one that has none), jars or not, interest of a finished day or not, a
withdrawal in flight or not. Boosters are dated in the future, today or the day
before, as the clock goes; a future one makes a batch panic, and so does an amount
that does not divide. `MaxNonce` bounds operations with a ticket: one deposit per
account in `Airdrops`, elsewhere one or two more than what fits into the tokens.
`Tickets` has few enough tokens that a second restake cannot be made while one is in
flight: with more, `TicketReuse` shows what happens. In `Payouts` a year has three
milliseconds and rates are halves, so that every caching leaves a remainder. Runs do
not check for deadlock, since the clock stops at `MaxTime` and the system may then
have nothing left to do.

Fairness (`Release` only): weak fairness of the token's and of the contract's
receipts, because NEAR executes every receipt that was sent. Users, oracle,
maintainer and clock owe nothing. There is one jar, so that a callback that panics
over a jar that is gone leaves no other one locked: with several jars in a request
and a maintainer unlocking one of them, it does, until the maintainer unlocks the
rest. Without the maintainer no callback finds its jar gone, which is
`LockOwnership`.

### Where the code differs from what it says

Five runs end in a violation; each checks one statement made in the repository.

* `RestakedClaim` (`FailedClaimKeepsInterest`). `claim_rollback` "must cover every
  piece of account state `claim_total` mutates". A jar that was created by a
  restake has no cache. Its snapshot is `Some(None)`, the JSON is `null`, and what
  is read back is `None`: the cache `claim` wrote, with interest 0, stays.
  `Payouts` checks the same property without restakes, where it holds.
* `TicketReuse` (`TicketUsedOnce`). A restake "should increment nonce", but one with
  a remainder does so only in its callback. Until then, a second restake of another
  jar with the same amount passes on the same ticket.
* `ForgottenSteps` (`FailedClaimKeepsRecords`). "Failed claim. Score should stay the
  same": the rollback also takes back steps recorded while the claim was in flight.
  It does the same to a timezone, which `claim_total` never changes, if there was
  none when the claim was sent; a score-based jar opened meanwhile cannot compute
  its interest then.
* `LostDay` (`ScoreOfYesterday`). "APY for day N is defined by score of the day
  N-1", and a claim should not change the score. A claim on the day after steps were
  recorded shifts them without moving `updated_at`; for the rest of that day the
  finished score is looked for in slot 0, where there is nothing now.
* `DoubleCounted` (`BelowCeiling`). 100% is "the hard ceiling". A deposit caches what
  its jar earned today; the first settlement of the day dates the cache back to the
  start of the day, and today is counted again. Settlement also pays whole days
  beyond the lockup term, which the same property forbids.

What else the model does because the code does it, and no run forbids:

* `deposit`, `withdraw`, `restake` and an airdrop without a booster cache a
  score-based jar without `settle_interest`, so a finished day before them is never
  paid (`OnStake`, `OnAirdrop`).
* A penalty or a feature that is switched while a claim is in flight caches what was
  earned so far; if the claim fails, its rollback puts the older cache back, and the
  time before the switch is paid at the new rate (`RestoreAccount`; `RatesSteady`
  excludes it from the theorems on interest).
* A restake with a remainder checks that its target is enabled when it is called and
  creates the jar in its callback (`AfterTransferRemainder`), whatever has become of
  the product, though "any attempts to create jars for the product will be rejected"
  once it is disabled.
* After a maintainer unlocked a jar in the middle of a transfer, another operation can
  pay out the same deposits (`UnlockJarsForAccount`).
* `withdraw_all` panics on a jar with a fixed fee and nothing liquid, and takes the
  other jars down with it (`CanPay`).
* An account that only had airdrops, and withdrew them, is empty again for `is_empty`,
  and another may be moved over it (`IsEmpty`), which costs nobody principal
  (`MigrationImplementsCustody`).

`get_total_interest`, which is not modelled, adds the interest of finished days to
that of the day computed with the score before its shift, so on a later day than
the last record it shows more than `claim_total` pays.

## 5. Proofs

The theorems hold for all products, accounts, time scales, initial balances and
numbers of transfers in flight, under the modules' named assumptions
(`RateScaleAssumption`, `ScoreAssumption`, `InterestAssumption`,
`AccountAssumption`, `SweatJarAssumption`, `CustodyAssumption`,
`TicketsAssumption`), which TLC evaluates on the instances. `CustodyAssumption`
says that there are finitely many account ids, as there are: they are strings of
at most 64 characters.

| Theorem | Specification | States | Needs |
|---|---|---|---|
| `TypeCorrect` | `Spec` | `[]TypeOK` | `TypeInv` |
| `DepositsKept` | `Spec` | `FailureKeepsDeposits` | `TypeInv` |
| `LocksOwned` | `Spec`, `~MaintainerUnlocks` | `[]LockOwnership` | `LockInv` |
| `RequestsFit` | `Spec`, `~MaintainerUnlocks` | `[]RequestsMatchJars` | `LockInv` |
| `NoCallbackPanics` | `Spec`, `~MaintainerUnlocks` | `CallbacksRun` | `LockInv`, `Present` |
| `CustodyImplemented` | `Spec`, `~MaintainerUnlocks` | `ImplementsCustody` | `CustodyInv` |
| `PrincipalSigned` | `TicketsSpec` | `[](TicketUsedOnce => SignedPrincipal)` | `TicketInv` |
| `DepositTicketsOnce` | `TicketsSpec` | `[]DepositOnce(used)` | `TicketInv` |
| `TicketsOnce` | `TicketsSpec`, `[][RestakesAlone]` | `[]TicketUsedOnce`, `[]SignedPrincipal` | `OnceInv` |
| `InterestIsConserved` | `AuditSpec`, `~MaintainerUnlocks`, `NoScoreBased`, `[][ClaimsCached /\ RatesSteady]` | `[]InterestConserved` | `InterestInv` |
| `FailedClaimsRestored` | the same | `FailedClaimKeepsInterest` | `InterestInv` |
| `PayoutsConserveInterest` | `AuditSpec`, `~MaintainerUnlocks`, `NoScoreBased`, `PayoutsOnly` | `[]InterestConserved` | `PlainInv` |
| `PayoutsRestoreClaims` | the same | `FailedClaimKeepsInterest` | `PlainInv` |
| `OracleKeepsInterest` | `Spec` | `OracleCallsKeepInterest` | `TypeInv` |

`~MaintainerUnlocks` means that maintainers do not call
`unlock_jars_for_account`. They can break a lock with it; that is what it is for.
`DepositsKept` and `OracleKeepsInterest` hold whatever they do. `NoScoreBased`
says that no product is score-based: `InterestConserved` is a statement about the
others. `PayoutsOnly` says that users call neither restake and that no feature
is switched (`Calls`, `FeaturesSet`), as in the run `Payouts`.

* **Types.** `TypeOK` alone is not inductive: a jar's interest is a natural number
  only if nothing it was computed from is dated in the future, since a flexible
  product computes `now - since` without saturating. `TypeInv` adds that caches,
  deposits and scores, those in the snapshots of claims included, are not later
  than `now`, and that deposits are kept oldest first. `Account_proofs` has one
  lemma per account method.
* **Failures.** A callback that is told of a failure does no more than unlock jars
  and, for a claim, restore caches, remainders, scores and timezones from the
  snapshot. The lemmas in `Account_proofs` say so for every snapshot of the right
  type, whatever has become of the account meanwhile.
* **Locks and requests.** `LockInv` is `TypeInv`, `LockOwnership` (as `Owned`) and
  `Fitting`: what every withdrawal and restake in flight counted is still there, is
  liquid and adds up to what it pays. `LockOwnership` is not inductive without
  `Fitting`, because a callback that drained more than there is would panic and
  leave its jars locked with no transfer to wait for. `Fitting` is not inductive
  without the order of deposits and the locks: while a jar is locked it can only
  gain deposits, which are appended behind the counted ones, and nothing that was
  liquid stops being so (`FitsKept`). Each method is shown to take, keep or free
  locks (`Steps`), and each action to match that with the receipt it sends or
  consumes. That no callback panics follows: a receipt holds the locks of its jars,
  so they are there, with the deposits it counted; `Present` adds that its account
  is there if it is about no jar.
* **Custody.** The books of the abstract custodian are sums over accounts, jars,
  deposits and receipts. `BooksMove` reduces them: a step that leaves all receipts
  but one alone moves the books by what the accounts and that receipt stand for
  before and after it. `Worth_proofs` says what each method does to the principal
  of an account, so that each action becomes a matter of one receipt and one
  account. Where a payout succeeds, principal in custody must not fall below zero:
  `PrincipalCovered` follows from `LockInv`, since payouts in flight are of
  different jars (locks) and each of no more than its jar holds (`Fitting`). So
  `CustodyInv` is `LockInv` and that there are finitely many receipts. The proof
  maps initial states to initial states and every action to one of `Custody` or a
  stutter.
* **Tickets.** `TicketInv` says that a stake or restake in flight carries the
  ticket of what its callback will deposit, that a ticket that took effect is
  outdated (its nonce is less than the account's), and that what an account holds
  in a protected product is at most its tickets' amounts, each counted as often as
  it was used. Nothing but `AcceptStake`, `FinishRestake` and a restake without
  remainder adds principal to a product, each as much as its ticket says
  (`EffectWeight`); keys are replaced, never removed. A ticket is used twice only
  if two restakes pass on the same nonce before either spends it. `RestakesAlone`
  is the caller's discipline that excludes it: no restake of an account is called
  while another of its restakes waits for its transfer. Then `RestakesOnce` is
  inductive: the ticket of a restake in flight is unused, and there is one such
  restake per account. `TicketsOnce` thus says that what `TicketReuse` shows is
  the only way to use a ticket twice.

* **Interest.** `Due` is what a jar owes: its cached interest, its remainder and
  what its deposits have yielded since, in units of 1 / `MsInYear`. `Balanced` says
  that what an account has had, is due and has forgone is what it earned; the
  quotients and remainders of `InterestConserved` are the two halves of `Due`.
  Every call that caches moves `Due` from one part of the sum to another, and a
  tick adds to `earned` exactly what `Due` gains by it (`YieldTick`): deposits are
  cached in pieces, but their yields are additive in time. `Balanced` is not
  inductive, because the callback of a failed claim writes back what the claim
  read. `ClaimsRestorable` adds, of every claim in flight, that restoring its
  snapshot would give back exactly what it took, jar by jar. It survives
  everything between the claim and its callback: the jars are locked, so they only
  gain deposits and time, and both count the same before and after a rollback.
  Two steps do break it, and the code takes both. A claim of a jar that was never
  cached takes a snapshot that restores nothing (`RestakedClaim`); `ClaimsCached`
  excludes it. A feature or a penalty changed while a claim is in flight is applied
  to the past too if the claim fails (`RestoreAccount`); `RatesSteady` excludes it. So
  `InterestIsConserved` says that these are the only ways to lose or gain interest.
  Both are conditions on the steps of a behaviour. `PlainInv` shows that without
  restakes and features they are met by every behaviour: whatever creates a jar
  caches it in the same receipt. That gives `PayoutsConserveInterest` with
  conditions on constants only. TLC checked `InterestInv` before it was proved, on
  the instance of `Payouts` and, under the two conditions, on one with restakes and
  a feature (neither is kept as a run of its own). `FailedClaimsRestored` follows by rounding down jar by jar.
* **Oracle.** For all products, score-based ones included, and from `TypeInv` alone: a
  settlement only adds to cache and remainder (`SettledInterestNat`,
  `SettledGrows`), and a second settlement at the same instant takes nothing back
  (`SettledTwice`). Recording a score or a booster settles first and then leaves
  the finished day's score no lower, so that what accrues at its rate is no less
  (`ScoreUp`); a change of features caches everything first; a timezone is set
  where there was none; unlocking touches no interest.

Only model-checked: liveness (`LocksReleased`: fairness is out of the prover's
reach), `AirdropsKeepInterest`, and the refinements of `BatchCustody` by `Airdrop`
and of `Custody` by `Migration`, whose ways in are folds over lists of receivers and
sorted deposits, for which there are no lemmas yet. No theorem bounds what scores
earn: `BelowCeiling` and `ScoreOfYesterday` fail. No module declares RECURSIVE
operators; sums are folds over finite sets, whose laws are proved in `Sums_proofs`.

## 6. Not modelled

The ed25519 check and the bytes of messages and stored accounts; roles (every call
is made by someone who may); contract upgrade; views; events, gas, storage;
overflow of `u128`. They change no state, are output, or belong to the platform
and its plugins.

## 7. Plan

Done, in this order: `ProductTerms`, `Score`, `Jar`, `Interest`, `Account`,
`SweatJar`, its properties, `Custody`, proofs of types and locks, `Tickets`,
`Airdrop`, `Migration`, `InterestAudit`, proofs of requests, failures, the
refinement of `Custody`, tickets, the conservation of interest and the calls of the
oracle.

Next, by weight: a ledger of what score-based jars are due, stated for the score
that the code uses; the refinements of `BatchCustody` by airdrops and of `Custody`
by migrations; `AirdropsKeepInterest`.
