# Verification of the floor program

A TLA+ development of the on-chain program under `programs/floor-program` and of
the clients that drive it: the state machine of its instructions, what it promises
as an abstract ledger, who may administer it, and the transactions in flight towards
it, model-checked with TLC on small instances, and theorems proved with TLAPS for
every value of the constants.

## 1. The system

Investors who hold an AAT NFT deposit USDC in a pool (the *lobby*). Anybody can
sell wALN to the program at a floor price; the sales are grouped in *rounds* of a
fixed number of wALN. The first sale of a round locks the USDC that will pay for it,
pro rata to the volume in the investors' NFTs. The sale that fills a round settles
it: every participant is allocated wALN, to be claimed when a lock period is over,
and the next round starts in the same instruction. An admin changes the settings,
mints and reweights NFTs, removes inactive investors, and ends a round early.

| Component (file) | State | Operations | Modelled in |
|---|---|---|---|
| Round arithmetic (`start_round.rs`, parts of `sell_waln.rs`, `close_round.rs`) | none: functions of the pool | eligibility loop, locks, rounding gap, allocations, charges of a forced close | `RoundMath`, `RoundLoops` |
| Pool (`deposit_usdc.rs`, `withdraw_usdc.rs`, `remove_investor_from_pool` in `admin.rs`) | `InvestorPool`, USDC vault, `total_usdc_in_lobby` | deposit, withdraw, swap-remove | `FloorProgram` |
| NFTs (`mint_aat_nft.rs`, `update_aat_volume.rs`) | mint and metadata of each investor, `total_aat_volume` | mint, change of volume | `FloorProgram` (who holds one, and its volume) |
| Rounds (`sell_waln.rs`, `close_round.rs`, `cancel_round` in `admin.rs`) | the `current_round_*` fields, `round_count`, `waln_dust_carryover`, wALN vault | sale, filling sale with settlement and auto-start, cancel, forced close | `FloorProgram` |
| Claims (`claim_waln.rs`) | `RoundLockedWaln` of each round | claim; the last claim closes the account | `FloorProgram` |
| Treasury and round accounts (`admin.rs`, `close_round_record`) | lamports of the treasury and of the rounds' accounts, `RoundRecord` | fund, withdraw, create or top up, close | `FloorProgram` |
| Settings (`initialize.rs`, setters in `admin.rs`) | `ProgramState` settings | one setter each | `FloorProgram` |
| Authority (`initialize.rs`, `transfer_authority.rs`) | `admin`, `pending_admin` | initialize, offer, accept | `Authority` |
| Transfer-hook helpers (`utils.rs`, `sdk/utils.ts`) | none; the mint's hook and its configuration are external | resolve (SDK) and validate (program) the hook's accounts | `HookAccounts` |
| SDK (`sdk/`) | what it has read, transactions in flight | build sales, claims, forced closes | `FloorClients`, `HookAccounts` |
| Admin CLI (`admin-cli/`) | none | send one admin instruction per command | `FloorClients` |

**Interaction.** All instructions share `ProgramState` and `InvestorPool`, and each
one runs atomically: the runtime serialises transactions that write the same
account and reverts one that fails. There are no callbacks into the program. So the
concurrency on chain is in the *order* of whole instructions of investors, sellers,
the admin and the clock. Off chain, a client reads accounts, builds a transaction from
what it read and sends it; what it read may be stale when the transaction is executed,
and the transaction may be delayed or lost. The hard behaviours are:

* books that are kept twice and adjusted by hand (`total_usdc_in_lobby` and the
  slots; `total_usdc_locked_for_round` and the slots; `total_aat_volume` and the
  NFTs; `remaining_to_claim` and the entries);
* integer divisions at three places of a round's life (the locks, each payment, the
  allocations) that must fit each other;
* settings, volumes and slots that change while a round uses a snapshot of them;
* the filling sale, which settles one round and starts the next one, and whose
  auto-start swallows two errors;
* accounts that are created from the treasury, maybe at an address that already
  holds lamports, and are closed by the last claim;
* transactions that name the accounts of the round, or of the transfer hook, that
  their client saw, and land on another round or under another hook;
* progress: every way a round can get stuck (an empty treasury, a remainder nobody can
  be paid for, an unlock time that overflows, a settlement whose sums do not fit).

`PROJECT.json` lists these as hazards, each at its line, with the properties that
would catch it.

## 2. Modules

| Module | What it is |
|---|---|
| `Sums` | finite sums as a recursive function; `Least`, `Greatest` |
| `RoundMath` | the arithmetic of a round: operators, no state |
| `FloorProgram` | the state machine: variables = accounts, one action per instruction |
| `RoundLoops` | the loops of the source, one step per slot, compared with `RoundMath` |
| `FloorProperties` | the type invariant and the safety properties of the program |
| `FloorLiveness` | fairness of one party at a time, and the liveness properties |
| `FloorLedger` | abstract specification: who owns USDC, who is owed and was paid wALN |
| `FloorRefinement` | the refinement mapping from `FloorProgram` to `FloorLedger` |
| `FloorClients` | `FloorProgram` composed with the clients of the SDK and the CLI |
| `Authority` | the admin role |
| `HookAccounts` | the transfer hook's accounts between the SDK and the program |
| `RoundProofs` | the algebra of `Sum`; what the `RoundMath` operators return: bounds, pro-rata shares, division; counts and totals over a prefix of the slots |
| `FloorProofs` | type correctness of the program, the inductive invariant of the USDC books |
| `PoolProofs` | settings, rounds, slots and NFTs, locks and solvency |
| `ClaimProofs` | the accounts of settled rounds: claims, wALN, rent, lamports |
| `RefinementProofs` | the program implements the ledger; a late forced close hits no later round |
| `AuthorityProofs` | the admin role changes hands by an accepted offer only |
| `HookProofs` | the hook gets the accounts of its configuration in force |
| `LoopProofs` | the loops of the source compute what `RoundMath` says |

**State.** `config` and `round` hold the settings and the `current_round_*` fields
of `ProgramState`; the other fields are variables of their own under the source's
names. `count` and `investors` are the `InvestorPool`. `round_locked_waln[r]` and
`round_record[r]` are the accounts of round `r`, with their lamports. `usdc_vault`,
`waln_vault` and `treasury` are balances. `minted` and `aat_volume` stand for the
NFT mints and their metadata. `now` is the clock. `paid_waln` is a history
variable: what `claim_waln` has paid to each key.

**Actions** have the names of the instructions. `sell_waln` is split by its outcome:
`sell_waln` leaves room in the round, `sell_waln_filling` fills it and contains the
whole settlement and the auto-start. A handler that returns an error is reverted by
the runtime and is no step, so guards are the `require!`s, the `checked_` operations
and the balance checks of the token transfers.

`PrefundLocked`, `PrefundRecord` (lamports sent to an address before the program
creates the account) and `Tick` are the environment.

**Mutants.** Definitions marked "Mutant of ..." are not part of the specification:
each is a plausible bug in the definition after it, and shows that a property can
fail.

**The ledger.** `FloorLedger` has five variables (`owned`, `owed`, `paid`, `pot`,
`due`) and the steps Deposit, Withdraw, Sell, Fill, Close and Claim. The mapping sums a key's
deposit and lock to `owned` and its unclaimed entries to `owed`; the wALN of the
round and the dust are the `pot`, and what the sellers got in the round is `due`.
A filled round charges the locks and not `due` (the sellers' payments are rounded one
by one), so Fill only says that it charges something and allocates; Close is exact.

**Clients.** `FloorClients` adds the transactions in flight to `FloorProgram`. A sale
or a forced close carries the two account addresses that its client derived from the
`round_count` it read; executing it (`LandSale`, `LandOrder`) is the action of
`FloorProgram` behind the program's check of these addresses. A transaction can be
executed in any order with the others or expire. Commands of the CLI that name nothing that
changes are sent and executed in one step. `saw` is a history field: what has become of the round
in which the sender saw sales. The CLI has no command for `close_round`; it is sent
with the SDK.

**Hooks.** `HookAccounts` has one transaction: the client reads the mint, then each
field of the hook's configuration by a read of its own (the token library resolves
the accounts one by one), then sends. The authorities of the mint and of the hook
change both at any moment. `Execute` is what `sell_waln` and `claim_waln` do with the remaining
accounts; whether a sale fills the round is left open.

**Loops.** `RoundMath` states the loops in closed form (the last participant, the
number of slots before this one). `RoundLoops` runs them as the source does, with
the running totals `remaining_usdc_remainder`, `remaining_waln` and
`processed_eligible`, from the start of a round to its settlement.

**Authority.** The admin's identity is not in `FloorProgram`; `Authority` models it
alone, because no other instruction reads or writes the two fields except to compare
the signer with `admin`.

### What is abstracted

* Wallets hold what the vaults do not, out of a fixed supply of each token; so a
  transfer in is bounded by the supply, and one out by the vault. Direct transfers
  of tokens into the vaults are left out.
* Investors' keys are numbers. A round's entries are indexed by the slot the
  investor had at the settlement instead of being sorted by key; the sort serves
  the binary search of `claim_waln` only. An entry with nothing to claim is zero
  here and absent in the account.
* Not kept: `triggered_at`, `total_aat_volume_at_trigger`, bumps, decimals of USDC,
  events (the conversion of an allocation to USDC for its event can fail the sale and
  is a guard of `sell_waln_filling`); in `FloorProgram`
  also the list of transfer-hook accounts and the identity of the admin, which have
  modules of their own.
* The rent of an account is a constant per account plus a constant per entry. That
  a non-empty treasury must itself be rent exempt (a rule of the runtime) is left out.
* An NFT, once minted, stays: it is minted non-transferable into an account that is
  frozen in the same instruction, the mint's authorities are removed, and the program has no
  instruction that burns it.
* u64 and i64 limits are the constants `U64_MAX` and `I64_MAX`; `withdraw_usdc` with
  `U64_MAX` is "withdraw all".

## 3. Runs

`core`, `pool` and `withdraw` check safety with `FloorProperties`; the
others use the module of their part. Deadlock is checked and does not occur (a
setting can always be set), except in `authority`, where the upgrade authority may be
given up before the program is initialized and then nothing can happen any more.

| Run | Config | Properties | Question |
|---|---|---|---|
| `core` | `FloorCore.cfg` | `TypeOK` `LobbyAccounting` `LocksMatchRound` `Solvent` `ProRata` `SettlementFits` `WalnConserved` `ClaimsCounted` `PurchasesBacked` `AllocationsFinal` | three investors for two slots, two rounds, claims: do all books agree after every order of instructions? |
| `settings` | `FloorSettings.cfg` | `SettingsViable` `RoundCanFill` `SnapshotFixed` `PausedRoundEnds` | settings change at any moment: are they viable together, is a round's snapshot fixed, can a round always be filled, and does the admin end every round that `close_round` does not refuse? |
| `pool` | `FloorPool.cfg` | `PoolMatchesNfts` `ProRata` `Solvent` `LocksFixed` | three investors, volumes that change and drop to zero, slots that move during a round |
| `treasury` | `FloorTreasury.cfg` | `RentExempt` `LamportsConserved` `PausedRoundEnds` | rents, prefunded addresses, a drained treasury, removals, records deleted: are the accounts rent exempt, where do lamports go, and what can keep the admin from ending a round? |
| `withdraw` | `FloorWithdraw.cfg` | `WithdrawLockHolds` | withdraw locks, admin overrides, "withdraw all" |
| `ledger` | `FloorLedger.cfg` | `ImplementsLedger` `AccountsDrain` | is every instruction a ledger step, and is every settled round paid out? |
| `round_loops` | `RoundLoops.cfg` | `LoopsMatchRoundMath` `SelectionIsGreatest` `CloseBalances` | do the loops compute what `RoundMath` says, whom do they select, and can a forced close fail half way? |
| `clients` | `FloorClients.cfg` | `CloseSettlesSeenRound` `ClientsFill` | what do late and reordered transactions do, and do racing sellers with stale accounts still complete rounds? |
| `authority` | `Authority.cfg` | `OfferIsCurrent` `HandOverByOffer` | how can the admin role move? |
| `hooks` | `HookAccounts.cfg` | `TransferUsesCurrentConfig` `ClientGetsThrough` | what if the hook changes while a client resolves its accounts? |
| `gap_close` | `GapClose.cfg` | `PaidWithinLocks` | violated, see below |
| `lock_overflow` | `LockOverflow.cfg` | `ForceSettles` | violated, see below |

### Fairness

The program is passive, so nothing happens unless somebody sends an instruction; the
code cannot promise that anybody does. Liveness is therefore conditional: *one* party
keeps sending, all the others do as they please, and what makes the program refuse
by design is a premise. Weak fairness of an action says that this party retries as
long as the instruction would succeed.

* `AdminSpec`: the admin keeps sending `cancel_round` and `close_round`. While sells are
  paused and the premises of `PausedRoundEnds` hold, one of the two is enabled and
  stays so: weak fairness is enough. The premises are for rounds with sales: the
  treasury covers the rent (`TreasuryCovers`), and `close_round` does not refuse by
  its own checks (`Settleable`): the sellers were paid at most the locks, the locks
  together buy some wALN, and the unlock time is an i64. A round without sales can
  always be cancelled.
* `ClaimSpec`: each investor keeps claiming, and the cluster's clock advances. The
  clock is bounded; an account whose lock ends after the bound is excepted.
* `PersistentSpec` (clients): a holder keeps sending, and reads the round before each
  attempt. Other sales can invalidate its accounts again and again, so a sale that
  is executable infinitely often must not be lost every time: strong fairness of
  its execution, which is what resending on a live cluster amounts to.
* `HookAccounts!Spec`: the client goes on resolving and sending, with strong fairness
  of the execution for the same reason. Its liveness has as a premise that the hook
  stops changing.

### Bounds

Price 3 and scale 2 make every division of `core` round: the cap of a round of 3
wALN is 4 (from 4.5), sales of 1 (a sale of 2 cut to the rest of the round) and 2 units pay 1 (from 1.5) and 3, and a lock of 4
buys 2 wALN (from 2.67), so rounds carry dust into the next round, which the second
round spends; volumes 1 and 2 give shares with a gap; a deposit of 2 is exactly half
the cap, and one of 4 is a cap. `MaxRounds = 2` is the least number that shows a
carry-over and an auto-started round that is settled as well. There are three
keys for the two slots, so that a newcomer meets a full pool. `pool` has three
investors: three deposits of 2 for a cap of 5 leave a gap that nobody can pay, the
case where the locks fall short of the cap, and three is the least number for which
the gap is two units, so that a partial sale can be paid more than is locked
(`gap_close`).
`withdraw` has an admin override later than a new deposit's lock, lets the clock
pass both, and its largest amount is `U64_MAX`.

An empty set of arguments switches an instruction off in a run that is not about it
(`Switches = {}`: pausing and freezing; `LamportAmounts = {}` and rents of zero: the
treasury). Between them the runs take every action. `MaxRounds`, `MaxTime` and the
supplies are the only bounds that are not the program's own.

`round_loops` starts from every pool of three slots with deposits from {0, 2, 3, 4, 5, 8}
and volumes from {0, 1, 2, 5}, sizes 3, 5, 6 and prices 2, 3 at scale 2, with sales of
every size: shares that round to zero, groups that shrink turn by turn, gaps of one
and two units, placed and not, and remainders of one and two units at a close.

The runs that check liveness are smaller, because their graphs are searched for
cycles. `treasury` has two investors whose volumes may drop to zero, so that they are
removed during a round and the other slot moves. Each account and each entry has a
rent of one; two participants need four lamports, all there are, of which two at a time
may be sent ahead to the accounts' addresses: too little for a round with two
entries, too much for a record. It settles one round, because lamports sent ahead
multiply with the number of rounds: a behaviour that violates `PausedRoundEnds` is
stuck in a round it could settle, and needs no settlement before. `settings` crosses
two prices with two sizes at scale 10: price 5 and size 1 are not viable, and price 5 and
size 5 leave a remainder worth nothing after a sale of 4. It also has the rounds that
cannot be settled: at price 11 three investors with deposits of 2 and a cap of 5 leave a gap
of two units; a lock of one unit buys nothing; and a lock period of `I64_MAX`
overflows as soon as the clock has ticked. A filling sale starts the next round, which
the admin has to end as well. There is one lock period, so that a round keeps its own is
left to the theorem `SnapshotCorrect`.
`ledger` takes one settled round with the sales of the
round after it, all changes of the pool, and a lock of one tick; that dust
carried over is spent by the next settlement is in `core`. `clients` has one investor:
whether a sale can be executed depends on the pool only by its vault and locks,
and the races are between sales and the admin. Price 3 and size 3 give a
cap that rounds and a second sale that fills the round; two sellers, of 2 and 3 units,
are enough for one to fill the round that the other one has named; `MaxRounds = 2`
gives the late close a second round to hit. `authority` has four wallets: an admin, the one it
offers the role to, the one of a replaced offer, and the upgrade authority. `hooks` has
one hook that is switched on and off and two values per field of its configuration, the
least that can be torn.

### What the passing runs show

* The running totals and the slots agree (`LobbyAccounting`, `LocksMatchRound`), and
  a round that ends in any of its three ways leaves nothing locked, sold or paid.
* The vault covers what the investors own, up to fewer than one unit per slot and
  settled round (`Solvent`). The exact statement, without these units, is false:
  see `gap_close` below.
* Locks are the pro-rata shares of the cap for the *current* volumes, however the
  pool was changed during the round (`ProRata`, `LocksFixed`): the guard of
  `update_aat_volume` is needed, and is enough, for deposits to refresh the volume.
* The roundings fit: the locks never buy more than the round, so the settlement's
  subtraction cannot fail (`SettlementFits`); a round never gets stuck with a
  remainder nobody can be paid for (`RoundCanFill`).
* Every wALN in the vault has one owner (`WalnConserved`); claims are counted right,
  are paid once, in full, after the lock (`ClaimsCounted`, `AllocationsFinal`); and
  what a record says was bought has been paid or can be claimed (`PurchasesBacked`).
* The joint condition on price and size survives setters that check one value each
  (`SettingsViable`), so the auto-start's branch for a zero cap is dead code.
* The account of a settled round holds the rent of the size it was created with until
  the last claim closes it (`RentExempt`); the treasury pays what the accounts lack, no
  more, and gets everything back (`LamportsConserved`).
* USDC under a withdraw lock moves only by a settlement or by the teardown of an
  investor without volume, and the lock follows its investor when a removal moves the
  slot (`WithdrawLockHolds`).
* The loops hand out exactly what is there: a forced close charges the sellers' USDC to
  the unit, allocates all wALN and overdraws no lock (`CloseBalances`). The condition
  `usdc_spent < locked` of `close_round_usdc_spent` never decides: a slot whose
  rounded-down share is its whole lock exists only when there is no remainder.
* Among the investors whose share of the cap is not zero when everybody eligible takes
  part (`NonZero`), the eligibility loop selects the greatest group that can pay
  its shares (`SelectionIsGreatest`). The others are dropped in the first turn for
  good: an investor with a zero share there may be left out although its share would be
  positive, and payable, once others have dropped out.
* Rounds end if `close_round` does not refuse them. With sells paused the admin ends a
  round without sales, and a round with sales when the treasury covers the rent
  and the round is `Settleable` (`PausedRoundEnds`); this is also the way to a volume
  update in spite of the auto-start. Rounds with sales that are not `Settleable` exist,
  see the next section. Further, lamports sent ahead do not block a settlement, they count towards it; and
  settled rounds are paid out to the last entry (`AccountsDrain`).
* The program is a ledger (`ImplementsLedger`): no instruction moves USDC or wALN in any other way than
  the six ledger steps.
* Stale and reordered transactions are harmless: a forced close settles the round its
  sender saw or nothing (`CloseSettlesSeenRound`), and holders who read again after a
  refusal complete every round whose rest the vault can pay (`ClientsFill`; the
  premise on the vault is needed when a rounding gap was not placed, and two more
  exclude an empty treasury and a lock period that overflows).
* Lists of hook accounts that are stale or torn are refused, and the SDK's order is
  the one that the program expects (`TransferUsesCurrentConfig`, `ClientGetsThrough`).

### Where the code and the repository's statements differ

* `gap_close`: a comment in `sell_waln.rs` says that locks sum to the full cap. The gap
  that rounding leaves is given to one participant who can pay all of it, or to nobody;
  then the locks fall short by fewer units than there are participants, and the
  sellers are still paid up to the cap. In such a round a partial sale can be paid
  more than is locked. `close_round` then fails its `require!`, so "force-settles the
  current, partially-filled round" does not hold; a sale that fills the round still
  ends it. The amounts are single token units.
* `lock_overflow`: the lock period has no upper bound. With one near `i64::MAX` the
  unlock time overflows in both settlements, so a round that has a sale can be neither
  filled nor closed nor cancelled; the round keeps the period it was started with, so
  a later `set_lock_period` does not help. Only the admin can set such a period. The
  property that fails is `ForceSettles`, which is `PausedRoundEnds` with the treasury as
  its only premise.

Four more differences were met in the source and have no run of their own:

* `close_round` also refuses a round whose locks together buy no wALN, which happens
  when the price is above the scale and every lock is smaller than the price of one
  unit. `settings` reaches such rounds; a sale that fills them still ends them.
* Sales round down one by one and the settlement charges whole locks, so a round
  filled by several sales leaves USDC in the vault that belongs to no position. The
  vault test (`tests/floor-program.ts:2291`) asserts the opposite sign (positions at
  least the vault's balance, by at most 5), which is true of its own sales only.
* The error `ContractFrozen` says that all operations are halted; the admin's
  instructions (removal with a refund, cancel, close, volume updates, treasury) are
  not, and neither does `FloorProgram` guard them.
* The SDK (`sdk/floor-sdk.ts:314`) documents the accounts of a filling sale as the
  record and one account per investor; the program wants the record and the one
  `RoundLockedWaln` of the round (`AccountsMatch`). A filling sale built after the
  comment is refused. The script `integration/8_sell_waln.ts` passes the right
  accounts, but names the amount `walnAmount`, where the SDK reads `maxWalnAmount`.

## 4. Proofs

Every safety property that a passing run checks, and the refinement of the ledger, is
also a theorem; liveness is left to TLC.

| Theorem | Module | Statement |
|---|---|---|
| `TypeCorrect` | `FloorProofs` | `Spec => []TypeOK` |
| `LobbyCorrect` | `FloorProofs` | `Spec => []LobbyAccounting` |
| `LocksCorrect` | `FloorProofs` | `Spec => []LocksMatchRound` |
| `SettingsCorrect` | `PoolProofs` | `Spec => []SettingsViable` |
| `SnapshotCorrect` | `PoolProofs` | `Spec => SnapshotFixed` |
| `CanFillCorrect` | `PoolProofs` | `Spec => []RoundCanFill` |
| `NftsCorrect` | `PoolProofs` | `Spec => []PoolMatchesNfts` |
| `ProRataCorrect` | `PoolProofs` | `Spec => []ProRata` |
| `SettlementCorrect` | `PoolProofs` | `Spec => []SettlementFits` |
| `SolventCorrect` | `PoolProofs` | `Spec => []Solvent` |
| `LocksFixedCorrect` | `PoolProofs` | `Spec => LocksFixed` |
| `WithdrawLockCorrect` | `PoolProofs` | `Spec => WithdrawLockHolds` |
| `ClaimsCorrect` | `ClaimProofs` | `Spec => []ClaimsCounted` |
| `AllocationsCorrect` | `ClaimProofs` | `Spec => AllocationsFinal` |
| `WalnCorrect` | `ClaimProofs` | `Spec => []WalnConserved` |
| `RentCorrect` | `ClaimProofs` | `Spec => []RentExempt` |
| `LamportsCorrect` | `ClaimProofs` | `Spec => LamportsConserved` |
| `BackedCorrect` | `ClaimProofs` | `Spec => []PurchasesBacked` |
| `LedgerCorrect` | `RefinementProofs` | `Spec => ImplementsLedger` |
| `OfferCorrect` | `AuthorityProofs` | `Spec => []OfferIsCurrent` |
| `HandOverCorrect` | `AuthorityProofs` | `Spec => HandOverByOffer` |
| `SeenRoundCorrect` | `RefinementProofs` | `ClientSpec => CloseSettlesSeenRound` |
| `TransferCorrect` | `HookProofs` | `Spec => TransferUsesCurrentConfig` |
| `SelectionCorrect` | `LoopProofs` | `LoopSpec => []SelectionIsGreatest` |
| `BalancesCorrect` | `LoopProofs` | `LoopSpec => []CloseBalances` |
| `LoopsCorrect` | `LoopProofs` | `LoopSpec => []LoopsMatchRoundMath` |

The theorems about the program and its clients hold for pools, supplies, prices, argument
sets and numbers of transactions of any size, under `RoundMathAssumption` and
`FloorProgramAssumption`: constants are naturals, the pool has a slot, the scale is
positive, supplies and arguments fit u64. The other components have assumptions of
their own:

* `AuthorityProofs`: any set of wallets, `AuthorityAssumption` (nobody can sign for
  `Pubkey::default()`);
* `HookProofs`: any hook programs and configurations, `HookAssumption` (no hook
  program is the absence of one);
* `LoopProofs`: any pool, price and size, `RoundMathAssumption` and `LoopAssumption`
  (deposits, volumes, sizes, prices, dust and times are naturals).

TLC evaluates the assumptions in the runs.

The invariants of the program are proved one after the other, each step with the help of the ones
before it:

    TypeOK -> Books -> RoundCanFill -> SlotsMatch -> ProRata -> Solvent
                    -> PaidFits ---------------------^
              SlotsMatch -> ClaimsCounted -> WalnConserved, PurchasesBacked
              all of them -> LedgerCorrect

**Sums.** `Sum` is a recursive function. `RoundProofs` first proves, from the least
counterexample, that the defining equation has exactly one solution on the naturals
(`PrefixExists`, `PrefixUnique`), which makes the CHOOSE behind the function usable
(`PrefixSumDef`), and from it the algebra: pointwise equality and addition, scaling, the
update of one term, monotonicity, clearing one term, swap-remove, and that a sum taken
owner by owner is the sum (`SumByOwner`).

**Types.** `TypeOK` is inductive as it stands, because every `checked_` operation of
the source is a guard. `RoundProofs` supplies what is not a guard: the locks of
`execute_round_start` never exceed a slot's deposit (`NewLocksBound`), gap included.

**Books.** `LobbyAccounting` alone is not inductive: a settlement subtracts the sum
of the locks from the total, so the locks must be known to be part of the positions;
the start of a round *overwrites* locks, so they must be zero before, which is
`LocksMatchRound`; and a deposit by a new investor writes the slot after the last one,
which must hold nothing. The inductive invariant is `Books`, the conjunction of
`LobbyAccounting`, `LocksMatchRound` and `EmptySlots` (slots beyond `count` own
nothing). `BooksNext` has one lemma per action that touches the pool;
the other actions leave the variables of `Books` unchanged (`BooksSame`).

**Rounds.** `SettingsViable` is inductive with the types. `RoundCanFill` needs `Books`:
a round that starts has sold nothing. `PoolMatchesNfts` is not inductive: a mint writes the volume of a key,
and the total stays right only if that key had none before. `SlotsMatch` adds that keys
without an NFT have volume zero. A removal moves the last slot into the
hole, and `SumSwapRemove` says that sums over the slots lose one term only.

**Shares.** That the locks are pro-rata shares rests on what the eligibility loop
leaves: `ParticipantsFixed` proves, from the least turn at which nobody drops out,
that its result is a fixed point, i.e. every participant can pay its share of *this*
group. From it `NewLocksShare` bounds the locks: they are the rounded shares, with the whole gap
at one participant or at nobody, and the gap is less than one unit per
participant (`RestBound`, `ShareSums`). That later instructions preserve this for
the *current* volumes is `ProRataNext`: deposits refresh a volume only with the value it has
(`SlotsMatch`), and a removal moves a slot with its lock.

**Solvency.** `SettlementFits` has two halves. That the locks buy at most the round's
size follows from `ProRata` and superadditivity of division (`LocksBuy`); that the
sellers were paid at most what they sold is worth is `PaidFits`, inductive by
`UsdcForAdd`. `Solvent` is then inductive: a filled round charges its locks and has paid at most the
cap, which by `ProRata` is more by less than one unit per participant; the other instructions move as much in the
vault as in the books.

**Claims.** Two instructions settle a round and one pays. `Settled` and `ClaimEffect` state
once what they do to the rounds' accounts. The settled account was empty before
because an account that exists belongs to an earlier round, which is why this is a conjunct of
`ClaimsCounted`; that an investor has one entry comes from distinct investors
in the slots (`SlotsMatch`). The rent of an account is counted over the entries it stores,
claimed ones included, because a claim does not shrink the account: `RentExempt` needs that the
treasury's top-up reaches the rent from whatever was there (`MissingFills`) and that no claim but the
last one touches lamports. A settlement and a claim change one round's term
of the sums over the rounds, so `WalnConserved` and `LamportsConserved` follow by
`SumUpdate` from the equations inside one round. `PurchasesBacked` follows from `OwedGrows`: what a key has
been paid or can claim grows by what the settlement adds to its
`waln_purchased_total`, and never shrinks; a removed slot only forgets. The settlement
finds the record for the dust by key: that this is the slot whose allocation got the dust needs
distinct investors again (`CreditsMatch`).

**Refinement.** `LedgerInit` and one lemma per ledger step. The abstract ledger has one
balance per key and the program one per slot; `SumByOwner` makes the totals equal
(`LedgerTotals`). A cancelled round is a stutter because it has sold nothing, and then by
`PaidFits` nobody was paid; a filled round charges something because by `ProRata` a participant's share
is positive; a forced close charges exactly `due`, because the
running total drops by it and the slots agree with the total before and after (`Books`). `ImplementsLedger` is the safety part: the ledger has no fairness.

**Authority.** `OfferIsCurrent` is not inductive: the step of an acceptance must
find that the pending admin is a wallet, and a first `initialize` that no offer is
pending. `AuthorityInv` adds the types and that before `initialize` no offer is pending, and
after it the admin is a wallet.
`HandOverByOffer` follows from it step by step.

**Clients.** Every step of `FloorClients` that touches the accounts is the action of
`FloorProgram` behind one more guard, so the program's invariants can be used with clients
(the lemma `ClientsRunProgram`, which holds by the way the module is built). `CloseSettlesSeenRound` needs to know which accounts a late
transaction names: `OrdersNameRounds` says that a forced close whose round is still
running names the accounts of `round_count`, and one whose round is over names the
accounts of an earlier round. It is inductive because a round with sales ends by a settlement
only, which counts it (`RoundEffect`, from `Books` and `RoundCanFill`): a round that
could be cancelled after a sale would free its number for the next one.

**Hooks.** `HookTypeOK` types the list of accounts at every stage of the client's reads.
`validate_hook_accounts` compares every position of the list with what the program derives
itself, so a list that passes is determined by the configuration in force
(`ValidList`), however it was put together.

**Loops.** The three theorems rest on one invariant per loop, about the slots that
the loop has passed: they are as `RoundMath` says, the slots ahead are untouched, and the
running totals are counts and sums over the slots passed. `Starting` is the invariant of the
selection, of the locks and of the gap, `Opened` the state they leave for the
settlement, `Closing` that of the forced close and `Filling` that of the filled round.

* Selection. `Turning` says that as many turns as were taken lead from the whole group to the
  present one, which is how `RoundMath` defines the participants; a turn that drops nobody
  has reached the fixed point (`TurnsFixed`). That the fixed point is the greatest
  group within `NonZero` is `Selection`: no such group that can pay is ever lost, because the shares
  only grow when the group shrinks (`ShareGrows`), so a member of such a group can pay its
  smaller share in the larger one, and a share that was positive in the first turn stays positive. The
  first turn drops everybody else.
* Forced close. The remainder of the rounded charges goes out one unit per slot that can still pay
  one, so the loop needs that there are enough of them (`SpentFits`): this is
  `CanClose`, and with it `remaining_usdc_remainder` and `remaining_waln` end at zero.
  It needs that the sellers were paid at most the locks, which `close_round` requires before the
  loop (the run `gap_close` shows a round that fails there).
* Filled round. The credits, then the dust for the participant that the time draws, in
  the slot that is found by its key (`DustPlaced`).

**Model-checked only:** liveness (`PausedRoundEnds`, `AccountsDrain`, `ClientsFill`,
`ClientGetsThrough`), because fairness and ENABLED are out of the prover's reach.

## 5. Not modelled

* The info command, the parsing of the command line and of key files, the decoding
  of accounts in the SDK, and `initializeIx` and other builders that pass their arguments on:
  reads and plumbing without a decision.
* `set_usdc_withdraw_lock` and `set_investor_usdc_unlock` as commands of the CLI (as instructions they are in
  `FloorProgram`): they do not touch what the transactions in flight depend on.
* The token programs and the hook program itself, beyond the balances and the accounts they are
  given.
* The price a late sale gets: a sale names no price and is executed at the price of the
  round it lands in. The repository promises no other.

## 6. Plan

The plan is done but for what the tools leave open: the liveness properties are
checked on small instances only, and the two disagreements of section 3 stand as long as the code
does.
