---------------------------- MODULE FloorProgram ----------------------------
(***************************************************************************)
(* The floor program: investors deposit USDC in a pool, holders sell wALN  *)
(* to the pool at a floor price, and the wALN bought in a round is paid    *)
(* out to the investors when its lock expires.                             *)
(*                                                                         *)
(* One action per instruction.  The runtime executes an instruction        *)
(* atomically and serialises instructions that write the same account, so  *)
(* an action is a whole handler; a handler that returns an error is        *)
(* reverted and is no step.  What is concurrent is the order in which      *)
(* investors, sellers, the admin and the clock take their steps.           *)
(*                                                                         *)
(* The accounts are the variables.  Wallets outside the program hold the   *)
(* rest of a fixed supply of each token, so only the vaults are variables. *)
(* Keys of investors are numbers (a Pubkey is 32 bytes, compared as a      *)
(* number); 0 is Pubkey::default().                                        *)
(***************************************************************************)
EXTENDS RoundMath

CONSTANTS
  NUM_KEYS,              \* investors' wallets are the keys 1 .. NUM_KEYS
  U64_MAX, I64_MAX,      \* largest u64 (also "withdraw all") and largest i64
  MAX_TOTAL_AAT_VOLUME,  \* 1_000_000 in the source
  USDC_SUPPLY, WALN_SUPPLY, SOL_SUPPLY,  \* tokens and lamports in existence
  RENT_RECORD,           \* rent of a RoundRecord account
  RENT_LOCKED,           \* rent of a RoundLockedWaln account without entries
  RENT_ENTRY,            \* rent of one InvestorAlloc entry
  MaxRounds, MaxTime     \* bounds on the rounds settled and on the clock

\* The arguments that callers pass.
CONSTANTS Prices, Sizes, LockPeriods, WithdrawLocks, UnlockTimes,
          AatVolumes, UsdcAmounts, WalnAmounts, LamportAmounts, Switches

U64 == 0 .. U64_MAX

ASSUME FloorProgramAssumption ==
  /\ NUM_KEYS \in Nat
  /\ {U64_MAX, I64_MAX, MAX_TOTAL_AAT_VOLUME} \subseteq Nat
  /\ {USDC_SUPPLY, WALN_SUPPLY, SOL_SUPPLY} \subseteq U64
  /\ {RENT_RECORD, RENT_LOCKED, RENT_ENTRY} \subseteq Nat
  /\ {MaxRounds, MaxTime} \subseteq Nat
  /\ MaxTime =< I64_MAX
  /\ MAX_TOTAL_AAT_VOLUME =< U64_MAX
  /\ MAX_INVESTORS =< U64_MAX
  /\ Prices \subseteq U64 /\ Sizes \subseteq U64 /\ AatVolumes \subseteq U64
  /\ UsdcAmounts \subseteq U64 /\ WalnAmounts \subseteq U64
  /\ LamportAmounts \subseteq U64
  /\ LockPeriods \subseteq Int /\ WithdrawLocks \subseteq Int
  /\ UnlockTimes \subseteq Int /\ Switches \subseteq BOOLEAN

Keys   == 1 .. NUM_KEYS
NoKey  == 0
Rounds == 0 .. (MaxRounds - 1)

VARIABLES
  config,              \* ProgramState: what the admin sets
  round,               \* ProgramState: the current round
  round_count,         \* ProgramState: rounds settled, and the index of the current one
  total_usdc_in_lobby, \* ProgramState: USDC the pool's investors own
  total_aat_volume,    \* ProgramState: volume of all NFTs
  waln_dust_carryover, \* ProgramState: wALN bought and not allocated yet
  count,               \* InvestorPool: slots in use
  investors,           \* InvestorPool: the slots
  minted,              \* keys that hold an AAT NFT
  aat_volume,          \* the volume in each key's NFT metadata
  round_locked_waln,   \* the RoundLockedWaln account of each round
  round_record,        \* the RoundRecord account of each round
  usdc_vault,          \* token balance of the USDC vault
  waln_vault,          \* token balance of the wALN vault
  treasury,            \* lamports of the treasury
  now,                 \* Clock::unix_timestamp
  paid_waln            \* history: wALN paid out to each key by claim_waln

poolVars   == <<count, investors>>
nftVars    == <<minted, aat_volume, total_aat_volume>>
claimVars  == <<round_locked_waln, waln_vault, paid_waln>>
vars == <<config, round, round_count, total_usdc_in_lobby, waln_dust_carryover,
          poolVars, nftVars, claimVars, round_record, usdc_vault, treasury, now>>

-----------------------------------------------------------------------------
\* Accounts

ConfigType ==
  [floor_price_usdc: U64, round_size_waln: U64, lock_period_seconds: Int,
   usdc_withdraw_lock_seconds: Int, sell_paused: BOOLEAN, frozen: BOOLEAN]

RoundType ==
  [started: BOOLEAN, waln: U64, usdc_spent: U64, floor_price: U64,
   size_waln: U64, lock_period: Int, usdc_locked: U64]

InvestorRecord ==
  [investor: Keys \cup {NoKey}, usdc_deposited: U64,
   usdc_locked_current_round: U64, usdc_committed: U64,
   waln_purchased_total: U64, aat_volume: U64, usdc_unlock_ts: Int]

NewRecord(k) ==
  [investor |-> k, usdc_deposited |-> 0, usdc_locked_current_round |-> 0,
   usdc_committed |-> 0, waln_purchased_total |-> 0, aat_volume |-> 0,
   usdc_unlock_ts |-> 0]

\* The entry of slot i is what the investor in that slot was allocated; entries
\* with nothing to claim are not stored, here they are zero.  The source sorts
\* the entries by key to search them; the order carries no other meaning.
InvestorAlloc == [investor: Keys \cup {NoKey}, waln_amount: U64]
NoEntries == [i \in Slots |-> [investor |-> NoKey, waln_amount |-> 0]]

RoundLockedWalnType ==
  [exists: BOOLEAN, unlock: Int, remaining_to_claim: Nat,
   entries: [Slots -> InvestorAlloc], lamports: Nat]

RoundRecordType ==
  [exists: BOOLEAN, waln_purchased: U64, usdc_spent: U64,
   participants: Nat, lamports: Nat]

NoLockedWaln ==
  [exists |-> FALSE, unlock |-> 0, remaining_to_claim |-> 0,
   entries |-> NoEntries, lamports |-> 0]

NoRecord ==
  [exists |-> FALSE, waln_purchased |-> 0, usdc_spent |-> 0,
   participants |-> 0, lamports |-> 0]

\* checked_add and try_from on the fields of a record: an instruction that would
\* take one out of u64 fails.
FitsU64(inv) ==
  \A i \in Slots : /\ inv[i].usdc_deposited \in U64
                   /\ inv[i].usdc_locked_current_round \in U64
                   /\ inv[i].usdc_committed \in U64
                   /\ inv[i].waln_purchased_total \in U64

\* Slot i is where iter().find() finds key k in the pool.
IsSlotOf(i, k) ==
  /\ i =< count
  /\ investors[i].investor = k
  /\ \A j \in Slots : j < i => investors[j].investor # k

\* Mutant of InPool: the last slot in use is not searched.
InPoolSkipsLast(k) == \E i \in Slots : i < count /\ investors[i].investor = k

InPool(k) == \E i \in Slots : i =< count /\ investors[i].investor = k

-----------------------------------------------------------------------------
\* initialize
Init ==
  /\ \E price \in Prices, size \in Sizes, lock \in LockPeriods :
       /\ price > 0 /\ size > 0 /\ lock >= 0
       /\ require_viable_round_params(size, price)
       /\ config = [floor_price_usdc |-> price, round_size_waln |-> size,
                    lock_period_seconds |-> lock, usdc_withdraw_lock_seconds |-> 0,
                    sell_paused |-> FALSE, frozen |-> FALSE]
       /\ round = [started |-> FALSE, waln |-> 0, usdc_spent |-> 0,
                   floor_price |-> price, size_waln |-> size,
                   lock_period |-> lock, usdc_locked |-> 0]
  /\ round_count = 0
  /\ total_usdc_in_lobby = 0 /\ total_aat_volume = 0 /\ waln_dust_carryover = 0
  /\ count = 0 /\ investors = [i \in Slots |-> NewRecord(NoKey)]
  /\ minted = {} /\ aat_volume = [k \in Keys |-> 0]
  /\ round_locked_waln = [r \in Rounds |-> NoLockedWaln]
  /\ round_record = [r \in Rounds |-> NoRecord]
  /\ usdc_vault = 0 /\ waln_vault = 0 /\ treasury = 0
  /\ now = 0
  /\ paid_waln = [k \in Keys |-> 0]

-----------------------------------------------------------------------------
\* Admin settings.  The signer is the admin; who that is is left open.

SetConfig(c) ==
  /\ config' = c
  /\ UNCHANGED <<round, round_count, total_usdc_in_lobby, waln_dust_carryover,
                 poolVars, nftVars, claimVars, round_record, usdc_vault,
                 treasury, now>>

\* Mutant of set_floor_price: the round in progress is repriced too.
set_floor_price_repricing(price) ==
  /\ price > 0
  /\ require_viable_round_params(config.round_size_waln, price)
  /\ config' = [config EXCEPT !.floor_price_usdc = price]
  /\ round' = [round EXCEPT !.floor_price = price]
  /\ UNCHANGED <<round_count, total_usdc_in_lobby, waln_dust_carryover, poolVars,
                 nftVars, claimVars, round_record, usdc_vault, treasury, now>>

set_floor_price(price) ==
  /\ price > 0
  /\ require_viable_round_params(config.round_size_waln, price)
  /\ SetConfig([config EXCEPT !.floor_price_usdc = price])

\* Mutant of set_round_size: viability is not checked.
set_round_size_unchecked(size) ==
  /\ size > 0
  /\ SetConfig([config EXCEPT !.round_size_waln = size])

set_round_size(size) ==
  /\ size > 0
  /\ require_viable_round_params(size, config.floor_price_usdc)
  /\ SetConfig([config EXCEPT !.round_size_waln = size])

set_lock_period(lock) ==
  /\ lock >= 0
  /\ SetConfig([config EXCEPT !.lock_period_seconds = lock])

set_usdc_withdraw_lock(lock) ==
  /\ lock >= 0
  /\ SetConfig([config EXCEPT !.usdc_withdraw_lock_seconds = lock])

set_sell_paused(paused) == SetConfig([config EXCEPT !.sell_paused = paused])

set_frozen(frozen) == SetConfig([config EXCEPT !.frozen = frozen])

set_investor_usdc_unlock(k, ts) ==
  /\ \E i \in Slots :
       /\ IsSlotOf(i, k)
       /\ investors' = [investors EXCEPT ![i].usdc_unlock_ts = ts]
  /\ UNCHANGED <<config, round, round_count, total_usdc_in_lobby,
                 waln_dust_carryover, count, nftVars, claimVars, round_record,
                 usdc_vault, treasury, now>>

-----------------------------------------------------------------------------
\* AAT NFTs

mint_aat_nft(k, volume) ==
  /\ volume > 0
  /\ ~ config.frozen
  /\ total_aat_volume + volume =< MAX_TOTAL_AAT_VOLUME
  /\ k \notin minted            \* the mint account of k can be allocated only once
  /\ minted' = minted \cup {k}
  /\ aat_volume' = [aat_volume EXCEPT ![k] = volume]
  /\ total_aat_volume' = total_aat_volume + volume
  /\ UNCHANGED <<config, round, round_count, total_usdc_in_lobby,
                 waln_dust_carryover, poolVars, claimVars, round_record,
                 usdc_vault, treasury, now>>

\* Mutant of update_aat_volume: allowed during a round.
update_aat_volume_anytime(k, volume) ==
  /\ k \in minted
  /\ total_aat_volume - aat_volume[k] + volume =< MAX_TOTAL_AAT_VOLUME
  /\ total_aat_volume' = total_aat_volume - aat_volume[k] + volume
  /\ aat_volume' = [aat_volume EXCEPT ![k] = volume]
  /\ investors' = [i \in Slots |-> IF IsSlotOf(i, k)
                                   THEN [investors[i] EXCEPT !.aat_volume = volume]
                                   ELSE investors[i]]
  /\ UNCHANGED <<config, round, round_count, total_usdc_in_lobby,
                 waln_dust_carryover, count, minted, claimVars, round_record,
                 usdc_vault, treasury, now>>

update_aat_volume(k, volume) ==
  /\ ~ round.started
  /\ k \in minted
  /\ LET new_total == total_aat_volume - aat_volume[k] + volume
     IN  /\ aat_volume[k] =< total_aat_volume
         /\ new_total =< MAX_TOTAL_AAT_VOLUME
         /\ total_aat_volume' = new_total
  /\ aat_volume' = [aat_volume EXCEPT ![k] = volume]
  /\ investors' = [i \in Slots |-> IF IsSlotOf(i, k)
                                   THEN [investors[i] EXCEPT !.aat_volume = volume]
                                   ELSE investors[i]]
  /\ UNCHANGED <<config, round, round_count, total_usdc_in_lobby,
                 waln_dust_carryover, count, minted, claimVars, round_record,
                 usdc_vault, treasury, now>>

-----------------------------------------------------------------------------
\* Deposits and withdrawals

\* Mutant of Deposited: the record starts afresh.
DepositedAfresh(rec, k, amount) ==
  [NewRecord(k) EXCEPT !.aat_volume = aat_volume[k],
                       !.usdc_deposited = rec.usdc_deposited + amount]

\* The record after a deposit; a deposit refreshes the volume from the NFT and,
\* when a withdraw lock is configured, can only postpone the unlock.
Deposited(rec, k, amount) ==
  [rec EXCEPT
     !.aat_volume = aat_volume[k],
     !.usdc_deposited = @ + amount,
     !.usdc_unlock_ts = IF config.usdc_withdraw_lock_seconds > 0
                        THEN Greatest(@, now + config.usdc_withdraw_lock_seconds)
                        ELSE @]

deposit_usdc(k, amount) ==
  /\ ~ config.frozen
  /\ amount > 0
  /\ k \in minted /\ aat_volume[k] > 0
  /\ count < MAX_INVESTORS \/ InPool(k)
  /\ usdc_vault + amount =< USDC_SUPPLY
  /\ now + config.usdc_withdraw_lock_seconds =< I64_MAX
  /\ total_usdc_in_lobby + amount =< U64_MAX
  /\ \/ \E i \in Slots :
          /\ IsSlotOf(i, k)
          /\ investors' = [investors EXCEPT ![i] = Deposited(investors[i], k, amount)]
          /\ UNCHANGED count
     \/ /\ ~ InPool(k)
        /\ investors' = [investors EXCEPT ![count + 1] =
                            Deposited(NewRecord(k), k, amount)]
        /\ count' = count + 1
  /\ FitsU64(investors')
  /\ total_usdc_in_lobby' = total_usdc_in_lobby + amount
  /\ usdc_vault' = usdc_vault + amount
  /\ UNCHANGED <<config, round, round_count, waln_dust_carryover, nftVars,
                 claimVars, round_record, treasury, now>>

withdraw_usdc(k, amount) ==
  /\ ~ config.frozen
  /\ \E i \in Slots :
       LET available == investors[i].usdc_deposited
           withdraw_amount == IF amount = U64_MAX THEN available ELSE amount
       IN  /\ IsSlotOf(i, k)
           /\ now >= investors[i].usdc_unlock_ts
           /\ withdraw_amount > 0
           /\ withdraw_amount =< available
           /\ withdraw_amount =< usdc_vault
           /\ withdraw_amount =< total_usdc_in_lobby
           /\ investors' = [investors EXCEPT
                              ![i].usdc_deposited = available - withdraw_amount]
           /\ usdc_vault' = usdc_vault - withdraw_amount
           /\ total_usdc_in_lobby' = total_usdc_in_lobby - withdraw_amount
  /\ UNCHANGED <<config, round, round_count, waln_dust_carryover, count, nftVars,
                 claimVars, round_record, treasury, now>>

\* Mutant of remove_investor_from_pool: the moved investor loses its unlock time.
remove_investor_from_pool_unlocks(k) ==
  /\ \E i \in Slots :
       LET refund == investors[i].usdc_deposited
       IN  /\ IsSlotOf(i, k)
           /\ investors[i].aat_volume = 0
           /\ investors[i].usdc_locked_current_round = 0
           /\ refund =< usdc_vault /\ refund =< total_usdc_in_lobby
           /\ usdc_vault' = usdc_vault - refund
           /\ total_usdc_in_lobby' = total_usdc_in_lobby - refund
           /\ investors' = [investors EXCEPT
                              ![i] = [investors[count] EXCEPT !.usdc_unlock_ts = 0],
                              ![count] = NewRecord(NoKey)]
  /\ count' = count - 1
  /\ UNCHANGED <<config, round, round_count, waln_dust_carryover, nftVars,
                 claimVars, round_record, treasury, now>>

\* The slot is refunded and emptied: the last slot moves into it.
remove_investor_from_pool(k) ==
  /\ \E i \in Slots :
       LET refund == investors[i].usdc_deposited
       IN  /\ IsSlotOf(i, k)
           /\ investors[i].aat_volume = 0
           /\ investors[i].usdc_locked_current_round = 0
           /\ refund =< usdc_vault /\ refund =< total_usdc_in_lobby
           /\ usdc_vault' = usdc_vault - refund
           /\ total_usdc_in_lobby' = total_usdc_in_lobby - refund
           /\ investors' = [investors EXCEPT ![i] = investors[count],
                                             ![count] = NewRecord(NoKey)]
  /\ count' = count - 1
  /\ UNCHANGED <<config, round, round_count, waln_dust_carryover, nftVars,
                 claimVars, round_record, treasury, now>>

-----------------------------------------------------------------------------
\* Treasury (lamports).  The program's accounts are paid for by the treasury and
\* their lamports return to it.

fund_treasury(amount) ==
  /\ amount > 0
  /\ treasury + amount =< SOL_SUPPLY
  /\ treasury' = treasury + amount
  /\ UNCHANGED <<config, round, round_count, total_usdc_in_lobby,
                 waln_dust_carryover, poolVars, nftVars, claimVars, round_record,
                 usdc_vault, now>>

withdraw_treasury(amount) ==
  /\ amount > 0
  /\ treasury >= amount
  /\ treasury' = treasury - amount
  /\ UNCHANGED <<config, round, round_count, total_usdc_in_lobby,
                 waln_dust_carryover, poolVars, nftVars, claimVars, round_record,
                 usdc_vault, now>>

\* Anyone may send lamports to the address of a round's account before the
\* program creates it: the case the create-or-top-up code is for.
PrefundLocked(r, amount) ==
  /\ ~ round_locked_waln[r].exists
  /\ round_locked_waln[r].lamports + amount =< SOL_SUPPLY
  /\ round_locked_waln' = [round_locked_waln EXCEPT ![r].lamports = @ + amount]
  /\ UNCHANGED <<config, round, round_count, total_usdc_in_lobby,
                 waln_dust_carryover, poolVars, nftVars, waln_vault, paid_waln,
                 round_record, usdc_vault, treasury, now>>

PrefundRecord(r, amount) ==
  /\ ~ round_record[r].exists
  /\ round_record[r].lamports + amount =< SOL_SUPPLY
  /\ round_record' = [round_record EXCEPT ![r].lamports = @ + amount]
  /\ UNCHANGED <<config, round, round_count, total_usdc_in_lobby,
                 waln_dust_carryover, poolVars, nftVars, claimVars,
                 usdc_vault, treasury, now>>

\* Mutants of Missing: lamports that are already there are ignored; an account
\* that has some is not topped up.
MissingAll(rent, lamports) == rent

MissingUnlessPrefunded(rent, lamports) == IF lamports = 0 THEN rent ELSE 0

\* Mutant of Missing: the subtraction wraps when there are more lamports than rent.
MissingWraps(rent, lamports) ==
  IF lamports > rent THEN U64_MAX ELSE rent - lamports

\* What the treasury pays to create an account, or to top it up.
Missing(rent, lamports) == Greatest(0, rent - lamports)

-----------------------------------------------------------------------------
\* Settlement of the current round: the two accounts that it leaves behind.
\* inv is the pool whose locks are settled, allocs the wALN of each slot.

\* Mutant of Claimable: slots with nothing to claim are counted.
ClaimableAll(allocs) == Cardinality({i \in Slots : allocs[i] >= 0})

Claimable(allocs) == Cardinality({i \in Slots : allocs[i] > 0})

\* The rent of the round's RoundLockedWaln account and what the treasury pays of it.
LockedRent(allocs)  == RENT_LOCKED + Claimable(allocs) * RENT_ENTRY
LockedTopUp(allocs) == Missing(LockedRent(allocs), round_locked_waln[round_count].lamports)
RecordTopUp         == Missing(RENT_RECORD, round_record[round_count].lamports)

\* Mutant of SettleLockedWaln: allocations of one unit are dropped.
SettleLockedWalnDropsUnits(inv, allocs, unlock) ==
  [exists |-> TRUE, unlock |-> unlock, remaining_to_claim |-> Claimable(allocs),
   entries |-> [i \in Slots |->
                  IF allocs[i] > 1
                  THEN [investor |-> inv[i].investor, waln_amount |-> allocs[i]]
                  ELSE NoEntries[i]],
   lamports |-> round_locked_waln[round_count].lamports + LockedTopUp(allocs)]

SettleLockedWaln(inv, allocs, unlock) ==
  [exists |-> TRUE, unlock |-> unlock, remaining_to_claim |-> Claimable(allocs),
   entries |-> [i \in Slots |->
                  IF allocs[i] > 0
                  THEN [investor |-> inv[i].investor, waln_amount |-> allocs[i]]
                  ELSE NoEntries[i]],
   lamports |-> round_locked_waln[round_count].lamports + LockedTopUp(allocs)]

SettleRent(allocs) ==
  RecordTopUp + IF Claimable(allocs) = 0 THEN 0 ELSE LockedTopUp(allocs)

SettleAccounts(inv, allocs, usdc_spent, participants, unlock) ==
  /\ round_count < MaxRounds
  /\ unlock =< I64_MAX
  /\ Sum(allocs, MAX_INVESTORS) \in U64
  /\ SettleRent(allocs) =< treasury
  /\ treasury' = treasury - SettleRent(allocs)
  /\ round_locked_waln' =
       IF Claimable(allocs) = 0 THEN round_locked_waln
       ELSE [round_locked_waln EXCEPT ![round_count] =
               SettleLockedWaln(inv, allocs, unlock)]
  /\ round_record' = [round_record EXCEPT ![round_count] =
       [exists |-> TRUE, waln_purchased |-> Sum(allocs, MAX_INVESTORS),
        usdc_spent |-> usdc_spent, participants |-> participants,
        lamports |-> @.lamports + RecordTopUp]]
  /\ round_count' = round_count + 1

-----------------------------------------------------------------------------
\* sell_waln.  A sale runs in the current round, or starts one with the live
\* settings when none is started.

RoundPrice == IF round.started THEN round.floor_price ELSE config.floor_price_usdc
RoundSize  == IF round.started THEN round.size_waln ELSE config.round_size_waln
RoundWaln  == IF round.started THEN round.waln ELSE 0

remaining_in_round == RoundSize - RoundWaln

\* Mutant of waln_amount: a sale is not cut to what is left of the round.
waln_amount_uncut(max) == max

waln_amount(max) == Least(max, remaining_in_round)
usdc_out(max)    == UsdcFor(waln_amount(max), RoundPrice)

\* Mutant of SaleAllowed: a sale may leave a remainder nobody can be paid for.
SaleAllowedUnpayable(max) ==
  /\ ~ config.frozen
  /\ ~ config.sell_paused
  /\ max > 0
  /\ waln_amount(max) > 0
  /\ RoundWaln = 0 => \/ waln_amount(max) >= MIN_SELL_WALN
                      \/ waln_amount(max) = remaining_in_round

SaleAllowed(max) ==
  /\ ~ config.frozen
  /\ ~ config.sell_paused
  /\ max > 0
  /\ waln_amount(max) > 0
  /\ LET post_sale_remaining == remaining_in_round - waln_amount(max)
     IN  post_sale_remaining > 0 => UsdcFor(post_sale_remaining, RoundPrice) > 0
  /\ RoundWaln = 0 => \/ waln_amount(max) >= MIN_SELL_WALN
                      \/ waln_amount(max) = remaining_in_round

\* A round that starts: the settings are copied, the locks are totalled.
StartedRound(inv, size, price, waln) ==
  [started |-> TRUE, waln |-> waln, usdc_spent |-> 0, floor_price |-> price,
   size_waln |-> size, lock_period |-> config.lock_period_seconds,
   usdc_locked |-> Sum(NewLocks(inv, count, size, price), MAX_INVESTORS)]

\* The round and the pool that the sale runs in.
OpenRound ==
  IF round.started THEN round
  ELSE StartedRound(investors, RoundSize, RoundPrice, round.waln)
OpenPool ==
  IF round.started THEN investors
  ELSE execute_round_start(investors, count, RoundSize, RoundPrice)

\* The checks, the start of a round if there is none, and the two transfers.
Sale(max) ==
  /\ SaleAllowed(max)
  /\ round.started \/ RoundCanStart(investors, count, RoundSize, RoundPrice)
  /\ OpenRound.usdc_locked \in U64
  /\ usdc_out(max) > 0
  /\ usdc_out(max) =< usdc_vault
  /\ waln_vault + waln_amount(max) =< WALN_SUPPLY
  /\ OpenRound.usdc_spent + usdc_out(max) =< U64_MAX
  /\ OpenRound.waln + waln_amount(max) =< U64_MAX
  /\ usdc_vault' = usdc_vault - usdc_out(max)
  /\ waln_vault' = waln_vault + waln_amount(max)

\* A sale that leaves room in the round.
sell_waln(max) ==
  /\ Sale(max)
  /\ OpenRound.waln + waln_amount(max) < RoundSize
  /\ round' = [OpenRound EXCEPT !.waln = @ + waln_amount(max),
                                !.usdc_spent = @ + usdc_out(max)]
  /\ investors' = OpenPool
  /\ UNCHANGED <<config, round_count, total_usdc_in_lobby, waln_dust_carryover,
                 count, nftVars, round_locked_waln, paid_waln, round_record,
                 treasury, now>>

\* The next round starts at once with the live settings, if it can.
AutoStart(inv) ==
  LET size  == config.round_size_waln
      price == config.floor_price_usdc
  IN  IF RoundCanStart(inv, count, size, price)
      THEN /\ investors' = execute_round_start(inv, count, size, price)
           /\ round' = StartedRound(inv, size, price, 0)
      ELSE /\ investors' = inv
           /\ round' = [OpenRound EXCEPT !.started = FALSE, !.waln = 0,
                                         !.usdc_spent = 0, !.usdc_locked = 0]

\* A sale that fills the round also settles it.  Every lock is spent whole,
\* whatever the sellers were paid.
FinishRound(inv, allocs, credits, waln_in_round) ==
  LET total_usdc_spent     == Sum(Locks(inv), MAX_INVESTORS)
      total_waln_purchased == Sum(allocs, MAX_INVESTORS)
  IN  /\ SettleAccounts(inv, allocs, total_usdc_spent, participant_count(inv),
                        now + OpenRound.lock_period)
      /\ total_usdc_spent =< total_usdc_in_lobby
      /\ total_usdc_in_lobby' = total_usdc_in_lobby - total_usdc_spent
      /\ waln_in_round + waln_dust_carryover - total_waln_purchased \in U64
      /\ waln_dust_carryover' =
           waln_in_round + waln_dust_carryover - total_waln_purchased
      /\ FitsU64(FilledPool(inv, credits))
      /\ \E pool \in {FilledPool(inv, credits)} : AutoStart(pool)

\* pool is the pool that is settled, allocs what each slot is allocated; the event
\* of an allocation says what it is worth, which must fit u64 too.
sell_waln_filling(max) ==
  /\ Sale(max)
  /\ OpenRound.waln + waln_amount(max) >= RoundSize
  /\ \E pool \in {OpenPool} :
       \E allocs \in {FilledAllocs(pool, RoundPrice, waln_dust_carryover, now)} :
         /\ \A i \in Slots : UsdcFor(allocs[i], RoundPrice) \in U64
         /\ FinishRound(pool, allocs,
                        FilledCredits(pool, RoundPrice, waln_dust_carryover, now),
                        OpenRound.waln + waln_amount(max))
  /\ round'.usdc_locked \in U64
  /\ UNCHANGED <<config, count, nftVars, paid_waln, now>>

-----------------------------------------------------------------------------
\* The admin ends a round: cancel_round before any sale, close_round after one.

cancel_round ==
  /\ round.started
  /\ round.waln = 0
  /\ round' = [round EXCEPT !.started = FALSE, !.waln = 0, !.usdc_spent = 0,
                            !.usdc_locked = 0]
  /\ investors' = [i \in Slots |->
       [investors[i] EXCEPT !.usdc_deposited = @ + investors[i].usdc_locked_current_round,
                            !.usdc_locked_current_round = 0]]
  /\ FitsU64(investors')
  /\ UNCHANGED <<config, round_count, total_usdc_in_lobby, waln_dust_carryover,
                 count, nftVars, claimVars, round_record, usdc_vault, treasury, now>>

close_round ==
  LET paid   == round.usdc_spent
      spent  == close_round_usdc_spent(investors, paid)
      allocs == ClosedAllocs(investors, round.floor_price, round.waln)
  IN  /\ round.started
      /\ round.waln > 0
      /\ Sum(base_waln(investors, round.floor_price), MAX_INVESTORS) > 0
      /\ paid > 0
      /\ paid =< Sum(Locks(investors), MAX_INVESTORS)
      /\ \A i \in Slots : /\ spent[i] =< investors[i].usdc_locked_current_round
                          /\ allocs[i] \in U64
      /\ Sum(spent, MAX_INVESTORS) = paid
      /\ SettleAccounts(investors, allocs, paid, Claimable(allocs),
                        now + round.lock_period)
      /\ investors' = ClosedPool(investors, spent, allocs)
      /\ FitsU64(investors')
      /\ paid =< total_usdc_in_lobby
      /\ total_usdc_in_lobby' = total_usdc_in_lobby - paid
      /\ Sum(allocs, MAX_INVESTORS) =< round.waln
      /\ waln_dust_carryover' =
           waln_dust_carryover + (round.waln - Sum(allocs, MAX_INVESTORS))
      /\ waln_dust_carryover' =< U64_MAX
      /\ round' = [round EXCEPT !.started = FALSE, !.waln = 0, !.usdc_spent = 0,
                                !.usdc_locked = 0]
      /\ UNCHANGED <<config, count, nftVars, waln_vault, paid_waln, usdc_vault, now>>

\* The admin deletes the record of a settled round.
close_round_record(r) ==
  /\ round_record[r].exists
  /\ treasury + round_record[r].lamports =< U64_MAX
  /\ treasury' = treasury + round_record[r].lamports
  /\ round_record' = [round_record EXCEPT ![r] = NoRecord]
  /\ UNCHANGED <<config, round, round_count, total_usdc_in_lobby,
                 waln_dust_carryover, poolVars, nftVars, claimVars,
                 usdc_vault, now>>

-----------------------------------------------------------------------------
\* Mutant of ClaimOpen: the lock period is ignored.
ClaimOpenEarly(rlw) == rlw.exists

\* The account is there and its lock has expired.
ClaimOpen(rlw) == rlw.exists /\ now >= rlw.unlock

\* claim_waln pays an investor what a settled round allocated to it; the last
\* claim of the round closes its account.
claim_waln(k, r) ==
  LET rlw == round_locked_waln[r]
  IN  /\ ~ config.frozen
      /\ ClaimOpen(rlw)
      /\ \E i \in Slots :
           LET amount == rlw.entries[i].waln_amount
           IN  /\ rlw.entries[i].investor = k
               /\ amount > 0
               /\ amount =< waln_vault
               /\ waln_vault' = waln_vault - amount
               /\ paid_waln' = [paid_waln EXCEPT ![k] = @ + amount]
               /\ rlw.remaining_to_claim > 0
               /\ IF rlw.remaining_to_claim = 1
                  THEN /\ treasury + rlw.lamports =< U64_MAX
                       /\ treasury' = treasury + rlw.lamports
                       /\ round_locked_waln' =
                            [round_locked_waln EXCEPT ![r] = NoLockedWaln]
                  ELSE /\ UNCHANGED treasury
                       /\ round_locked_waln' =
                            [round_locked_waln EXCEPT
                               ![r].entries[i].waln_amount = 0,
                               ![r].remaining_to_claim = @ - 1]
      /\ UNCHANGED <<config, round, round_count, total_usdc_in_lobby,
                     waln_dust_carryover, poolVars, nftVars, round_record,
                     usdc_vault, now>>

\* The cluster's clock advances.
Tick ==
  /\ now < MaxTime
  /\ now' = now + 1
  /\ UNCHANGED <<config, round, round_count, total_usdc_in_lobby,
                 waln_dust_carryover, poolVars, nftVars, claimVars, round_record,
                 usdc_vault, treasury>>

-----------------------------------------------------------------------------
AdminNext ==
  \/ \E price \in Prices : set_floor_price(price)
  \/ \E size \in Sizes : set_round_size(size)
  \/ \E lock \in LockPeriods : set_lock_period(lock)
  \/ \E lock \in WithdrawLocks : set_usdc_withdraw_lock(lock)
  \/ \E k \in Keys, ts \in UnlockTimes : set_investor_usdc_unlock(k, ts)
  \/ \E paused \in Switches : set_sell_paused(paused)
  \/ \E frozen \in Switches : set_frozen(frozen)
  \/ \E k \in Keys, volume \in AatVolumes : mint_aat_nft(k, volume)
  \/ \E k \in Keys, volume \in AatVolumes : update_aat_volume(k, volume)
  \/ \E k \in Keys : remove_investor_from_pool(k)
  \/ \E amount \in LamportAmounts : fund_treasury(amount)
  \/ \E amount \in LamportAmounts : withdraw_treasury(amount)
  \/ cancel_round
  \/ close_round
  \/ \E r \in Rounds : close_round_record(r)

UserNext ==
  \/ \E k \in Keys, amount \in UsdcAmounts : deposit_usdc(k, amount)
  \/ \E k \in Keys, amount \in UsdcAmounts : withdraw_usdc(k, amount)
  \/ \E max \in WalnAmounts : sell_waln(max)
  \/ \E max \in WalnAmounts : sell_waln_filling(max)
  \/ \E k \in Keys, r \in Rounds : claim_waln(k, r)
  \/ \E r \in Rounds, amount \in LamportAmounts : PrefundLocked(r, amount)
  \/ \E r \in Rounds, amount \in LamportAmounts : PrefundRecord(r, amount)

Next == AdminNext \/ UserNext \/ Tick

Spec == Init /\ [][Next]_vars
=============================================================================
