----------------------------- MODULE PoolProofs -----------------------------
(***************************************************************************)
(* The rounds and the pool, for every value of the constants: the settings *)
(* stay viable, a round keeps its settings and can always be completed,    *)
(* the slots agree with the NFTs, the locks are the pro-rata shares of the *)
(* round's cap, and the vault covers what the investors own.               *)
(*                                                                         *)
(* The invariants are proved one after the other, each with the help of    *)
(* the ones before it: TypeOK and Books (module FloorProofs), then         *)
(* RoundCanFill, SlotsMatch, ProRata and PaidFits.                         *)
(***************************************************************************)
EXTENDS FloorProofs

\* The instructions that touch the round in progress.
LEMMA RoundSteps ==
  ASSUME [Next]_vars
  PROVE  \/ UNCHANGED <<round, round_count>>
         \/ cancel_round
         \/ close_round
         \/ \E max \in U64 : sell_waln(max)
         \/ \E max \in U64 : sell_waln_filling(max)
<1> USE DEF poolVars, nftVars, claimVars
<1>1. WalnAmounts \subseteq U64
  BY FloorProgramAssumption
<1>2. CASE AdminNext
  BY <1>2 DEF AdminNext, set_floor_price, set_round_size, set_lock_period,
     set_usdc_withdraw_lock, set_sell_paused, set_frozen, SetConfig,
     set_investor_usdc_unlock, mint_aat_nft, update_aat_volume,
     remove_investor_from_pool, fund_treasury, withdraw_treasury, close_round_record
<1>3. CASE UserNext
  BY <1>1, <1>3 DEF UserNext, deposit_usdc, withdraw_usdc, claim_waln, PrefundLocked,
     PrefundRecord
<1>4. CASE Tick \/ UNCHANGED vars
  BY <1>4 DEF Tick, vars
<1> QED BY <1>2, <1>3, <1>4 DEF Next

\* The instructions that change the price or the size of the next rounds.
LEMMA ConfigSteps ==
  ASSUME TypeOK, [Next]_vars
  PROVE  \/ /\ config'.floor_price_usdc = config.floor_price_usdc
            /\ config'.round_size_waln = config.round_size_waln
         \/ \E price \in Prices : set_floor_price(price)
         \/ \E size \in Sizes : set_round_size(size)
<1> USE DEF poolVars, nftVars, claimVars
<1>1. config \in ConfigType
  BY DEF TypeOK
<1>2. ASSUME NEW x, \/ set_lock_period(x) \/ set_usdc_withdraw_lock(x)
                    \/ set_sell_paused(x) \/ set_frozen(x)
      PROVE  /\ config'.floor_price_usdc = config.floor_price_usdc
             /\ config'.round_size_waln = config.round_size_waln
  BY <1>1, <1>2 DEF set_lock_period, set_usdc_withdraw_lock, set_sell_paused,
     set_frozen, SetConfig, ConfigType
<1>3. CASE AdminNext
  BY <1>2, <1>3 DEF AdminNext, set_investor_usdc_unlock, mint_aat_nft, update_aat_volume,
     cancel_round, close_round, remove_investor_from_pool, fund_treasury,
     withdraw_treasury, close_round_record
<1>4. CASE UserNext
  BY <1>4 DEF UserNext, deposit_usdc, withdraw_usdc, claim_waln, PrefundLocked,
     PrefundRecord, sell_waln, sell_waln_filling
<1>5. CASE Tick \/ UNCHANGED vars
  BY <1>5 DEF Tick, vars
<1> QED BY <1>3, <1>4, <1>5 DEF Next

-----------------------------------------------------------------------------
\* The settings, and the round they are copied to

LEMMA ViableInit == Init => SettingsViable
<1> SUFFICES ASSUME Init PROVE SettingsViable
  OBVIOUS
<1>1. PICK price \in Prices, size \in Sizes, lock \in LockPeriods :
        /\ require_viable_round_params(size, price)
        /\ config = [floor_price_usdc |-> price, round_size_waln |-> size,
                     lock_period_seconds |-> lock, usdc_withdraw_lock_seconds |-> 0,
                     sell_paused |-> FALSE, frozen |-> FALSE]
  BY DEF Init
<1>2. config.floor_price_usdc = price /\ config.round_size_waln = size
  BY <1>1
<1> QED BY <1>1, <1>2 DEF SettingsViable

LEMMA ViableNext == TypeOK /\ SettingsViable /\ [Next]_vars => SettingsViable'
<1> SUFFICES ASSUME TypeOK, SettingsViable, [Next]_vars PROVE SettingsViable'
  OBVIOUS
<1>1. config \in ConfigType
  BY DEF TypeOK
<1>2. ASSUME NEW price \in Prices, set_floor_price(price) PROVE SettingsViable'
  <2>1. /\ require_viable_round_params(config.round_size_waln, price)
        /\ config' = [config EXCEPT !.floor_price_usdc = price]
    BY <1>2 DEF set_floor_price, SetConfig
  <2>2. /\ config'.floor_price_usdc = price
        /\ config'.round_size_waln = config.round_size_waln
    BY <1>1, <2>1 DEF ConfigType
  <2> QED BY <2>1, <2>2 DEF SettingsViable
<1>3. ASSUME NEW size \in Sizes, set_round_size(size) PROVE SettingsViable'
  <2>1. /\ require_viable_round_params(size, config.floor_price_usdc)
        /\ config' = [config EXCEPT !.round_size_waln = size]
    BY <1>3 DEF set_round_size, SetConfig
  <2>2. /\ config'.floor_price_usdc = config.floor_price_usdc
        /\ config'.round_size_waln = size
    BY <1>1, <2>1 DEF ConfigType
  <2> QED BY <2>1, <2>2 DEF SettingsViable
<1>4. CASE /\ config'.floor_price_usdc = config.floor_price_usdc
           /\ config'.round_size_waln = config.round_size_waln
  BY <1>4 DEF SettingsViable
<1> QED BY <1>2, <1>3, <1>4, ConfigSteps

\* Price and size are viable together in every reachable state, although the two
\* setters set_floor_price and set_round_size check one new value each.
THEOREM SettingsCorrect == Spec => []SettingsViable
<1>1. TypeOK /\ SettingsViable /\ [Next]_vars => (TypeOK /\ SettingsViable)'
  BY TypeNext, ViableNext
<1> QED BY <1>1, TypeInit, ViableInit, PTL DEF Spec

\* A round that ends is not started.
LEMMA EndedRound ==
  ASSUME TypeOK, cancel_round \/ close_round
  PROVE  /\ ~ round'.started
         /\ round'.waln = 0 /\ round'.usdc_spent = 0 /\ round'.usdc_locked = 0
<1>1. round' = [round EXCEPT !.started = FALSE, !.waln = 0, !.usdc_spent = 0,
                             !.usdc_locked = 0]
  BY DEF cancel_round, close_round
<1> QED BY <1>1 DEF TypeOK, RoundType

\* No instruction changes the price, the size or the lock period of a round in
\* progress: the setters change the settings only, and a sale adds to the round's
\* totals.
THEOREM SnapshotCorrect == Spec => SnapshotFixed
<1> DEFINE Same == /\ round'.floor_price = round.floor_price
                   /\ round'.size_waln = round.size_waln
                   /\ round'.lock_period = round.lock_period
           Step == round.started /\ round'.started /\ round_count' = round_count => Same
<1>1. ASSUME TypeOK, [Next]_vars PROVE Step
  <2>1. round_count \in Nat /\ round_count + 1 # round_count
    BY <1>1, FloorProgramAssumption DEF TypeOK
  <2>2. CASE UNCHANGED <<round, round_count>>
    BY <2>2
  <2>3. CASE cancel_round \/ close_round
    BY <1>1, <2>3, EndedRound
  <2>4. ASSUME NEW max \in U64, sell_waln(max), round.started PROVE Same
    <3>1. round' = [round EXCEPT !.waln = @ + waln_amount(max),
                                 !.usdc_spent = @ + usdc_out(max)]
      BY <2>4 DEF sell_waln, OpenRound
    <3> QED BY <1>1, <3>1 DEF TypeOK, RoundType
  <2>5. ASSUME NEW max \in U64, sell_waln_filling(max) PROVE round_count' = round_count + 1
    BY <2>5 DEF sell_waln_filling, FinishRound, SettleAccounts
  <2> QED BY <1>1, <2>1, <2>2, <2>3, <2>4, <2>5, RoundSteps
<1>2. TypeOK /\ [Next]_vars => [Step]_vars
  BY <1>1
<1> QED BY <1>2, TypeCorrect, PTL DEF Spec, SnapshotFixed

-----------------------------------------------------------------------------
\* A round in progress can be completed

\* The round that a sale runs in, with the amounts the sale adds.
LEMMA OpenFields ==
  ASSUME TypeOK, Books, NEW max \in U64, Sale(max)
  PROVE  /\ OpenRound.waln = RoundWaln
         /\ OpenRound.size_waln = RoundSize
         /\ OpenRound.floor_price = RoundPrice
         /\ OpenRound.usdc_spent = round.usdc_spent
         /\ RoundSize \in Nat /\ RoundPrice \in Nat /\ RoundPrice > 0
         /\ RoundWaln \in Nat /\ round.usdc_spent \in Nat
         /\ waln_amount(max) \in Nat /\ usdc_out(max) \in Nat
         /\ waln_amount(max) =< RoundSize - RoundWaln
<1>1. /\ RoundSize \in Nat /\ RoundPrice \in Nat /\ RoundWaln \in Nat /\ max \in Nat
      /\ round.usdc_spent \in Nat
  BY OpenType, U64Nats DEF TypeOK, RoundType
<1>2. waln_amount(max) \in Nat /\ usdc_out(max) \in Nat /\ RoundPrice > 0
  BY SaleType
<1>3. waln_amount(max) =< RoundSize - RoundWaln
  BY <1>1 DEF waln_amount, remaining_in_round, Least
<1>4. /\ OpenRound.waln = RoundWaln
      /\ OpenRound.size_waln = RoundSize
      /\ OpenRound.floor_price = RoundPrice
      /\ OpenRound.usdc_spent = round.usdc_spent
  <2>1. CASE round.started
    BY <2>1 DEF OpenRound, RoundWaln, RoundSize, RoundPrice
  <2>2. CASE ~ round.started
    <3>1. round.waln = 0 /\ round.usdc_spent = 0
      BY <2>2 DEF Books, LocksMatchRound
    <3>2. OpenRound = StartedRound(investors, RoundSize, RoundPrice, round.waln)
      BY <2>2 DEF OpenRound
    <3>3. RoundWaln = 0
      BY <2>2 DEF RoundWaln
    <3> QED BY <3>1, <3>2, <3>3 DEF StartedRound
  <2> QED BY <2>1, <2>2
<1> QED BY <1>1, <1>2, <1>3, <1>4

\* The round after a sale that leaves room.
LEMMA SoldRound ==
  ASSUME TypeOK, Books, NEW max \in U64, sell_waln(max)
  PROVE  /\ Sale(max) /\ round'.started
         /\ round'.waln = RoundWaln + waln_amount(max)
         /\ round'.usdc_spent = round.usdc_spent + usdc_out(max)
         /\ round'.size_waln = RoundSize
         /\ round'.floor_price = RoundPrice
         /\ RoundWaln + waln_amount(max) < RoundSize
<1>1. /\ Sale(max)
      /\ OpenRound.waln + waln_amount(max) < RoundSize
      /\ round' = [OpenRound EXCEPT !.waln = @ + waln_amount(max),
                                    !.usdc_spent = @ + usdc_out(max)]
  BY DEF sell_waln
<1>2. OpenRound \in RoundType /\ OpenRound.started
  BY <1>1, OpenType, BooksOpen
<1>3. /\ round'.started = OpenRound.started
      /\ round'.waln = OpenRound.waln + waln_amount(max)
      /\ round'.usdc_spent = OpenRound.usdc_spent + usdc_out(max)
      /\ round'.size_waln = OpenRound.size_waln
      /\ round'.floor_price = OpenRound.floor_price
  BY <1>1, <1>2 DEF RoundType
<1> QED BY <1>1, <1>2, <1>3, OpenFields

\* The round after a sale that fills one: a new one with the live settings, or
\* none.
LEMMA NextRound ==
  ASSUME TypeOK, Books, NEW max \in U64, sell_waln_filling(max)
  PROVE  LET credits == FilledCredits(OpenPool, RoundPrice, waln_dust_carryover, now)
             filled == FilledPool(OpenPool, credits)
             size   == config.round_size_waln
             price  == config.floor_price_usdc
         IN  /\ Sale(max) /\ RoundWaln + waln_amount(max) = RoundSize
             /\ OpenPool \in PoolType /\ filled \in PoolType
             /\ \A i \in Slots : filled[i].usdc_locked_current_round = 0
             /\ size \in U64 /\ price \in U64
             /\ round'.waln = 0 /\ round'.usdc_spent = 0
             /\ \/ /\ round'.started
                   /\ RoundCanStart(filled, count, size, price)
                   /\ investors' = execute_round_start(filled, count, size, price)
                   /\ round'.size_waln = size /\ round'.floor_price = price
                \/ ~ round'.started /\ investors' = filled
<1> DEFINE credits == FilledCredits(OpenPool, RoundPrice, waln_dust_carryover, now)
           filled == FilledPool(OpenPool, credits)
           size   == config.round_size_waln
           price  == config.floor_price_usdc
<1>1. Sale(max) /\ OpenRound.waln + waln_amount(max) >= RoundSize
  BY DEF sell_waln_filling
<1>2. RoundWaln + waln_amount(max) = RoundSize
  BY <1>1, OpenFields
<1>3. FitsU64(filled) /\ AutoStart(filled)
  BY DEF sell_waln_filling, FinishRound
<1>4. OpenPool \in PoolType /\ OpenRound \in RoundType
  BY <1>1, OpenType
<1>5. size \in U64 /\ price \in U64
  BY DEF TypeOK, ConfigType
<1> HIDE DEF credits, size, price
<1>6. filled \in PoolType /\ \A i \in Slots : filled[i].usdc_locked_current_round = 0
  BY <1>3, <1>4, FilledType, FilledSums
<1> HIDE DEF filled
<1>7. CASE RoundCanStart(filled, count, size, price)
  <2>1. /\ investors' = execute_round_start(filled, count, size, price)
        /\ round' = StartedRound(filled, size, price, 0)
    BY <1>3, <1>7 DEF AutoStart, size, price
  <2>2. /\ round'.started /\ round'.waln = 0 /\ round'.usdc_spent = 0
        /\ round'.size_waln = size /\ round'.floor_price = price
    BY <2>1 DEF StartedRound
  <2> QED BY <1>1, <1>2, <1>4, <1>5, <1>6, <1>7, <2>1, <2>2
          DEF credits, filled, size, price
<1>8. CASE ~ RoundCanStart(filled, count, size, price)
  <2>1. /\ investors' = filled
        /\ round' = [OpenRound EXCEPT !.started = FALSE, !.waln = 0,
                                      !.usdc_spent = 0, !.usdc_locked = 0]
    BY <1>3, <1>8 DEF AutoStart, size, price
  <2>2. ~ round'.started /\ round'.waln = 0 /\ round'.usdc_spent = 0
    BY <1>4, <2>1 DEF RoundType
  <2> QED BY <1>1, <1>2, <1>4, <1>5, <1>6, <2>1, <2>2 DEF credits, filled, size, price
<1> QED BY <1>7, <1>8

LEMMA CanFillNext == TypeOK /\ Books /\ RoundCanFill /\ [Next]_vars => RoundCanFill'
<1> SUFFICES ASSUME TypeOK, Books, RoundCanFill, [Next]_vars PROVE RoundCanFill'
  OBVIOUS
<1>1. CASE UNCHANGED <<round, round_count>>
  BY <1>1 DEF RoundCanFill
<1>2. CASE cancel_round \/ close_round
  BY <1>2, EndedRound DEF RoundCanFill
<1>3. ASSUME NEW max \in U64, sell_waln(max) PROVE RoundCanFill'
  <2>1. /\ Sale(max) /\ round'.waln = RoundWaln + waln_amount(max)
        /\ round'.size_waln = RoundSize /\ round'.floor_price = RoundPrice
        /\ RoundWaln + waln_amount(max) < RoundSize
    BY <1>3, SoldRound
  <2>2. RoundWaln \in Nat /\ waln_amount(max) \in Nat /\ RoundSize \in Nat
    BY <2>1, OpenFields
  <2>3. (RoundSize - RoundWaln) - waln_amount(max) > 0
        => UsdcFor((RoundSize - RoundWaln) - waln_amount(max), RoundPrice) > 0
    BY <2>1 DEF Sale, SaleAllowed, remaining_in_round
  <2>4. RoundSize - (RoundWaln + waln_amount(max)) = (RoundSize - RoundWaln) - waln_amount(max)
        /\ (RoundSize - RoundWaln) - waln_amount(max) > 0
    BY <2>1, <2>2
  <2>5. UsdcFor(RoundSize - (RoundWaln + waln_amount(max)), RoundPrice) > 0
    BY <2>3, <2>4
  <2> QED BY <2>1, <2>5 DEF RoundCanFill
<1>4. ASSUME NEW max \in U64, sell_waln_filling(max), round'.started PROVE RoundCanFill'
  <2> DEFINE size  == config.round_size_waln
             price == config.floor_price_usdc
  <2>1. PICK inv : RoundCanStart(inv, count, size, price)
    BY <1>4, NextRound
  <2>2. /\ round'.waln = 0 /\ round'.size_waln = size /\ round'.floor_price = price
        /\ size \in U64 /\ price \in U64
    BY <1>4, NextRound
  <2>3. UsdcFor(size, price) > 0
    BY <2>1 DEF RoundCanStart, round_cap_usdc
  <2> HIDE DEF size, price
  <2>4. size \in Nat /\ price \in Nat
    BY <2>2, U64Nats
  <2>5. size # 0
    BY <2>3, <2>4, UsdcForZero
  <2>6. size - 0 = size /\ 0 < size
    BY <2>4, <2>5
  <2> QED BY <2>2, <2>3, <2>6 DEF RoundCanFill
<1>5. ASSUME ~ round'.started PROVE RoundCanFill'
  BY <1>5 DEF RoundCanFill
<1> QED BY <1>1, <1>2, <1>3, <1>4, <1>5, RoundSteps

\* A round in progress is never full and never left with a remainder that is
\* worth nothing: the guard SellLeavesUnpayableDust of sell_waln does its work
\* in every reachable state, so some sale can always complete the round.
THEOREM CanFillCorrect == Spec => []RoundCanFill
<1>1. Init => RoundCanFill
  BY DEF Init, RoundCanFill
<1> QED BY <1>1, CanFillNext, TypeCorrect, BooksCorrect, PTL DEF Spec

-----------------------------------------------------------------------------
\* What rounds leave alone in a slot

\* A start changes the deposit and the lock of a slot, a settlement also what it
\* committed and bought.
Kept(old, new) ==
  /\ new.investor = old.investor
  /\ new.aat_volume = old.aat_volume
  /\ new.usdc_unlock_ts = old.usdc_unlock_ts

LEMMA StartKeeps ==
  ASSUME NEW inv \in PoolType, NEW cnt, NEW size, NEW price, NEW i \in Slots
  PROVE  LET new == execute_round_start(inv, cnt, size, price)
         IN  /\ Kept(inv[i], new[i])
             /\ new[i].waln_purchased_total = inv[i].waln_purchased_total
<1> DEFINE new == execute_round_start(inv, cnt, size, price)
           lock == NewLocks(inv, cnt, size, price)[i]
<1>1. new[i] = [inv[i] EXCEPT
                  !.usdc_deposited = @ - lock,
                  !.usdc_locked_current_round = IF lock > 0 THEN lock ELSE @]
  BY DEF execute_round_start
<1>2. inv[i] \in InvestorRecord
  BY DEF PoolType
<1> HIDE DEF new, lock
<1>3. Kept(inv[i], new[i]) /\ new[i].waln_purchased_total = inv[i].waln_purchased_total
  BY <1>1, <1>2 DEF Kept, InvestorRecord
<1> QED BY <1>3 DEF new

LEMMA FilledKeeps ==
  ASSUME NEW inv \in PoolType, NEW allocs, NEW i \in Slots
  PROVE  /\ Kept(inv[i], FilledPool(inv, allocs)[i])
         /\ inv[i].usdc_locked_current_round = 0 /\ allocs[i] = 0
              => FilledPool(inv, allocs)[i] = inv[i]
<1> DEFINE new == FilledPool(inv, allocs)[i]
<1>1. new = [inv[i] EXCEPT
               !.usdc_committed = @ + inv[i].usdc_locked_current_round,
               !.waln_purchased_total = @ + allocs[i],
               !.usdc_locked_current_round = 0]
  BY DEF FilledPool
<1>2. inv[i] \in InvestorRecord
  BY DEF PoolType
<1> HIDE DEF new
<1>3. Kept(inv[i], new)
  BY <1>1, <1>2 DEF Kept, InvestorRecord
<1>4. ASSUME inv[i].usdc_locked_current_round = 0, allocs[i] = 0 PROVE new = inv[i]
  <2>1. inv[i].usdc_committed \in Nat /\ inv[i].waln_purchased_total \in Nat
    BY PoolTypeNats DEF PoolOfNats
  <2>2. /\ inv[i].usdc_committed + inv[i].usdc_locked_current_round = inv[i].usdc_committed
        /\ inv[i].waln_purchased_total + allocs[i] = inv[i].waln_purchased_total
    BY <1>4, <2>1
  <2> QED BY <1>1, <1>2, <1>4, <2>2 DEF InvestorRecord
<1> QED BY <1>3, <1>4 DEF new

LEMMA ClosedKeeps ==
  ASSUME NEW inv \in PoolType, NEW spent, NEW allocs, NEW i \in Slots
  PROVE  /\ Kept(inv[i], ClosedPool(inv, spent, allocs)[i])
         /\ inv[i].usdc_locked_current_round = 0 /\ spent[i] = 0 /\ allocs[i] = 0
              => ClosedPool(inv, spent, allocs)[i] = inv[i]
<1> DEFINE new == ClosedPool(inv, spent, allocs)[i]
<1>1. new = [inv[i] EXCEPT
               !.usdc_deposited = @ + (inv[i].usdc_locked_current_round - spent[i]),
               !.usdc_committed = @ + spent[i],
               !.waln_purchased_total = @ + allocs[i],
               !.usdc_locked_current_round = 0]
  BY DEF ClosedPool
<1>2. inv[i] \in InvestorRecord
  BY DEF PoolType
<1> HIDE DEF new
<1>3. Kept(inv[i], new)
  BY <1>1, <1>2 DEF Kept, InvestorRecord
<1>4. ASSUME inv[i].usdc_locked_current_round = 0, spent[i] = 0, allocs[i] = 0
      PROVE  new = inv[i]
  <2>1. /\ inv[i].usdc_deposited \in Nat /\ inv[i].usdc_committed \in Nat
        /\ inv[i].waln_purchased_total \in Nat
    BY PoolTypeNats DEF PoolOfNats
  <2>2. /\ inv[i].usdc_deposited + (inv[i].usdc_locked_current_round - spent[i])
             = inv[i].usdc_deposited
        /\ inv[i].usdc_committed + spent[i] = inv[i].usdc_committed
        /\ inv[i].waln_purchased_total + allocs[i] = inv[i].waln_purchased_total
    BY <1>4, <2>1
  <2> QED BY <1>1, <1>2, <1>4, <2>2 DEF InvestorRecord
<1> QED BY <1>3, <1>4 DEF new

\* A slot without a lock is allocated nothing.
LEMMA WalnForZero ==
  ASSUME NEW price \in Nat, price > 0
  PROVE  WalnFor(0, price) = 0
<1>1. 0 * waln_scale = 0
  BY RoundMathAssumption
<1>2. 0 \div price = 0
  OBVIOUS
<1> QED BY <1>1, <1>2 DEF WalnFor

LEMMA FilledAllocsIdle ==
  ASSUME NEW inv, NEW price \in Nat, price > 0, NEW dust, NEW time, NEW i \in Slots,
         inv[i].usdc_locked_current_round = 0
  PROVE  FilledAllocs(inv, price, dust, time)[i] = 0
<1>1. base_waln(inv, price)[i] = 0
  BY WalnForZero DEF base_waln
<1>2. ~ dust_recipient(inv, i, time)
  BY DEF dust_recipient, IsParticipant
<1> QED BY <1>1, <1>2 DEF FilledAllocs

\* The record that gets the dust is at or before the recipient's slot, so that the
\* slots behind all participants get nothing.
LEMMA FilledCreditsIdle ==
  ASSUME NEW inv, NEW price \in Nat, price > 0, NEW dust, NEW time, NEW n \in Nat,
         NEW i \in Slots, i > n,
         \A j \in Slots : j > n => inv[j].usdc_locked_current_round = 0
  PROVE  FilledCredits(inv, price, dust, time)[i] = 0
<1>1. base_waln(inv, price)[i] = 0
  BY WalnForZero DEF base_waln
<1>2. ~ dust_record(inv, i, time)
  <2> SUFFICES ASSUME dust_record(inv, i, time) PROVE FALSE
    OBVIOUS
  <2>1. PICK w \in Slots : /\ dust_recipient(inv, w, time)
                           /\ \A j \in Slots : j < i => inv[j].investor # inv[w].investor
    BY DEF dust_record
  <2>2. inv[w].usdc_locked_current_round # 0
    BY <2>1 DEF dust_recipient, IsParticipant
  <2>3. ~ (w > n)
    BY <2>2
  <2>4. i \in Nat /\ w \in Nat
    BY DEF Slots
  <2>5. w < i
    BY <2>3, <2>4
  <2> QED BY <2>1, <2>5
<1> QED BY <1>1, <1>2 DEF FilledCredits

LEMMA ClosedAllocsIdle ==
  ASSUME NEW inv, NEW price \in Nat, price > 0, NEW waln \in Nat, NEW i \in Slots,
         Sum(base_waln(inv, price), MAX_INVESTORS) \in Nat,
         Sum(base_waln(inv, price), MAX_INVESTORS) > 0,
         inv[i].usdc_locked_current_round = 0
  PROVE  ClosedAllocs(inv, price, waln)[i] = 0
<1> DEFINE total == Sum(base_waln(inv, price), MAX_INVESTORS)
<1>1. base_waln(inv, price)[i] = 0
  BY WalnForZero DEF base_waln
<1>2. ~ IsParticipant(inv, i)
  BY DEF IsParticipant
<1>3. ClosedAllocs(inv, price, waln)[i] = (waln * base_waln(inv, price)[i]) \div total
  BY <1>2 DEF ClosedAllocs
<1>4. waln * 0 = 0 /\ 0 \div total = 0
  OBVIOUS
<1> HIDE DEF total
<1> QED BY <1>1, <1>3, <1>4

\* Starting, filling, closing or cancelling a round keeps every slot's investor,
\* volume and unlock time, and leaves the slots that are not in use alone.
RoundStep ==
  \/ cancel_round \/ close_round
  \/ \E max \in U64 : sell_waln(max)
  \/ \E max \in U64 : sell_waln_filling(max)

LEMMA OpenKeeps ==
  ASSUME TypeOK, Books, NEW max, Sale(max), NEW i \in Slots
  PROVE  /\ Kept(investors[i], OpenPool[i])
         /\ OpenPool[i].waln_purchased_total = investors[i].waln_purchased_total
         /\ i > count => OpenPool[i] = investors[i]
<1>1. CASE round.started
  BY <1>1 DEF OpenPool, Kept
<1>2. CASE ~ round.started
  <2>1. /\ OpenPool = execute_round_start(investors, count, RoundSize, RoundPrice)
        /\ RoundCanStart(investors, count, RoundSize, RoundPrice)
    BY <1>2 DEF OpenPool, Sale
  <2>2. investors \in PoolType /\ RoundSize \in U64 /\ RoundPrice \in U64
    BY OpenType DEF TypeOK, PoolType
  <2>3. /\ Kept(investors[i], OpenPool[i])
        /\ OpenPool[i].waln_purchased_total = investors[i].waln_purchased_total
    BY <2>1, <2>2, StartKeeps
  <2>4. ASSUME i > count PROVE OpenPool[i] = investors[i]
    <3> DEFINE lock == NewLocks(investors, count, RoundSize, RoundPrice)[i]
    <3>1. investors[i].usdc_deposited = 0
      BY <2>4 DEF Books, EmptySlots
    <3>2. lock \in 0 .. 0 /\ (lock = 0 => OpenPool[i] = investors[i])
      BY <2>1, <2>2, <3>1, StartSlot
    <3> QED BY <3>2
  <2> QED BY <2>3, <2>4
<1> QED BY <1>1, <1>2

LEMMA FillKeeps ==
  ASSUME TypeOK, Books, NEW max \in U64, sell_waln_filling(max), NEW i \in Slots
  PROVE  /\ Kept(investors[i], investors'[i])
         /\ i > count => investors'[i] = investors[i]
<1> DEFINE credits == FilledCredits(OpenPool, RoundPrice, waln_dust_carryover, now)
           filled == FilledPool(OpenPool, credits)
           size   == config.round_size_waln
           price  == config.floor_price_usdc
<1>1. /\ Sale(max) /\ OpenPool \in PoolType /\ filled \in PoolType
      /\ size \in U64 /\ price \in U64
      /\ \/ /\ RoundCanStart(filled, count, size, price)
            /\ investors' = execute_round_start(filled, count, size, price)
         \/ investors' = filled
  BY NextRound
<1>2. /\ Kept(investors[i], OpenPool[i])
      /\ i > count => OpenPool[i] = investors[i]
  BY <1>1, OpenKeeps
<1>3. RoundPrice \in Nat /\ RoundPrice > 0
  BY <1>1, SaleType
<1>4. i > count => OpenPool[i].usdc_locked_current_round = 0 /\ credits[i] = 0
  <2>1. \A j \in Slots : j > count => OpenPool[j].usdc_locked_current_round = 0
    BY <1>1, OpenKeeps DEF Books, EmptySlots
  <2>2. count \in Nat
    BY DEF TypeOK
  <2> QED BY <1>3, <2>1, <2>2, FilledCreditsIdle
<1> HIDE DEF credits, size, price
<1>5. /\ Kept(OpenPool[i], filled[i])
      /\ OpenPool[i].usdc_locked_current_round = 0 /\ credits[i] = 0 => filled[i] = OpenPool[i]
  BY <1>1, FilledKeeps
<1>6. i > count => /\ investors[i].usdc_deposited = 0
                   /\ investors[i].usdc_locked_current_round = 0
  BY DEF Books, EmptySlots
<1>7. i > count => filled[i] = investors[i]
  BY <1>2, <1>4, <1>5, <1>6
<1> HIDE DEF filled
<1>8. CASE investors' = filled
  BY <1>2, <1>5, <1>7, <1>8 DEF Kept
<1>9. CASE /\ RoundCanStart(filled, count, size, price)
           /\ investors' = execute_round_start(filled, count, size, price)
  <2> DEFINE lock == NewLocks(filled, count, size, price)[i]
  <2>1. Kept(filled[i], investors'[i])
    BY <1>1, <1>9, StartKeeps
  <2>2. /\ lock \in 0 .. filled[i].usdc_deposited
        /\ lock = 0 => investors'[i] = filled[i]
    BY <1>1, <1>9, StartSlot
  <2> HIDE DEF lock
  <2>3. i > count => lock = 0
    BY <1>6, <1>7, <2>2
  <2> QED BY <1>2, <1>5, <1>7, <2>1, <2>2, <2>3 DEF Kept
<1> QED BY <1>1, <1>8, <1>9

\* The wALN that a settlement of the pool's locks allocates.
LEMMA BaseWalnNat ==
  ASSUME NEW inv \in PoolType, NEW price \in Nat, price > 0
  PROVE  /\ \A i \in Slots : base_waln(inv, price)[i] \in Nat
         /\ Sum(base_waln(inv, price), MAX_INVESTORS) \in Nat
<1>1. \A i \in Slots : base_waln(inv, price)[i] \in Nat
  BY PoolTypeNats, WalnForNat DEF base_waln, PoolOfNats
<1>2. \A i \in 1 .. MAX_INVESTORS : base_waln(inv, price)[i] \in Nat
  BY <1>1 DEF Slots
<1> QED BY <1>1, <1>2, SumNat, RoundMathAssumption

\* The price of a round in progress is not zero.
LEMMA PricePositive ==
  ASSUME TypeOK, RoundCanFill, round.started
  PROVE  /\ round.floor_price \in Nat /\ round.floor_price > 0
         /\ round.size_waln \in Nat /\ round.waln \in Nat /\ round.usdc_spent \in Nat
<1>1. /\ round.floor_price \in Nat /\ round.size_waln \in Nat /\ round.waln \in Nat
      /\ round.usdc_spent \in Nat
  BY U64Nats DEF TypeOK, RoundType
<1>2. UsdcFor(round.size_waln - round.waln, round.floor_price) > 0
  BY DEF RoundCanFill
<1>3. round.floor_price # 0
  <2> SUFFICES ASSUME round.floor_price = 0 PROVE FALSE
    OBVIOUS
  <2>1. (round.size_waln - round.waln) * 0 = 0
    BY <1>1
  <2>2. 0 \div waln_scale = 0
    BY RoundMathAssumption
  <2> QED BY <1>2, <2>1, <2>2 DEF UsdcFor
<1> QED BY <1>1, <1>3

\* What close_round computes.
LEMMA CloseFacts ==
  ASSUME TypeOK, Books, RoundCanFill, close_round
  PROVE  LET paid   == round.usdc_spent
             spent  == close_round_usdc_spent(investors, paid)
             allocs == ClosedAllocs(investors, round.floor_price, round.waln)
         IN  /\ investors \in PoolType /\ investors' = ClosedPool(investors, spent, allocs)
             /\ paid \in Nat /\ paid > 0 /\ round.started
             /\ \A i \in Slots :
                  /\ spent[i] \in Nat
                  /\ spent[i] =< investors[i].usdc_locked_current_round
                  /\ allocs[i] \in U64
                  /\ investors[i].usdc_locked_current_round = 0 =>
                       spent[i] = 0 /\ allocs[i] = 0
             /\ Sum(spent, MAX_INVESTORS) = paid
             /\ total_usdc_in_lobby' = total_usdc_in_lobby - paid
             /\ Sum(allocs, MAX_INVESTORS) =< round.waln
             /\ waln_dust_carryover' =
                  waln_dust_carryover + (round.waln - Sum(allocs, MAX_INVESTORS))
             /\ round_count' = round_count + 1
             /\ UNCHANGED <<config, count, nftVars, waln_vault, paid_waln, usdc_vault, now>>
<1> DEFINE paid   == round.usdc_spent
           spent  == close_round_usdc_spent(investors, paid)
           allocs == ClosedAllocs(investors, round.floor_price, round.waln)
           full   == Sum(base_waln(investors, round.floor_price), MAX_INVESTORS)
<1>1. /\ round.started /\ full > 0 /\ paid > 0
      /\ paid =< Sum(Locks(investors), MAX_INVESTORS)
      /\ \A i \in Slots : /\ spent[i] =< investors[i].usdc_locked_current_round
                          /\ allocs[i] \in U64
      /\ Sum(spent, MAX_INVESTORS) = paid
      /\ investors' = ClosedPool(investors, spent, allocs)
      /\ total_usdc_in_lobby' = total_usdc_in_lobby - paid
      /\ Sum(allocs, MAX_INVESTORS) =< round.waln
      /\ waln_dust_carryover' =
           waln_dust_carryover + (round.waln - Sum(allocs, MAX_INVESTORS))
      /\ round_count' = round_count + 1
      /\ UNCHANGED <<config, count, nftVars, waln_vault, paid_waln, usdc_vault, now>>
  BY DEF close_round, SettleAccounts
<1>2. investors \in PoolType
  BY DEF TypeOK, PoolType
<1>3. /\ round.floor_price \in Nat /\ round.floor_price > 0 /\ paid \in Nat
      /\ round.waln \in Nat
  BY <1>1, PricePositive
<1>4. full \in Nat
  BY <1>2, <1>3, BaseWalnNat
<1>5. ASSUME NEW i \in Slots
      PROVE  /\ spent[i] \in Nat
             /\ investors[i].usdc_locked_current_round = 0 => spent[i] = 0 /\ allocs[i] = 0
  BY <1>1, <1>2, <1>3, <1>4, SpentNat, ClosedAllocsIdle
<1> HIDE DEF spent, allocs, full
<1> QED BY <1>1, <1>2, <1>3, <1>5 DEF spent, allocs

LEMMA RoundKeeps ==
  ASSUME TypeOK, Books, RoundCanFill, RoundStep
  PROVE  /\ UNCHANGED <<count, nftVars>>
         /\ \A i \in Slots : /\ Kept(investors[i], investors'[i])
                             /\ i > count => investors'[i] = investors[i]
<1>1. investors \in PoolType /\ \A i \in Slots : investors[i] \in InvestorRecord
  BY DEF TypeOK, PoolType
<1>2. UNCHANGED <<count, nftVars>>
  BY DEF RoundStep, cancel_round, close_round, sell_waln, sell_waln_filling
<1>3. ASSUME NEW i \in Slots
      PROVE  /\ Kept(investors[i], investors'[i])
             /\ i > count => investors'[i] = investors[i]
  <2>1. i > count => /\ investors[i].usdc_deposited = 0
                     /\ investors[i].usdc_locked_current_round = 0
    BY DEF Books, EmptySlots
  <2>2. CASE cancel_round
    <3>1. investors'[i] = [investors[i] EXCEPT
                             !.usdc_deposited = @ + investors[i].usdc_locked_current_round,
                             !.usdc_locked_current_round = 0]
      BY <2>2 DEF cancel_round
    <3>2. Kept(investors[i], investors'[i])
      BY <1>1, <3>1 DEF Kept, InvestorRecord
    <3>3. ASSUME i > count PROVE investors'[i] = investors[i]
      <4>1. investors[i].usdc_deposited + investors[i].usdc_locked_current_round
              = investors[i].usdc_deposited
        BY <2>1, <3>3
      <4> QED BY <1>1, <2>1, <3>1, <3>3, <4>1 DEF InvestorRecord
    <3> QED BY <3>2, <3>3
  <2>3. CASE close_round
    <3> DEFINE spent  == close_round_usdc_spent(investors, round.usdc_spent)
               allocs == ClosedAllocs(investors, round.floor_price, round.waln)
    <3>1. /\ investors' = ClosedPool(investors, spent, allocs)
          /\ investors[i].usdc_locked_current_round = 0 => spent[i] = 0 /\ allocs[i] = 0
      BY <2>3, CloseFacts
    <3> HIDE DEF spent, allocs
    <3> QED BY <1>1, <2>1, <3>1, ClosedKeeps
  <2>4. ASSUME NEW max \in U64, sell_waln(max)
        PROVE  /\ Kept(investors[i], investors'[i])
               /\ i > count => investors'[i] = investors[i]
    <3>1. Sale(max) /\ investors' = OpenPool
      BY <2>4 DEF sell_waln
    <3> QED BY <3>1, OpenKeeps
  <2>5. ASSUME NEW max \in U64, sell_waln_filling(max)
        PROVE  /\ Kept(investors[i], investors'[i])
               /\ i > count => investors'[i] = investors[i]
    BY <2>5, FillKeeps
  <2> QED BY <2>2, <2>3, <2>4, <2>5 DEF RoundStep
<1> QED BY <1>2, <1>3

-----------------------------------------------------------------------------
\* The pool and the NFTs

\* A key without an NFT has no volume, so that minting adds to the total exactly
\* what it adds to the sum.
SlotsMatch ==
  /\ PoolMatchesNfts
  /\ \A k \in Keys : k \notin minted => aat_volume[k] = 0

LEMMA SlotsSame ==
  ASSUME SlotsMatch, UNCHANGED <<count, nftVars>>,
         \A i \in Slots : /\ investors'[i].investor = investors[i].investor
                          /\ investors'[i].aat_volume = investors[i].aat_volume
                          /\ i =< count \/ investors'[i] = investors[i]
  PROVE  SlotsMatch'
BY DEF SlotsMatch, PoolMatchesNfts, nftVars

LEMMA SlotsInit == Init => SlotsMatch
<1> SUFFICES ASSUME Init PROVE SlotsMatch
  OBVIOUS
<1>1. count = 0 /\ \A i \in Slots : investors[i] = NewRecord(NoKey) /\ ~ (i =< 0)
  BY DEF Init, Slots
<1>2. total_aat_volume = 0 /\ \A k \in Keys : aat_volume[k] = 0
  BY DEF Init
<1>3. Sum(aat_volume, NUM_KEYS) = 0
  BY <1>2, SumZeros, FloorProgramAssumption DEF Keys
<1> QED BY <1>1, <1>2, <1>3 DEF SlotsMatch, PoolMatchesNfts

\* A deposit goes to the slot of its investor, or to the first slot that is not
\* in use; the other slots stay as they are.
LEMMA DepositEffect ==
  ASSUME TypeOK, SlotsMatch, NEW k \in Keys, NEW amount \in U64, deposit_usdc(k, amount)
  PROVE  /\ k \in minted
         /\ \E j \in Slots :
              /\ \A i \in Slots : i # j => investors'[i] = investors[i]
              /\ investors'[j].investor = k
              /\ investors'[j].aat_volume = aat_volume[k]
              /\ investors'[j].usdc_deposited = investors[j].usdc_deposited + amount
              /\ investors'[j].usdc_locked_current_round
                   = investors[j].usdc_locked_current_round
              /\ investors'[j].waln_purchased_total = investors[j].waln_purchased_total
              /\ \/ /\ j =< count /\ count' = count
                    /\ investors[j].investor = k
                    /\ investors[j].aat_volume = aat_volume[k]
                    /\ investors'[j].usdc_unlock_ts >= investors[j].usdc_unlock_ts
                 \/ /\ j = count + 1 /\ count' = count + 1
                    /\ investors[j] = NewRecord(NoKey)
                    /\ \A i \in Slots : investors[i].investor # k
<1>1. /\ \A i \in Slots : investors[i] \in InvestorRecord
      /\ investors = [i \in Slots |-> investors[i]]
      /\ count \in Nat /\ MAX_INVESTORS \in Nat /\ amount \in Nat /\ now \in Int
      /\ config.usdc_withdraw_lock_seconds \in Int
  BY U64Nats, RoundMathAssumption, FloorProgramAssumption DEF TypeOK, ConfigType
<1>2. k \in minted
  BY DEF deposit_usdc
<1>3. CASE \E i \in Slots :
             /\ IsSlotOf(i, k)
             /\ investors' = [investors EXCEPT ![i] = Deposited(investors[i], k, amount)]
             /\ UNCHANGED count
  <2>1. PICK j \in Slots :
             /\ j =< count /\ investors[j].investor = k
             /\ investors' = [investors EXCEPT ![j] = Deposited(investors[j], k, amount)]
             /\ UNCHANGED count
    BY <1>3 DEF IsSlotOf
  <2>2. /\ investors'[j] = Deposited(investors[j], k, amount)
        /\ \A i \in Slots : i # j => investors'[i] = investors[i]
    BY <1>1, <2>1
  <2>3. investors[j] \in InvestorRecord /\ investors[j].usdc_unlock_ts \in Int
    BY <1>1 DEF InvestorRecord
  <2>4. /\ investors'[j].investor = investors[j].investor
        /\ investors'[j].aat_volume = aat_volume[k]
        /\ investors'[j].usdc_deposited = investors[j].usdc_deposited + amount
        /\ investors'[j].usdc_locked_current_round
             = investors[j].usdc_locked_current_round
        /\ investors'[j].waln_purchased_total = investors[j].waln_purchased_total
    BY <2>2, <2>3 DEF Deposited, InvestorRecord
  <2>5. investors'[j].usdc_unlock_ts >= investors[j].usdc_unlock_ts
    BY <1>1, <2>2, <2>3 DEF Deposited, InvestorRecord, Greatest
  <2>6. investors[j].aat_volume = aat_volume[k]
    BY <2>1 DEF SlotsMatch, PoolMatchesNfts
  <2> QED BY <1>2, <2>1, <2>2, <2>4, <2>5, <2>6
<1>4. CASE /\ ~ InPool(k)
           /\ investors' = [investors EXCEPT ![count + 1] =
                               Deposited(NewRecord(k), k, amount)]
           /\ count' = count + 1
  <2>1. count + 1 \in Slots
    BY <1>1, <1>4 DEF deposit_usdc, Slots
  <2>2. /\ investors'[count + 1] = Deposited(NewRecord(k), k, amount)
        /\ \A i \in Slots : i # count + 1 => investors'[i] = investors[i]
    BY <1>1, <1>4, <2>1
  <2>3. investors[count + 1] = NewRecord(NoKey)
    <3>1. ~ (count + 1 =< count)
      BY <1>1
    <3> QED BY <2>1, <3>1 DEF SlotsMatch, PoolMatchesNfts
  <2>4. \A i \in Slots : investors[i].investor # k
    <3>1. k # NoKey
      BY DEF Keys, NoKey
    <3>2. \A i \in Slots : i =< count \/ investors[i].investor = NoKey
      BY DEF SlotsMatch, PoolMatchesNfts, NewRecord
    <3> QED BY <1>4, <3>1, <3>2 DEF InPool
  <2>5. /\ investors'[count + 1].investor = k
        /\ investors'[count + 1].aat_volume = aat_volume[k]
        /\ investors'[count + 1].usdc_deposited = 0 + amount
        /\ investors'[count + 1].usdc_locked_current_round = 0
        /\ investors'[count + 1].waln_purchased_total = 0
    BY <2>2 DEF Deposited, NewRecord
  <2>6. /\ investors[count + 1].usdc_deposited = 0
        /\ investors[count + 1].usdc_locked_current_round = 0
        /\ investors[count + 1].waln_purchased_total = 0
    BY <2>3 DEF NewRecord
  <2> QED BY <1>2, <1>4, <2>1, <2>2, <2>3, <2>4, <2>5, <2>6
<1> QED BY <1>3, <1>4 DEF deposit_usdc

\* A withdrawal takes USDC from the deposit of one slot.
LEMMA WithdrawEffect ==
  ASSUME TypeOK, NEW k \in Keys, NEW amount \in U64, withdraw_usdc(k, amount)
  PROVE  /\ UNCHANGED count
         /\ \E j \in Slots : \E w \in Nat :
              /\ j =< count /\ investors[j].investor = k
              /\ now >= investors[j].usdc_unlock_ts
              /\ w > 0 /\ w =< investors[j].usdc_deposited
              /\ \A i \in Slots : i # j => investors'[i] = investors[i]
              /\ Kept(investors[j], investors'[j])
              /\ investors'[j].usdc_deposited = investors[j].usdc_deposited - w
              /\ investors'[j].usdc_locked_current_round
                   = investors[j].usdc_locked_current_round
              /\ investors'[j].waln_purchased_total = investors[j].waln_purchased_total
              /\ usdc_vault' = usdc_vault - w
              /\ total_usdc_in_lobby' = total_usdc_in_lobby - w
<1>1. /\ \A i \in Slots : investors[i] \in InvestorRecord
      /\ investors = [i \in Slots |-> investors[i]]
  BY DEF TypeOK
<1>2. PICK j \in Slots :
        LET available == investors[j].usdc_deposited
            w == IF amount = U64_MAX THEN available ELSE amount
        IN  /\ j =< count /\ investors[j].investor = k
            /\ now >= investors[j].usdc_unlock_ts
            /\ w > 0 /\ w =< available
            /\ investors' = [investors EXCEPT ![j].usdc_deposited = available - w]
            /\ usdc_vault' = usdc_vault - w
            /\ total_usdc_in_lobby' = total_usdc_in_lobby - w
  BY DEF withdraw_usdc, IsSlotOf
<1> DEFINE available == investors[j].usdc_deposited
           w == IF amount = U64_MAX THEN available ELSE amount
<1>3. w \in Nat
  BY <1>1, U64Nats DEF InvestorRecord
<1>4. /\ j =< count /\ investors[j].investor = k
      /\ now >= investors[j].usdc_unlock_ts
      /\ w > 0 /\ w =< investors[j].usdc_deposited
      /\ investors' = [investors EXCEPT ![j].usdc_deposited = available - w]
      /\ usdc_vault' = usdc_vault - w
      /\ total_usdc_in_lobby' = total_usdc_in_lobby - w
  BY <1>2
<1> HIDE DEF w
<1>5. \A i \in Slots : i # j => investors'[i] = investors[i]
  BY <1>1, <1>4
<1>6. investors'[j] = [investors[j] EXCEPT !.usdc_deposited = available - w]
  BY <1>1, <1>4
<1>7. /\ Kept(investors[j], investors'[j])
      /\ investors'[j].usdc_deposited = investors[j].usdc_deposited - w
      /\ investors'[j].usdc_locked_current_round = investors[j].usdc_locked_current_round
      /\ investors'[j].waln_purchased_total = investors[j].waln_purchased_total
  BY <1>1, <1>6 DEF Kept, InvestorRecord
<1>8. UNCHANGED count
  BY DEF withdraw_usdc
<1> QED BY <1>3, <1>4, <1>5, <1>7, <1>8

\* A removal moves the last slot in use into the slot that is removed.
LEMMA RemoveEffect ==
  ASSUME TypeOK, NEW k \in Keys, remove_investor_from_pool(k)
  PROVE  /\ count \in Slots /\ count' = count - 1
         /\ \E j \in Slots :
              /\ j =< count /\ investors[j].investor = k
              /\ investors[j].aat_volume = 0
              /\ investors[j].usdc_locked_current_round = 0
              /\ usdc_vault' = usdc_vault - investors[j].usdc_deposited
              /\ total_usdc_in_lobby' = total_usdc_in_lobby - investors[j].usdc_deposited
              /\ \A i \in Slots : investors'[i] = IF i = count THEN NewRecord(NoKey)
                                                  ELSE IF i = j THEN investors[count]
                                                  ELSE investors[i]
<1>1. PICK j \in Slots :
        /\ j =< count /\ investors[j].investor = k
        /\ investors[j].aat_volume = 0
        /\ investors[j].usdc_locked_current_round = 0
        /\ usdc_vault' = usdc_vault - investors[j].usdc_deposited
        /\ total_usdc_in_lobby' = total_usdc_in_lobby - investors[j].usdc_deposited
        /\ investors' = [investors EXCEPT ![j] = investors[count],
                                          ![count] = NewRecord(NoKey)]
  BY DEF remove_investor_from_pool, IsSlotOf
<1>2. count \in Slots
  BY <1>1, RoundMathAssumption DEF TypeOK, Slots
<1>3. \A i \in Slots : investors'[i] = IF i = count THEN NewRecord(NoKey)
                                       ELSE IF i = j THEN investors[count]
                                       ELSE investors[i]
  BY <1>1, <1>2 DEF TypeOK
<1>4. count' = count - 1
  BY DEF remove_investor_from_pool
<1> QED BY <1>1, <1>2, <1>3, <1>4

LEMMA SlotsDeposit ==
  ASSUME TypeOK, SlotsMatch, NEW k \in Keys, NEW amount \in U64, deposit_usdc(k, amount)
  PROVE  SlotsMatch'
<1>1. PICK j \in Slots :
        /\ \A i \in Slots : i # j => investors'[i] = investors[i]
        /\ investors'[j].investor = k
        /\ investors'[j].aat_volume = aat_volume[k]
        /\ \/ /\ j =< count /\ count' = count
              /\ investors[j].investor = k
           \/ /\ j = count + 1 /\ count' = count + 1
              /\ \A i \in Slots : investors[i].investor # k
  BY DepositEffect
<1>2. k \in minted /\ UNCHANGED nftVars
  BY DepositEffect DEF deposit_usdc
<1>3. count \in Nat /\ \A i \in Slots : i \in Nat
  BY RoundMathAssumption DEF TypeOK, Slots
<1>4. \A i \in Slots : i # j => (i =< count' <=> i =< count)
  BY <1>1, <1>3
<1>5. j =< count'
  BY <1>1, <1>3
<1>6. \A i \in Slots : i # j => investors[i].investor # k
  BY <1>1 DEF SlotsMatch, PoolMatchesNfts
<1>7. ASSUME NEW i \in Slots
      PROVE  IF i =< count'
             THEN /\ investors'[i].investor \in minted
                  /\ investors'[i].aat_volume = aat_volume[investors'[i].investor]
                  /\ \A h \in Slots : h # i => investors'[h].investor # investors'[i].investor
             ELSE investors'[i] = NewRecord(NoKey)
  <2>1. CASE i = j
    BY <1>1, <1>2, <1>5, <1>6, <2>1
  <2>2. CASE i # j
    BY <1>1, <1>4, <1>6, <2>2 DEF SlotsMatch, PoolMatchesNfts
  <2> QED BY <2>1, <2>2
<1> QED BY <1>2, <1>7 DEF SlotsMatch, PoolMatchesNfts, nftVars

LEMMA SlotsRemove ==
  ASSUME TypeOK, SlotsMatch, NEW k \in Keys, remove_investor_from_pool(k)
  PROVE  SlotsMatch'
<1>1. count \in Slots /\ count' = count - 1 /\ UNCHANGED nftVars
  BY RemoveEffect DEF remove_investor_from_pool
<1>2. PICK j \in Slots :
        /\ j =< count
        /\ \A i \in Slots : investors'[i] = IF i = count THEN NewRecord(NoKey)
                                            ELSE IF i = j THEN investors[count]
                                            ELSE investors[i]
  BY RemoveEffect
<1>3. \A i \in Slots : i \in Nat
  BY DEF Slots
<1>4. \A i \in Slots : i =< count' <=> i < count
  BY <1>1, <1>3
<1>5. \A i \in Slots : i < count => i =< count /\ i # count
  BY <1>1, <1>3
<1>6. \A i \in Slots : ~ (i < count) /\ i # count => ~ (i =< count) /\ i # j
  BY <1>1, <1>2, <1>3
<1>7. \A i \in Slots : i =< count => investors[i].investor # NoKey
  <2>1. minted \subseteq Keys /\ NoKey \notin Keys
    BY DEF TypeOK, Keys, NoKey
  <2> QED BY <2>1 DEF SlotsMatch, PoolMatchesNfts
<1>8. NewRecord(NoKey).investor = NoKey /\ count =< count
  BY <1>1, <1>3 DEF NewRecord
<1>9. ASSUME NEW i \in Slots
      PROVE  IF i =< count'
             THEN /\ investors'[i].investor \in minted
                  /\ investors'[i].aat_volume = aat_volume[investors'[i].investor]
                  /\ \A h \in Slots : h # i => investors'[h].investor # investors'[i].investor
             ELSE investors'[i] = NewRecord(NoKey)
  <2>1. CASE ~ (i < count)
    <3>1. investors'[i] = NewRecord(NoKey)
      BY <1>2, <1>6, <2>1 DEF SlotsMatch, PoolMatchesNfts
    <3> QED BY <1>4, <2>1, <3>1
  <2>2. CASE i < count
    <3>1. PICK a \in Slots : /\ a =< count /\ investors'[i] = investors[a]
                             /\ a = IF i = j THEN count ELSE i
      BY <1>1, <1>2, <1>5, <1>8, <2>2
    <3>2. /\ investors[a].investor \in minted
          /\ investors[a].aat_volume = aat_volume[investors[a].investor]
          /\ \A h \in Slots : h # a => investors[h].investor # investors[a].investor
      BY <3>1 DEF SlotsMatch, PoolMatchesNfts
    <3>3. ASSUME NEW h \in Slots, h # i
          PROVE  investors'[h].investor # investors[a].investor
      <4>1. CASE h = count
        BY <1>2, <1>7, <1>8, <3>1, <4>1
      <4>2. CASE h # count
        <5>1. PICK b \in Slots : investors'[h] = investors[b] /\ b = IF h = j THEN count ELSE h
          BY <1>1, <1>2, <4>2
        <5>2. a # b
          BY <1>5, <2>2, <3>1, <3>3, <4>2, <5>1
        <5> QED BY <3>2, <5>1, <5>2
      <4> QED BY <4>1, <4>2
    <3> QED BY <1>4, <2>2, <3>1, <3>2, <3>3
  <2> QED BY <2>1, <2>2
<1> QED BY <1>1, <1>9 DEF SlotsMatch, PoolMatchesNfts, nftVars

\* The volume of one NFT changes by d, and so does the total.
LEMMA VolumeChange ==
  ASSUME TypeOK, NEW k \in Keys, NEW volume \in Nat,
         aat_volume' = [aat_volume EXCEPT ![k] = volume]
  PROVE  /\ Sum(aat_volume', NUM_KEYS) = Sum(aat_volume, NUM_KEYS) + (volume - aat_volume[k])
         /\ Sum(aat_volume, NUM_KEYS) \in Int /\ aat_volume[k] \in Nat
         /\ aat_volume'[k] = volume
         /\ \A h \in Keys : h # k => aat_volume'[h] = aat_volume[h]
<1>1. NUM_KEYS \in Nat /\ Keys = 1 .. NUM_KEYS
  BY FloorProgramAssumption DEF Keys
<1>2. \A h \in Keys : aat_volume[h] \in Nat
  BY U64Nats DEF TypeOK
<1>3. PICK d \in Int : d = volume - aat_volume[k]
  BY <1>2
<1>4. \A h \in Keys : aat_volume'[h] = IF h = k THEN volume ELSE aat_volume[h]
  BY DEF TypeOK
<1>5. /\ \A h \in 1 .. NUM_KEYS : aat_volume[h] \in Int
      /\ \A h \in 1 .. NUM_KEYS : aat_volume'[h] = IF h = k THEN aat_volume[h] + d
                                                   ELSE aat_volume[h]
  BY <1>1, <1>2, <1>3, <1>4
<1>6. k \in 1 .. NUM_KEYS
  BY <1>1
<1>7. Sum(aat_volume', NUM_KEYS) = Sum(aat_volume, NUM_KEYS) + d
  BY ONLY <1>1, <1>5, <1>6, SumUpdate, d \in Int
<1>8. Sum(aat_volume, NUM_KEYS) \in Int
  BY <1>1, <1>5, SumInt
<1> QED BY <1>2, <1>3, <1>4, <1>7, <1>8

LEMMA SlotsMint ==
  ASSUME TypeOK, SlotsMatch, NEW k \in Keys, NEW volume \in U64, mint_aat_nft(k, volume)
  PROVE  SlotsMatch'
<1>1. /\ k \notin minted /\ minted' = minted \cup {k}
      /\ aat_volume' = [aat_volume EXCEPT ![k] = volume]
      /\ total_aat_volume' = total_aat_volume + volume
      /\ UNCHANGED <<count, investors>>
  BY DEF mint_aat_nft, poolVars
<1>2. volume \in Nat /\ aat_volume[k] = 0 /\ total_aat_volume = Sum(aat_volume, NUM_KEYS)
  BY <1>1, U64Nats DEF SlotsMatch, PoolMatchesNfts
<1>3. /\ Sum(aat_volume', NUM_KEYS) = Sum(aat_volume, NUM_KEYS) + (volume - aat_volume[k])
      /\ \A h \in Keys : h # k => aat_volume'[h] = aat_volume[h]
  BY <1>1, <1>2, VolumeChange
<1>4. total_aat_volume' = Sum(aat_volume', NUM_KEYS)
  BY <1>1, <1>2, <1>3
<1>5. ASSUME NEW i \in Slots
      PROVE  IF i =< count
             THEN /\ investors[i].investor \in minted'
                  /\ investors[i].aat_volume = aat_volume'[investors[i].investor]
                  /\ \A j \in Slots : j # i => investors[j].investor # investors[i].investor
             ELSE investors[i] = NewRecord(NoKey)
  <2>1. i =< count => /\ investors[i].investor # k /\ investors[i].investor \in Keys
    BY <1>1 DEF SlotsMatch, PoolMatchesNfts, TypeOK
  <2> QED BY <1>1, <1>3, <2>1 DEF SlotsMatch, PoolMatchesNfts
<1>6. PoolMatchesNfts'
  BY <1>1, <1>4, <1>5 DEF PoolMatchesNfts
<1> QED BY <1>1, <1>3, <1>6 DEF SlotsMatch

LEMMA SlotsUpdate ==
  ASSUME TypeOK, SlotsMatch, NEW k \in Keys, NEW volume \in U64, update_aat_volume(k, volume)
  PROVE  SlotsMatch'
<1>1. /\ k \in minted /\ UNCHANGED minted
      /\ aat_volume' = [aat_volume EXCEPT ![k] = volume]
      /\ total_aat_volume' = total_aat_volume - aat_volume[k] + volume
      /\ UNCHANGED count
      /\ investors' = [i \in Slots |-> IF IsSlotOf(i, k)
                                       THEN [investors[i] EXCEPT !.aat_volume = volume]
                                       ELSE investors[i]]
  BY DEF update_aat_volume
<1>2. volume \in Nat /\ total_aat_volume = Sum(aat_volume, NUM_KEYS)
  BY U64Nats DEF SlotsMatch, PoolMatchesNfts
<1>3. /\ Sum(aat_volume', NUM_KEYS) = Sum(aat_volume, NUM_KEYS) + (volume - aat_volume[k])
      /\ \A h \in Keys : h # k => aat_volume'[h] = aat_volume[h]
      /\ aat_volume'[k] = volume
      /\ Sum(aat_volume, NUM_KEYS) \in Int /\ aat_volume[k] \in Nat
  BY <1>1, <1>2, VolumeChange
<1>4. total_aat_volume' = Sum(aat_volume', NUM_KEYS)
  BY <1>1, <1>2, <1>3
<1>5. \A i \in Slots : i =< count /\ investors[i].investor = k => IsSlotOf(i, k)
  <2>1. \A i, j \in Slots : j < i => j # i
    BY DEF Slots
  <2> QED BY <2>1 DEF IsSlotOf, SlotsMatch, PoolMatchesNfts
<1>6. \A i \in Slots : investors[i] \in InvestorRecord
  BY DEF TypeOK
<1>7. \A i \in Slots : /\ investors'[i].investor = investors[i].investor
                       /\ IsSlotOf(i, k) => investors'[i].aat_volume = volume
                       /\ ~ IsSlotOf(i, k) => investors'[i] = investors[i]
  BY <1>1, <1>6 DEF InvestorRecord
<1>8. ASSUME NEW i \in Slots
      PROVE  IF i =< count
             THEN /\ investors'[i].investor \in minted
                  /\ investors'[i].aat_volume = aat_volume'[investors'[i].investor]
                  /\ \A j \in Slots : j # i => investors'[j].investor # investors'[i].investor
             ELSE investors'[i] = NewRecord(NoKey)
  <2>1. CASE i =< count /\ investors[i].investor = k
    <3>1. IsSlotOf(i, k)
      BY <1>5, <2>1
    <3> QED BY <1>1, <1>3, <1>7, <2>1, <3>1 DEF SlotsMatch, PoolMatchesNfts
  <2>2. CASE ~ (i =< count /\ investors[i].investor = k)
    <3>1. investors'[i] = investors[i]
      BY <1>7, <2>2 DEF IsSlotOf
    <3>2. i =< count => investors[i].investor # k /\ investors[i].investor \in Keys
      BY <2>2 DEF SlotsMatch, PoolMatchesNfts, TypeOK
    <3> QED BY <1>3, <1>7, <3>1, <3>2 DEF SlotsMatch, PoolMatchesNfts
  <2> QED BY <2>1, <2>2
<1>9. PoolMatchesNfts'
  BY <1>1, <1>4, <1>8 DEF PoolMatchesNfts
<1> QED BY <1>1, <1>3, <1>9 DEF SlotsMatch

\* Every step keeps the slots and the NFTs together.
LEMMA SlotsNext ==
  TypeOK /\ Books /\ RoundCanFill /\ SlotsMatch /\ [Next]_vars => SlotsMatch'
<1> SUFFICES ASSUME TypeOK, Books, RoundCanFill, SlotsMatch, [Next]_vars PROVE SlotsMatch'
  OBVIOUS
<1> USE DEF poolVars
<1>1. UsdcAmounts \subseteq U64 /\ WalnAmounts \subseteq U64 /\ AatVolumes \subseteq U64
  BY FloorProgramAssumption
<1>2. ASSUME UNCHANGED <<poolVars, nftVars>> PROVE SlotsMatch'
  BY <1>2, SlotsSame
<1>3. ASSUME RoundStep PROVE SlotsMatch'
  <2>1. \A i \in Slots : i =< count \/ i > count
    BY DEF Slots, TypeOK
  <2> QED BY <1>3, <2>1, RoundKeeps, SlotsSame DEF Kept
<1>4. ASSUME NEW k \in Keys, NEW ts, set_investor_usdc_unlock(k, ts) PROVE SlotsMatch'
  <2>1. PICK j \in Slots : /\ j =< count
                           /\ investors' = [investors EXCEPT ![j].usdc_unlock_ts = ts]
    BY <1>4 DEF set_investor_usdc_unlock, IsSlotOf
  <2>2. UNCHANGED <<count, nftVars>>
    BY <1>4 DEF set_investor_usdc_unlock
  <2>3. \A i \in Slots : /\ investors'[i].investor = investors[i].investor
                         /\ investors'[i].aat_volume = investors[i].aat_volume
                         /\ i =< count \/ investors'[i] = investors[i]
    BY <2>1 DEF TypeOK, InvestorRecord
  <2> QED BY <2>2, <2>3, SlotsSame
<1>5. ASSUME NEW k \in Keys, NEW amount \in U64, withdraw_usdc(k, amount) PROVE SlotsMatch'
  <2>1. \A i \in Slots : /\ investors'[i].investor = investors[i].investor
                         /\ investors'[i].aat_volume = investors[i].aat_volume
                         /\ i =< count \/ investors'[i] = investors[i]
    BY <1>5, WithdrawEffect DEF Kept
  <2> QED BY <1>5, <2>1, SlotsSame DEF withdraw_usdc
<1>6. CASE AdminNext
  BY <1>1, <1>2, <1>3, <1>4, <1>6, SlotsRemove, SlotsMint, SlotsUpdate
     DEF AdminNext, RoundStep, set_floor_price, set_round_size, set_lock_period,
         set_usdc_withdraw_lock, set_sell_paused, set_frozen, SetConfig,
         fund_treasury, withdraw_treasury, close_round_record
<1>7. CASE UserNext
  BY <1>1, <1>2, <1>3, <1>5, <1>7, SlotsDeposit
     DEF UserNext, RoundStep, claim_waln, PrefundLocked, PrefundRecord
<1>8. CASE Tick \/ UNCHANGED vars
  BY <1>2, <1>8 DEF Tick, vars
<1> QED BY <1>6, <1>7, <1>8 DEF Next

LEMMA SlotsCorrect == Spec => []SlotsMatch
BY SlotsInit, SlotsNext, TypeCorrect, BooksCorrect, CanFillCorrect, PTL DEF Spec

\* The pool is an array of distinct investors followed by cleared slots, each slot
\* has the volume of its NFT, and total_aat_volume is the volume of all NFTs:
\* deposits, removals that move slots, mints, updates and settlements keep it so.
THEOREM NftsCorrect == Spec => []PoolMatchesNfts
<1>1. SlotsMatch => PoolMatchesNfts
  BY DEF SlotsMatch
<1> QED BY <1>1, SlotsCorrect, PTL

-----------------------------------------------------------------------------
\* The shares of a round

\* The statement depends on the locks, and on the volumes of the slots that have one.
LEMMA ShareSame ==
  ASSUME NEW inv, NEW new, NEW cap, LocksShare(inv, cap),
         \A i \in Slots :
           /\ new[i].usdc_locked_current_round = inv[i].usdc_locked_current_round
           /\ IsParticipant(inv, i) => new[i].aat_volume = inv[i].aat_volume
  PROVE  LocksShare(new, cap)
<1> DEFINE E == {i \in Slots : IsParticipant(inv, i)}
           F == {i \in Slots : IsParticipant(new, i)}
<1>1. F = E
  BY DEF IsParticipant
<1>2. Locks(new) = Locks(inv)
  BY DEF Locks
<1>3. SumOver(E, Volumes(new)) = SumOver(E, Volumes(inv))
  <2>1. \A i \in E : Volumes(new)[i] = Volumes(inv)[i]
    BY DEF Volumes
  <2> HIDE DEF E
  <2>2. [i \in Slots |-> IF i \in E THEN Volumes(new)[i] ELSE 0]
          = [i \in Slots |-> IF i \in E THEN Volumes(inv)[i] ELSE 0]
    BY <2>1
  <2> QED BY <2>2 DEF SumOver
<1>4. \A i \in E : required_lock(new, E, cap, i) = required_lock(inv, E, cap, i)
  BY <1>3 DEF required_lock
<1> DEFINE X(i) == inv[i].usdc_locked_current_round - required_lock(inv, E, cap, i)
           Y(i) == new[i].usdc_locked_current_round - required_lock(new, E, cap, i)
<1>5. /\ E # {}
      /\ \A i \in E : X(i) >= 0
      /\ \A i, j \in E : X(i) > 0 /\ X(j) > 0 => i = j
      /\ cap - Sum(Locks(inv), MAX_INVESTORS) \in 0 .. (Cardinality(E) - 1)
  BY DEF LocksShare
<1>6. \A i \in E : Y(i) = X(i)
  BY <1>4
<1>7. /\ E # {}
      /\ \A i \in E : Y(i) >= 0
      /\ \A i, j \in E : Y(i) > 0 /\ Y(j) > 0 => i = j
      /\ cap - Sum(Locks(new), MAX_INVESTORS) \in 0 .. (Cardinality(E) - 1)
  <2> HIDE DEF X, Y, E
  <2> QED BY <1>2, <1>5, <1>6
<1> HIDE DEF E
<1>8. F = E /\ F = {i \in Slots : IsParticipant(new, i)}
  BY <1>1
<1> QED BY <1>7, <1>8 DEF LocksShare

\* Slot c moves to slot j, which has no lock, and is cleared.
LEMMA ShareMoved ==
  ASSUME NEW inv \in PoolType, NEW new, NEW cap, LocksShare(inv, cap),
         NEW j \in Slots, NEW c \in Slots,
         inv[j].usdc_locked_current_round = 0,
         new[c].usdc_locked_current_round = 0,
         \A i \in Slots : i # c => new[i] = IF i = j THEN inv[c] ELSE inv[i]
  PROVE  LocksShare(new, cap)
<1> DEFINE E == {i \in Slots : IsParticipant(inv, i)}
           F == {i \in Slots : IsParticipant(new, i)}
           a(i) == IF i = j THEN c ELSE i
           M == MAX_INVESTORS
<1>1. M \in Nat /\ Slots = 1 .. M
  BY RoundMathAssumption DEF Slots
<1>2. \A i \in Slots : inv[i].usdc_locked_current_round \in Nat /\ inv[i].aat_volume \in Nat
  BY PoolTypeNats DEF PoolOfNats
<1>3. \A i \in Slots : i \in F <=> i # c /\ a(i) \in E
  BY <1>2 DEF IsParticipant
<1>4. j \notin E /\ E \in SUBSET Slots /\ F \in SUBSET Slots
  BY DEF IsParticipant
<1>5. \A i \in F : new[i] = inv[a(i)] /\ a(i) \in E /\ i # c
  BY <1>3
<1>6. ASSUME NEW f, NEW g, \A i \in Slots : f[i] \in Int, f[j] = 0,
             \A i \in Slots : g[i] = IF i = c THEN 0 ELSE f[a(i)]
      PROVE  Sum(g, M) = Sum(f, M)
  <2>1. \A i \in 1 .. M : g[i] = IF i = c THEN 0 ELSE IF i = j THEN f[c] ELSE f[i]
    BY <1>1, <1>6
  <2>2. Sum(g, M) = Sum(f, M) - f[j]
    BY <1>1, <1>6, <2>1, SumSwapRemove
  <2>3. Sum(f, M) \in Int
    BY <1>1, <1>6, SumInt
  <2> QED BY <1>6, <2>2, <2>3
<1> DEFINE v == [i \in Slots |-> IF i \in E THEN Volumes(inv)[i] ELSE 0]
           w == [i \in Slots |-> IF i \in F THEN Volumes(new)[i] ELSE 0]
<1>7. SumOver(F, Volumes(new)) = SumOver(E, Volumes(inv))
  <2>1. \A i \in Slots : v[i] \in Int
    BY <1>2 DEF Volumes
  <2>2. v[j] = 0
    BY <1>4
  <2>3. ASSUME NEW i \in Slots PROVE w[i] = IF i = c THEN 0 ELSE v[a(i)]
    <3>1. CASE i \in F
      BY <1>5, <3>1 DEF Volumes
    <3>2. CASE i \notin F
      BY <1>3, <3>2
    <3> QED BY <3>1, <3>2
  <2> HIDE DEF v, w, a
  <2>4. Sum(w, M) = Sum(v, M)
    BY <1>6, <2>1, <2>2, <2>3
  <2> QED BY <2>4 DEF SumOver, v, w
<1>8. Cardinality(F) = Cardinality(E)
  <2>1. \A i \in Slots : Indicator(E)[i] \in Int
    BY DEF Indicator
  <2>2. Indicator(E)[j] = 0
    BY <1>4 DEF Indicator
  <2>3. \A i \in Slots : Indicator(F)[i] = IF i = c THEN 0 ELSE Indicator(E)[a(i)]
    BY <1>3 DEF Indicator
  <2> HIDE DEF E, F, a
  <2>4. Sum(Indicator(F), M) = Sum(Indicator(E), M)
    BY <1>6, <2>1, <2>2, <2>3
  <2> QED BY <1>4, <2>4, CardSum
<1>9. Sum(Locks(new), M) = Sum(Locks(inv), M)
  <2>1. \A i \in Slots : Locks(inv)[i] \in Int
    BY <1>2 DEF Locks
  <2>2. Locks(inv)[j] = 0
    BY DEF Locks
  <2>3. \A i \in Slots : Locks(new)[i] = IF i = c THEN 0 ELSE Locks(inv)[a(i)]
    BY DEF Locks
  <2> HIDE DEF a
  <2> QED BY <1>6, <2>1, <2>2, <2>3
<1> DEFINE X(i) == inv[i].usdc_locked_current_round - required_lock(inv, E, cap, i)
           Y(i) == new[i].usdc_locked_current_round - required_lock(new, F, cap, i)
<1>10. \A i \in F : Y(i) = X(a(i))
  BY <1>5, <1>7 DEF required_lock
<1>11. /\ E # {}
       /\ \A i \in E : X(i) >= 0
       /\ \A i, h \in E : X(i) > 0 /\ X(h) > 0 => i = h
       /\ cap - Sum(Locks(inv), M) \in 0 .. (Cardinality(E) - 1)
  BY DEF LocksShare
<1>12. F # {}
  <2>1. PICK e \in E : e \in Slots /\ e # j
    BY <1>4, <1>11
  <2>2. CASE e = c
    <3>1. j # c /\ a(j) = c
      BY <2>1, <2>2
    <3> QED BY <1>3, <2>1, <2>2, <3>1
  <2>3. CASE e # c
    <3>1. a(e) = e
      BY <2>1
    <3> QED BY <1>3, <2>1, <2>3, <3>1
  <2> QED BY <2>2, <2>3
<1>13. \A i, h \in F : a(i) = a(h) => i = h
  BY <1>5
<1> HIDE DEF E, F, X, Y, a
<1>14. /\ F # {}
       /\ \A i \in F : Y(i) >= 0
       /\ \A i, h \in F : Y(i) > 0 /\ Y(h) > 0 => i = h
       /\ cap - Sum(Locks(new), M) \in 0 .. (Cardinality(F) - 1)
  BY <1>5, <1>8, <1>9, <1>10, <1>11, <1>12, <1>13
<1> QED BY <1>14 DEF LocksShare, F, Y

\* A round that starts when nothing is locked locks shares of its cap.
LEMMA ShareStart ==
  ASSUME NEW inv \in PoolType, NEW cnt, NEW size \in U64, NEW price \in U64,
         RoundCanStart(inv, cnt, size, price),
         \A i \in Slots : inv[i].usdc_locked_current_round = 0
  PROVE  LocksShare(execute_round_start(inv, cnt, size, price), round_cap_usdc(size, price))
<1> DEFINE cap   == round_cap_usdc(size, price)
           P     == Participants(inv, cnt, cap)
           locks == NewLocks(inv, cnt, size, price)
           new   == execute_round_start(inv, cnt, size, price)
<1>1. size \in Nat /\ price \in Nat /\ PoolOfNats(inv)
  BY U64Nats, PoolTypeNats
<1>2. /\ P \in SUBSET Slots /\ P # {}
      /\ \A i \in Slots : /\ locks[i] \in Nat
                          /\ locks[i] > 0 <=> i \in P
                          /\ required_lock(inv, P, cap, i) \in Nat
      /\ \A i \in P : locks[i] >= required_lock(inv, P, cap, i)
      /\ \A i, j \in P : /\ locks[i] > required_lock(inv, P, cap, i)
                         /\ locks[j] > required_lock(inv, P, cap, j)
                         => i = j
      /\ cap - Sum(locks, MAX_INVESTORS) \in 0 .. (Cardinality(P) - 1)
  BY <1>1, NewLocksShare
<1>3. \A i \in Slots : /\ new[i].aat_volume = inv[i].aat_volume
                       /\ new[i].usdc_locked_current_round =
                            IF locks[i] > 0 THEN locks[i] ELSE 0
  BY StartKeeps, StartSlot DEF Kept
<1>4. Sum(Locks(new), MAX_INVESTORS) = Sum(locks, MAX_INVESTORS)
  BY StartSums
<1> HIDE DEF cap, P, locks, new
<1>5. \A i \in Slots : new[i].usdc_locked_current_round = locks[i]
  BY <1>2, <1>3
<1>6. {i \in Slots : IsParticipant(new, i)} = P
  BY <1>2, <1>5 DEF IsParticipant
<1>7. Volumes(new) = Volumes(inv)
  BY <1>3 DEF Volumes
<1> DEFINE Y(i) == new[i].usdc_locked_current_round - required_lock(new, P, cap, i)
<1>8. \A i \in P : /\ required_lock(new, P, cap, i) = required_lock(inv, P, cap, i)
                   /\ Y(i) = locks[i] - required_lock(inv, P, cap, i)
  BY <1>2, <1>3, <1>5, <1>7 DEF required_lock
<1>9. /\ \A i \in P : Y(i) >= 0
      /\ \A i \in P : Y(i) > 0 => locks[i] > required_lock(inv, P, cap, i)
  <2> HIDE DEF Y
  <2> QED BY <1>2, <1>8
<1>10. \A i, j \in P : Y(i) > 0 /\ Y(j) > 0 => i = j
  BY <1>2, <1>9
<1> HIDE DEF Y
<1>11. LocksShare(new, cap)
  BY <1>2, <1>4, <1>6, <1>9, <1>10 DEF LocksShare, Y
<1> QED BY <1>11 DEF new, cap

-----------------------------------------------------------------------------
\* The locks of a round in progress are shares of its cap

\* The round that a sale runs in has pro-rata locks, also when the sale starts it.
LEMMA OpenShare ==
  ASSUME TypeOK, Books, ProRata, NEW max \in U64, Sale(max)
  PROVE  LocksShare(OpenPool, round_cap_usdc(RoundSize, RoundPrice))
<1>1. CASE round.started
  <2>1. OpenPool = investors /\ RoundSize = round.size_waln /\ RoundPrice = round.floor_price
    BY <1>1 DEF OpenPool, RoundSize, RoundPrice
  <2>2. LocksShare(investors, round_cap_usdc(round.size_waln, round.floor_price))
    BY <1>1 DEF ProRata, LocksShare
  <2> QED BY <2>1, <2>2
<1>2. CASE ~ round.started
  <2>1. /\ OpenPool = execute_round_start(investors, count, RoundSize, RoundPrice)
        /\ RoundCanStart(investors, count, RoundSize, RoundPrice)
    BY <1>2 DEF OpenPool, Sale
  <2>2. investors \in PoolType /\ RoundSize \in U64 /\ RoundPrice \in U64
    BY OpenType DEF TypeOK, PoolType
  <2>3. \A i \in Slots : investors[i].usdc_locked_current_round = 0
    BY <1>2, <2>2, PoolTypeNats DEF Books, LocksMatchRound, IsParticipant, PoolOfNats
  <2> QED BY <2>1, <2>2, <2>3, ShareStart
<1> QED BY <1>1, <1>2

\* The slots' locks, and the volumes of the slots that have one, decide ProRata.
LEMMA ProRataSame ==
  ASSUME ProRata, UNCHANGED round,
         round.started => \A i \in Slots :
           /\ investors'[i].usdc_locked_current_round
                = investors[i].usdc_locked_current_round
           /\ IsParticipant(investors, i) =>
                investors'[i].aat_volume = investors[i].aat_volume
  PROVE  ProRata'
<1> SUFFICES ASSUME round.started PROVE ProRata'
  BY DEF ProRata
<1>1. LocksShare(investors, round_cap_usdc(round.size_waln, round.floor_price))
  BY DEF ProRata, LocksShare
<1>2. LocksShare(investors', round_cap_usdc(round.size_waln, round.floor_price))
  BY <1>1, ShareSame
<1> QED BY <1>2 DEF ProRata, LocksShare

LEMMA ProRataRemove ==
  ASSUME TypeOK, ProRata, NEW k \in Keys, remove_investor_from_pool(k)
  PROVE  ProRata'
<1> SUFFICES ASSUME round.started PROVE ProRata'
  BY DEF ProRata, remove_investor_from_pool
<1>1. UNCHANGED round
  BY DEF remove_investor_from_pool
<1>2. LocksShare(investors, round_cap_usdc(round.size_waln, round.floor_price))
  BY DEF ProRata, LocksShare
<1>3. count \in Slots /\ investors \in PoolType
  BY RemoveEffect DEF TypeOK, PoolType
<1>4. PICK j \in Slots :
        /\ investors[j].usdc_locked_current_round = 0
        /\ \A i \in Slots : investors'[i] = IF i = count THEN NewRecord(NoKey)
                                            ELSE IF i = j THEN investors[count]
                                            ELSE investors[i]
  BY RemoveEffect
<1>5. investors'[count].usdc_locked_current_round = 0
  BY <1>3, <1>4 DEF NewRecord
<1>6. \A i \in Slots : i # count =>
        investors'[i] = IF i = j THEN investors[count] ELSE investors[i]
  BY <1>4
<1>7. LocksShare(investors', round_cap_usdc(round.size_waln, round.floor_price))
  BY <1>2, <1>3, <1>4, <1>5, <1>6, ShareMoved
<1> QED BY <1>1, <1>7 DEF ProRata, LocksShare

LEMMA ProRataSell ==
  ASSUME TypeOK, Books, ProRata, NEW max \in U64, sell_waln(max)
  PROVE  ProRata'
<1>1. /\ Sale(max) /\ round'.size_waln = RoundSize /\ round'.floor_price = RoundPrice
  BY SoldRound
<1>2. investors' = OpenPool
  BY DEF sell_waln
<1>3. LocksShare(investors', round_cap_usdc(round'.size_waln, round'.floor_price))
  BY <1>1, <1>2, OpenShare
<1> QED BY <1>3 DEF ProRata, LocksShare

LEMMA ProRataFill ==
  ASSUME TypeOK, Books, NEW max \in U64, sell_waln_filling(max)
  PROVE  ProRata'
<1> SUFFICES ASSUME round'.started PROVE ProRata'
  BY DEF ProRata
<1> DEFINE size  == config.round_size_waln
           price == config.floor_price_usdc
<1>1. PICK filled \in PoolType :
        /\ \A i \in Slots : filled[i].usdc_locked_current_round = 0
        /\ RoundCanStart(filled, count, size, price)
        /\ investors' = execute_round_start(filled, count, size, price)
  BY NextRound
<1>2. /\ size \in U64 /\ price \in U64
      /\ round'.size_waln = size /\ round'.floor_price = price
  BY NextRound
<1> HIDE DEF size, price
<1>3. LocksShare(investors', round_cap_usdc(round'.size_waln, round'.floor_price))
  BY <1>1, <1>2, ShareStart
<1> QED BY <1>3 DEF ProRata, LocksShare

LEMMA ProRataNext ==
  TypeOK /\ Books /\ SlotsMatch /\ ProRata /\ [Next]_vars => ProRata'
<1> SUFFICES ASSUME TypeOK, Books, SlotsMatch, ProRata, [Next]_vars PROVE ProRata'
  OBVIOUS
<1> USE DEF poolVars
<1>1. /\ UsdcAmounts \subseteq U64 /\ WalnAmounts \subseteq U64 /\ AatVolumes \subseteq U64
      /\ \A i \in Slots : investors[i] \in InvestorRecord
  BY FloorProgramAssumption DEF TypeOK
<1>2. ASSUME UNCHANGED <<round, investors>> PROVE ProRata'
  BY <1>2, ProRataSame
<1>3. CASE cancel_round \/ close_round
  BY <1>3, EndedRound DEF ProRata
<1>4. ASSUME NEW k \in Keys, NEW ts, set_investor_usdc_unlock(k, ts) PROVE ProRata'
  <2>1. PICK j \in Slots : investors' = [investors EXCEPT ![j].usdc_unlock_ts = ts]
    BY <1>4 DEF set_investor_usdc_unlock
  <2>2. \A i \in Slots : /\ investors'[i].aat_volume = investors[i].aat_volume
                         /\ investors'[i].usdc_locked_current_round
                              = investors[i].usdc_locked_current_round
    BY <1>1, <2>1 DEF TypeOK, InvestorRecord
  <2> QED BY <1>4, <2>2, ProRataSame DEF set_investor_usdc_unlock
<1>5. ASSUME NEW k \in Keys, NEW volume \in U64,
             mint_aat_nft(k, volume) \/ update_aat_volume(k, volume)
      PROVE  ProRata'
  BY <1>5, ProRataSame DEF mint_aat_nft, update_aat_volume
<1>6. ASSUME NEW k \in Keys, NEW amount \in U64, deposit_usdc(k, amount) PROVE ProRata'
  <2>1. PICK j \in Slots :
          /\ \A i \in Slots : i # j => investors'[i] = investors[i]
          /\ investors'[j].usdc_locked_current_round
               = investors[j].usdc_locked_current_round
          /\ investors'[j].aat_volume = aat_volume[k]
          /\ \/ investors[j].aat_volume = aat_volume[k]
             \/ investors[j] = NewRecord(NoKey)
    BY <1>6, DepositEffect
  <2>2. ~ IsParticipant(investors, j) \/ investors[j].aat_volume = aat_volume[k]
    BY <2>1 DEF IsParticipant, NewRecord
  <2>3. \A i \in Slots : /\ investors'[i].usdc_locked_current_round
                              = investors[i].usdc_locked_current_round
                         /\ IsParticipant(investors, i) =>
                              investors'[i].aat_volume = investors[i].aat_volume
    BY <2>1, <2>2
  <2> QED BY <1>6, <2>3, ProRataSame DEF deposit_usdc
<1>7. ASSUME NEW k \in Keys, NEW amount \in U64, withdraw_usdc(k, amount) PROVE ProRata'
  <2>1. \A i \in Slots : /\ investors'[i].usdc_locked_current_round
                              = investors[i].usdc_locked_current_round
                         /\ investors'[i].aat_volume = investors[i].aat_volume
    BY <1>7, WithdrawEffect DEF Kept
  <2> QED BY <1>7, <2>1, ProRataSame DEF withdraw_usdc
<1>8. CASE AdminNext
  BY <1>1, <1>2, <1>3, <1>4, <1>5, <1>8, ProRataRemove
     DEF AdminNext, set_floor_price, set_round_size, set_lock_period,
         set_usdc_withdraw_lock, set_sell_paused, set_frozen, SetConfig,
         fund_treasury, withdraw_treasury, close_round_record
<1>9. CASE UserNext
  BY <1>1, <1>2, <1>6, <1>7, <1>9, ProRataSell, ProRataFill
     DEF UserNext, claim_waln, PrefundLocked, PrefundRecord
<1>10. CASE Tick \/ UNCHANGED vars
  BY <1>2, <1>10 DEF Tick, vars
<1> QED BY <1>8, <1>9, <1>10 DEF Next

\* At every moment of a round each participant has its pro-rata share of the cap
\* locked, for the volume it has now, one of them at most with the rounding gap on
\* top, and less than one unit per participant of the cap is missing: deposits,
\* withdrawals, removals that move slots, setters and sales do not shift it.
THEOREM ProRataCorrect == Spec => []ProRata
<1>1. Init => ProRata
  BY DEF Init, ProRata
<1> QED BY <1>1, ProRataNext, TypeCorrect, BooksCorrect, SlotsCorrect, PTL DEF Spec

-----------------------------------------------------------------------------
\* What the sellers were paid, and what the vault holds

\* The payments of a round never exceed the value of the wALN it took: every sale
\* rounds its payment down.
PaidFits ==
  round.started => round.usdc_spent =< UsdcFor(round.waln, round.floor_price)

\* With the payment of one more sale.
LEMMA PaidWithSale ==
  ASSUME TypeOK, Books, PaidFits, NEW max \in U64, Sale(max)
  PROVE  round.usdc_spent + usdc_out(max) =< UsdcFor(RoundWaln + waln_amount(max), RoundPrice)
<1>1. /\ RoundPrice \in Nat /\ RoundWaln \in Nat /\ round.usdc_spent \in Nat
      /\ waln_amount(max) \in Nat /\ usdc_out(max) \in Nat
  BY OpenFields
<1>2. round.usdc_spent =< UsdcFor(RoundWaln, RoundPrice)
  <2>1. CASE round.started
    BY <2>1 DEF PaidFits, RoundWaln, RoundPrice
  <2>2. CASE ~ round.started
    <3>1. round.usdc_spent = 0 /\ RoundWaln = 0
      BY <2>2 DEF Books, LocksMatchRound, RoundWaln
    <3>2. UsdcFor(0, RoundPrice) = 0
      BY <1>1, UsdcForZero
    <3> QED BY <3>1, <3>2
  <2> QED BY <2>1, <2>2
<1>3. UsdcFor(RoundWaln, RoundPrice) + UsdcFor(waln_amount(max), RoundPrice)
        =< UsdcFor(RoundWaln + waln_amount(max), RoundPrice)
  BY <1>1, UsdcForAdd
<1>4. RoundWaln + waln_amount(max) \in Nat
  BY <1>1
<1>5. /\ UsdcFor(RoundWaln, RoundPrice) \in Nat
      /\ UsdcFor(RoundWaln + waln_amount(max), RoundPrice) \in Nat
  BY <1>1, <1>4, UsdcForNat
<1>6. usdc_out(max) = UsdcFor(waln_amount(max), RoundPrice)
  BY DEF usdc_out
<1> QED BY <1>1, <1>2, <1>3, <1>5, <1>6

LEMMA PaidNext == TypeOK /\ Books /\ PaidFits /\ [Next]_vars => PaidFits'
<1> SUFFICES ASSUME TypeOK, Books, PaidFits, [Next]_vars PROVE PaidFits'
  OBVIOUS
<1>1. CASE UNCHANGED <<round, round_count>>
  BY <1>1 DEF PaidFits
<1>2. CASE cancel_round \/ close_round
  BY <1>2, EndedRound DEF PaidFits
<1>3. ASSUME NEW max \in U64, sell_waln(max) PROVE PaidFits'
  <2>1. /\ Sale(max) /\ round'.waln = RoundWaln + waln_amount(max)
        /\ round'.usdc_spent = round.usdc_spent + usdc_out(max)
        /\ round'.floor_price = RoundPrice
    BY <1>3, SoldRound
  <2> QED BY <2>1, PaidWithSale DEF PaidFits
<1>4. ASSUME NEW max \in U64, sell_waln_filling(max), round'.started PROVE PaidFits'
  <2>1. /\ round'.waln = 0 /\ round'.usdc_spent = 0
        /\ round'.floor_price = config.floor_price_usdc /\ config.floor_price_usdc \in U64
    BY <1>4, NextRound
  <2>2. UsdcFor(0, config.floor_price_usdc) = 0
    BY <2>1, UsdcForZero, U64Nats
  <2>3. round'.usdc_spent =< UsdcFor(round'.waln, round'.floor_price)
    BY <2>1, <2>2
  <2> QED BY <2>3 DEF PaidFits
<1>5. ASSUME ~ round'.started PROVE PaidFits'
  BY <1>5 DEF PaidFits
<1> QED BY <1>1, <1>2, <1>3, <1>4, <1>5, RoundSteps

LEMMA PaidCorrect == Spec => []PaidFits
<1>1. Init => PaidFits
  BY DEF Init, PaidFits
<1> QED BY <1>1, PaidNext, TypeCorrect, BooksCorrect, PTL DEF Spec

\* The locks of a round are worth at most the round's size.
LEMMA LocksBuy ==
  ASSUME NEW inv \in PoolType, NEW size \in Nat, NEW price \in Nat, price > 0,
         LocksShare(inv, round_cap_usdc(size, price))
  PROVE  /\ Sum(base_waln(inv, price), MAX_INVESTORS) =< size
         /\ Sum(Locks(inv), MAX_INVESTORS) \in Nat
         /\ Sum(Locks(inv), MAX_INVESTORS) =< UsdcFor(size, price)
         /\ UsdcFor(size, price) =< Sum(Locks(inv), MAX_INVESTORS) + (MAX_INVESTORS - 1)
<1> DEFINE E == {i \in Slots : IsParticipant(inv, i)}
           L == Sum(Locks(inv), MAX_INVESTORS)
           B == Sum(base_waln(inv, price), MAX_INVESTORS)
<1>1. L \in Nat /\ \A i \in 1 .. MAX_INVESTORS : Locks(inv)[i] \in Nat
  BY PoolSums
<1>2. UsdcFor(size, price) \in Nat /\ MAX_INVESTORS \in Nat
  BY UsdcForNat, RoundMathAssumption
<1>3. UsdcFor(size, price) - L \in 0 .. (Cardinality(E) - 1)
  BY DEF LocksShare, round_cap_usdc
<1>4. Cardinality(E) \in 0 .. MAX_INVESTORS
  <2>1. E \in SUBSET Slots
    OBVIOUS
  <2> QED BY <2>1, SlotSets
<1>5. \A i \in 1 .. MAX_INVESTORS : base_waln(inv, price)[i] = WalnFor(Locks(inv)[i], price)
  BY DEF base_waln, Locks, Slots
<1>6. B =< WalnFor(L, price)
  BY <1>1, <1>2, <1>5, SumWalnFor
<1>7. B \in Nat /\ WalnFor(L, price) \in Nat
  BY <1>1, BaseWalnNat, WalnForNat
<1> HIDE DEF E, L, B
<1>8. L =< UsdcFor(size, price) /\ UsdcFor(size, price) =< L + (MAX_INVESTORS - 1)
  BY <1>1, <1>2, <1>3, <1>4
<1>9. WalnFor(L, price) =< size
  BY <1>1, <1>8, WalnWithinSize
<1>10. B =< size
  BY <1>6, <1>7, <1>9
<1> QED BY <1>1, <1>8, <1>10 DEF L, B

\* Filling a round cannot fail for its arithmetic: the locks buy at most what the
\* round holds, so that the checked subtraction of the carried dust succeeds, and
\* the sellers were paid at most what the wALN they sold is worth.
THEOREM SettlementCorrect == Spec => []SettlementFits
<1>1. ASSUME TypeOK, RoundCanFill, ProRata, PaidFits PROVE SettlementFits
  <2> SUFFICES ASSUME round.started PROVE SettlementFits
    BY DEF SettlementFits
  <2>1. /\ round.floor_price \in Nat /\ round.floor_price > 0 /\ round.size_waln \in Nat
        /\ investors \in PoolType
    BY <1>1, PricePositive DEF TypeOK, PoolType
  <2>2. LocksShare(investors, round_cap_usdc(round.size_waln, round.floor_price))
    BY <1>1 DEF ProRata, LocksShare
  <2>3. Sum(base_waln(investors, round.floor_price), MAX_INVESTORS) =< round.size_waln
    BY <2>1, <2>2, LocksBuy
  <2> QED BY <1>1, <2>3 DEF SettlementFits, PaidFits
<1>2. TypeOK /\ RoundCanFill /\ ProRata /\ PaidFits => SettlementFits
  BY <1>1
<1> QED BY <1>2, TypeCorrect, CanFillCorrect, ProRataCorrect, PaidCorrect, PTL

-----------------------------------------------------------------------------
\* Solvency

LEMMA BalanceNats ==
  ASSUME TypeOK
  PROVE  /\ total_usdc_in_lobby \in Nat /\ usdc_vault \in Nat /\ waln_vault \in Nat
         /\ round_count \in Nat /\ waln_dust_carryover \in Nat
         /\ round.usdc_spent \in Nat /\ round.waln \in Nat
<1>1. USDC_SUPPLY \in Nat /\ WALN_SUPPLY \in Nat /\ MaxRounds \in Nat
  BY FloorProgramAssumption, U64Nats
<1>2. round.usdc_spent \in U64 /\ round.waln \in U64
  BY DEF TypeOK, RoundType
<1>3. total_usdc_in_lobby \in U64 /\ waln_dust_carryover \in U64
  BY DEF TypeOK
<1>4. usdc_vault \in Nat /\ waln_vault \in Nat /\ round_count \in Nat
  BY <1>1 DEF TypeOK
<1> QED BY <1>2, <1>3, <1>4, U64Nats

\* Outside rounds, what enters or leaves the vault is what the investors' total
\* gains or loses.
LEMMA VaultSteps ==
  ASSUME TypeOK, SlotsMatch, [Next]_vars, ~ RoundStep
  PROVE  /\ UNCHANGED <<round, round_count>>
         /\ total_usdc_in_lobby' - usdc_vault' = total_usdc_in_lobby - usdc_vault
<1> USE DEF poolVars, nftVars, claimVars
<1>1. /\ UsdcAmounts \subseteq U64 /\ total_usdc_in_lobby \in Nat /\ usdc_vault \in Nat
      /\ \A i \in Slots : investors[i].usdc_deposited \in Nat
  BY FloorProgramAssumption, U64Nats DEF TypeOK, InvestorRecord
<1>2. UNCHANGED <<round, round_count>>
  BY RoundSteps DEF RoundStep
<1> DEFINE Same == total_usdc_in_lobby' - usdc_vault' = total_usdc_in_lobby - usdc_vault
<1>3. ASSUME NEW k \in Keys, NEW amount \in U64, deposit_usdc(k, amount) PROVE Same
  BY <1>1, <1>3, U64Nats DEF deposit_usdc
<1>4. ASSUME NEW k \in Keys, NEW amount \in U64, withdraw_usdc(k, amount) PROVE Same
  BY <1>1, <1>4, WithdrawEffect
<1>5. ASSUME NEW k \in Keys, remove_investor_from_pool(k) PROVE Same
  BY <1>1, <1>5, RemoveEffect
<1>6. ASSUME UNCHANGED <<total_usdc_in_lobby, usdc_vault>> PROVE Same
  BY <1>6
<1> SUFFICES Same
  BY <1>2
<1> HIDE DEF Same
<1>7. ASSUME NEW max \in WalnAmounts PROVE max \in U64
  BY FloorProgramAssumption
<1>8. CASE AdminNext
  BY <1>5, <1>6, <1>8 DEF AdminNext, RoundStep, set_floor_price, set_round_size,
     set_lock_period, set_usdc_withdraw_lock, set_sell_paused, set_frozen, SetConfig,
     set_investor_usdc_unlock, mint_aat_nft, update_aat_volume, fund_treasury,
     withdraw_treasury, close_round_record
<1>9. CASE UserNext
  BY <1>1, <1>3, <1>4, <1>6, <1>7, <1>9 DEF UserNext, RoundStep, claim_waln,
     PrefundLocked, PrefundRecord
<1>10. CASE Tick \/ UNCHANGED vars
  BY <1>6, <1>10 DEF Tick, vars
<1> QED BY <1>8, <1>9, <1>10 DEF Next

LEMMA SolventFill ==
  ASSUME TypeOK, Books, ProRata, PaidFits, Solvent,
         NEW max \in U64, sell_waln_filling(max)
  PROVE  Solvent'
<1> DEFINE L == Sum(Locks(OpenPool), MAX_INVESTORS)
           M == MAX_INVESTORS - 1
           cap == UsdcFor(RoundSize, RoundPrice)
           lost == round_count * M
<1>1. /\ Sale(max) /\ RoundWaln + waln_amount(max) = RoundSize
      /\ OpenPool \in PoolType /\ round'.usdc_spent = 0
  BY NextRound
<1>2. /\ RoundSize \in Nat /\ RoundPrice \in Nat /\ RoundPrice > 0
      /\ round.usdc_spent \in Nat /\ usdc_out(max) \in Nat
  BY <1>1, OpenFields
<1>3. round.usdc_spent + usdc_out(max) =< cap
  BY <1>1, PaidWithSale
<1>4. LocksShare(OpenPool, round_cap_usdc(RoundSize, RoundPrice))
  BY <1>1, OpenShare
<1>5. L \in Nat /\ cap =< L + M
  BY <1>1, <1>2, <1>4, LocksBuy
<1>6. cap \in Nat
  BY <1>2, UsdcForNat
<1>7. /\ total_usdc_in_lobby' = total_usdc_in_lobby - L
      /\ usdc_vault' = usdc_vault - usdc_out(max)
      /\ round_count' = round_count + 1
  BY DEF sell_waln_filling, FinishRound, SettleAccounts, Sale
<1>8. /\ total_usdc_in_lobby \in Nat /\ usdc_vault \in Nat /\ round_count \in Nat
      /\ M \in Nat
  BY BalanceNats, RoundMathAssumption
<1> HIDE DEF L, M, cap
<1>9. (round_count + 1) * M = lost + M /\ lost \in Nat
  BY <1>8
<1>10. total_usdc_in_lobby =< usdc_vault + round.usdc_spent + lost
  BY DEF Solvent, M
<1> HIDE DEF lost
<1>11. total_usdc_in_lobby' =< usdc_vault' + 0 + (lost + M)
  BY <1>2, <1>3, <1>5, <1>6, <1>7, <1>8, <1>9, <1>10
<1> QED BY <1>1, <1>7, <1>9, <1>11 DEF Solvent, M

LEMMA SolventNext ==
  TypeOK /\ Books /\ RoundCanFill /\ SlotsMatch /\ ProRata /\ PaidFits /\ Solvent
    /\ [Next]_vars => Solvent'
<1> SUFFICES ASSUME TypeOK, Books, RoundCanFill, SlotsMatch, ProRata, PaidFits, Solvent,
                    [Next]_vars
             PROVE  Solvent'
  OBVIOUS
<1> DEFINE M == MAX_INVESTORS - 1
           lost == round_count * M
<1>1. /\ total_usdc_in_lobby \in Nat /\ usdc_vault \in Nat /\ round_count \in Nat
      /\ M \in Nat /\ round.usdc_spent \in Nat
  BY BalanceNats, RoundMathAssumption
<1>2. lost \in Nat
  <2> HIDE DEF M
  <2> QED BY <1>1
<1>3. total_usdc_in_lobby =< usdc_vault + round.usdc_spent + lost
  BY DEF Solvent
<1> HIDE DEF lost
<1>4. CASE ~ RoundStep
  <2>1. /\ UNCHANGED <<round, round_count>>
        /\ total_usdc_in_lobby' - usdc_vault' = total_usdc_in_lobby - usdc_vault
    BY <1>4, VaultSteps
  <2>2. total_usdc_in_lobby' \in Nat /\ usdc_vault' \in Nat
    <3>1. TypeOK'
      BY TypeNext
    <3> QED BY <3>1, U64Nats, FloorProgramAssumption DEF TypeOK
  <2> HIDE DEF M
  <2>3. \A a, b, c, d, x, y \in Nat : c - d = a - b /\ a =< b + x + y => c =< d + x + y
    OBVIOUS
  <2>4. total_usdc_in_lobby' =< usdc_vault' + round.usdc_spent + lost
    BY <1>1, <1>2, <1>3, <2>1, <2>2, <2>3
  <2> QED BY <2>1, <2>4 DEF Solvent, lost, M
<1>5. CASE cancel_round
  <2>1. UNCHANGED <<total_usdc_in_lobby, usdc_vault, round_count>> /\ round'.usdc_spent = 0
    BY <1>5, EndedRound DEF cancel_round
  <2>2. round.usdc_spent = 0
    <3>1. round.started /\ round.waln = 0
      BY <1>5 DEF cancel_round
    <3>2. UsdcFor(0, round.floor_price) = 0
      BY UsdcForZero, U64Nats DEF TypeOK, RoundType
    <3> QED BY <1>1, <3>1, <3>2 DEF PaidFits
  <2> QED BY <2>1, <2>2 DEF Solvent
<1>6. CASE close_round
  <2>1. /\ total_usdc_in_lobby' = total_usdc_in_lobby - round.usdc_spent
        /\ round_count' = round_count + 1 /\ UNCHANGED usdc_vault
        /\ round'.usdc_spent = 0
    BY <1>6, CloseFacts, EndedRound
  <2> HIDE DEF M
  <2>2. total_usdc_in_lobby' =< usdc_vault + 0 + (lost + M)
    BY <1>1, <1>2, <1>3, <2>1
  <2>3. (round_count + 1) * M = lost + M
    BY <1>1 DEF lost
  <2> QED BY <2>1, <2>2, <2>3 DEF Solvent, M
<1>7. ASSUME NEW max \in U64, sell_waln(max) PROVE Solvent'
  <2>1. /\ Sale(max) /\ round'.usdc_spent = round.usdc_spent + usdc_out(max)
    BY <1>7, SoldRound
  <2>2. /\ UNCHANGED <<total_usdc_in_lobby, round_count>>
        /\ usdc_vault' = usdc_vault - usdc_out(max)
    BY <1>7 DEF sell_waln, Sale
  <2>3. usdc_out(max) \in Nat
    BY <2>1, OpenFields
  <2>4. total_usdc_in_lobby =< (usdc_vault - usdc_out(max))
                                 + (round.usdc_spent + usdc_out(max)) + lost
    BY <1>1, <1>2, <1>3, <2>3
  <2> QED BY <2>1, <2>2, <2>4 DEF Solvent, lost
<1> QED BY <1>4, <1>5, <1>6, <1>7, SolventFill DEF RoundStep

\* The vault covers what the investors own, but for less than one unit per slot
\* and settled round: no order of deposits, withdrawals, removals, sales and
\* settlements loses more.
THEOREM SolventCorrect == Spec => []Solvent
<1>1. Init => Solvent
  <2> SUFFICES ASSUME Init PROVE Solvent
    OBVIOUS
  <2>1. /\ total_usdc_in_lobby = 0 /\ usdc_vault = 0 /\ round_count = 0
        /\ round.usdc_spent = 0
    BY DEF Init
  <2>2. 0 * (MAX_INVESTORS - 1) = 0
    BY RoundMathAssumption
  <2> QED BY <2>1, <2>2 DEF Solvent
<1> QED BY <1>1, SolventNext, TypeCorrect, BooksCorrect, CanFillCorrect, SlotsCorrect,
        ProRataCorrect, PaidCorrect, PTL DEF Spec

-----------------------------------------------------------------------------
\* What a key has in the pool, wherever its slot is

\* The instructions that change what a slot holds, or whose it is.
LEMMA SlotSteps ==
  ASSUME TypeOK, [Next]_vars
  PROVE  \/ RoundStep
         \/ \E k \in Keys, amount \in U64 : deposit_usdc(k, amount)
         \/ \E k \in Keys, amount \in U64 : withdraw_usdc(k, amount)
         \/ \E k \in Keys : remove_investor_from_pool(k)
         \/ /\ UNCHANGED <<round, round_count, count>>
            /\ \A i \in Slots :
                 /\ investors'[i].investor = investors[i].investor
                 /\ investors'[i].usdc_deposited = investors[i].usdc_deposited
                 /\ investors'[i].usdc_locked_current_round
                      = investors[i].usdc_locked_current_round
                 /\ investors'[i].waln_purchased_total = investors[i].waln_purchased_total
            /\ \/ \A i \in Slots : investors'[i].usdc_unlock_ts = investors[i].usdc_unlock_ts
               \/ \E k \in Keys, ts \in UnlockTimes : set_investor_usdc_unlock(k, ts)
<1> USE DEF poolVars
<1> DEFINE Same ==
      /\ UNCHANGED <<round, round_count, count>>
      /\ \A i \in Slots :
           /\ investors'[i].investor = investors[i].investor
           /\ investors'[i].usdc_deposited = investors[i].usdc_deposited
           /\ investors'[i].usdc_locked_current_round
                = investors[i].usdc_locked_current_round
           /\ investors'[i].waln_purchased_total = investors[i].waln_purchased_total
      /\ \/ \A i \in Slots : investors'[i].usdc_unlock_ts = investors[i].usdc_unlock_ts
         \/ \E k \in Keys, ts \in UnlockTimes : set_investor_usdc_unlock(k, ts)
<1>1. UsdcAmounts \subseteq U64 /\ WalnAmounts \subseteq U64
  BY FloorProgramAssumption
<1>2. investors = [i \in Slots |-> investors[i]] /\ \A i \in Slots : investors[i] \in InvestorRecord
  BY DEF TypeOK
<1>3. ASSUME UNCHANGED <<round, round_count, poolVars>> PROVE Same
  BY <1>3
<1>4. ASSUME NEW k \in Keys, NEW ts \in UnlockTimes, set_investor_usdc_unlock(k, ts)
      PROVE  Same
  <2>1. PICK j \in Slots : investors' = [investors EXCEPT ![j].usdc_unlock_ts = ts]
    BY <1>4 DEF set_investor_usdc_unlock
  <2>2. UNCHANGED <<round, round_count, count>>
    BY <1>4 DEF set_investor_usdc_unlock
  <2>3. \A i \in Slots :
          /\ investors'[i].investor = investors[i].investor
          /\ investors'[i].usdc_deposited = investors[i].usdc_deposited
          /\ investors'[i].usdc_locked_current_round = investors[i].usdc_locked_current_round
          /\ investors'[i].waln_purchased_total = investors[i].waln_purchased_total
    BY <1>2, <2>1 DEF InvestorRecord
  <2> QED BY <1>4, <2>2, <2>3
<1>5. ASSUME NEW k, NEW volume, update_aat_volume(k, volume) PROVE Same
  <2>1. investors' = [i \in Slots |-> IF IsSlotOf(i, k)
                                      THEN [investors[i] EXCEPT !.aat_volume = volume]
                                      ELSE investors[i]]
    BY <1>5 DEF update_aat_volume
  <2>2. UNCHANGED <<round, round_count, count>>
    BY <1>5 DEF update_aat_volume
  <2> QED BY <1>2, <2>1, <2>2 DEF InvestorRecord
<1> HIDE DEF Same
<1>6. CASE AdminNext
  <2>1. Same \/ RoundStep \/ \E k \in Keys : remove_investor_from_pool(k)
    BY <1>3, <1>4, <1>5, <1>6 DEF AdminNext, RoundStep, set_floor_price, set_round_size,
       set_lock_period, set_usdc_withdraw_lock, set_sell_paused, set_frozen, SetConfig,
       mint_aat_nft, fund_treasury, withdraw_treasury, close_round_record
  <2> QED BY <2>1 DEF Same
<1>7. CASE UserNext
  <2>1. \/ Same \/ RoundStep
        \/ \E k \in Keys, amount \in U64 : deposit_usdc(k, amount)
        \/ \E k \in Keys, amount \in U64 : withdraw_usdc(k, amount)
    BY <1>1, <1>3, <1>7 DEF UserNext, RoundStep, claim_waln, PrefundLocked, PrefundRecord
  <2> QED BY <2>1 DEF Same
<1>8. CASE Tick \/ UNCHANGED vars
  <2>1. Same
    BY <1>3, <1>8 DEF Tick, vars
  <2> QED BY <2>1 DEF Same
<1> QED BY <1>6, <1>7, <1>8 DEF Next

\* The part of f that belongs to key k.
KeyTerms(inv, k, f) == [i \in Slots |-> IF inv[i].investor = k THEN f[i] ELSE 0]

LEMMA KeyTermsSum ==
  ASSUME NEW inv, NEW k, NEW f
  PROVE  SumOver({i \in Slots : inv[i].investor = k}, f) = Sum(KeyTerms(inv, k, f), MAX_INVESTORS)
<1>1. [i \in Slots |-> IF i \in {h \in Slots : inv[h].investor = k} THEN f[i] ELSE 0]
        = KeyTerms(inv, k, f)
  BY DEF KeyTerms
<1> QED BY <1>1 DEF SumOver

LEMMA KeySumSame ==
  ASSUME NEW inv, NEW new, NEW k, NEW f, NEW g,
         \A i \in Slots : KeyTerms(new, k, g)[i] = KeyTerms(inv, k, f)[i]
  PROVE  SumOver({i \in Slots : new[i].investor = k}, g)
           = SumOver({i \in Slots : inv[i].investor = k}, f)
<1>1. \A i \in 1 .. MAX_INVESTORS : KeyTerms(new, k, g)[i] = KeyTerms(inv, k, f)[i]
  BY DEF Slots
<1>2. Sum(KeyTerms(new, k, g), MAX_INVESTORS) = Sum(KeyTerms(inv, k, f), MAX_INVESTORS)
  BY <1>1, SumEqual, RoundMathAssumption
<1> QED BY <1>2, KeyTermsSum

\* Slot c moves to slot j and is cleared, with the quantity f of the slots.
SlotMoved(inv, new, f, g, j, c) ==
  /\ \A i \in Slots : f[i] \in Int
  /\ \A i \in Slots : new[i].investor = IF i = c THEN NoKey
                                        ELSE IF i = j THEN inv[c].investor
                                        ELSE inv[i].investor
  /\ \A i \in Slots : i # c => g[i] = IF i = j THEN f[c] ELSE f[i]

\* A removal moves a slot: nobody but the investor in slot j loses anything.
LEMMA KeySumMoved ==
  ASSUME NEW inv, NEW new, NEW k \in Keys, NEW f, NEW g, NEW j \in Slots, NEW c \in Slots,
         SlotMoved(inv, new, f, g, j, c), inv[j].investor = k => f[j] = 0
  PROVE  SumOver({i \in Slots : new[i].investor = k}, g)
           = SumOver({i \in Slots : inv[i].investor = k}, f)
<1> DEFINE F == KeyTerms(inv, k, f)
           G == KeyTerms(new, k, g)
<1>1. NoKey # k
  BY DEF NoKey, Keys
<1>2. \A i \in Slots : F[i] \in Int
  BY DEF KeyTerms, SlotMoved
<1>3. F[j] = 0
  BY DEF KeyTerms
<1>4. \A i \in Slots : G[i] = IF i = c THEN 0 ELSE IF i = j THEN F[c] ELSE F[i]
  BY <1>1 DEF KeyTerms, SlotMoved
<1> HIDE DEF F, G
<1>5. MAX_INVESTORS \in Nat /\ Slots = 1 .. MAX_INVESTORS
  BY RoundMathAssumption DEF Slots
<1>6. Sum(G, MAX_INVESTORS) = Sum(F, MAX_INVESTORS) - F[j]
  BY <1>2, <1>4, <1>5, SumSwapRemove
<1>7. Sum(F, MAX_INVESTORS) \in Int
  BY <1>2, <1>5, SumInt
<1>8. Sum(G, MAX_INVESTORS) = Sum(F, MAX_INVESTORS)
  BY <1>3, <1>6, <1>7
<1> QED BY <1>8, KeyTermsSum DEF F, G

\* In the course of a round no instruction changes what an investor has locked:
\* a removal moves slots with their locks, and a sale of the round leaves the pool
\* alone.
THEOREM LocksFixedCorrect == Spec => LocksFixed
<1> DEFINE Step == round.started /\ round'.started /\ round_count' = round_count =>
                     \A k \in Keys : LockedBy(k, investors') = LockedBy(k, investors)
<1>1. ASSUME TypeOK, Books, SlotsMatch, [Next]_vars PROVE Step
  <2> SUFFICES ASSUME round.started, round'.started, round_count' = round_count,
                      NEW k \in Keys
               PROVE  LockedBy(k, investors') = LockedBy(k, investors)
    OBVIOUS
  <2> DEFINE f == Locks(investors)
             g == Locks(investors')
  <2>1. round_count + 1 # round_count
    BY <1>1, BalanceNats
  <2>2. ASSUME \A i \in Slots :
                 KeyTerms(investors', k, g)[i] = KeyTerms(investors, k, f)[i]
        PROVE  LockedBy(k, investors') = LockedBy(k, investors)
    BY <2>2, KeySumSame DEF LockedBy
  <2>3. ASSUME \A i \in Slots : /\ investors'[i].investor = investors[i].investor
                                /\ investors'[i].usdc_locked_current_round
                                     = investors[i].usdc_locked_current_round
        PROVE  LockedBy(k, investors') = LockedBy(k, investors)
    <3>1. \A i \in Slots : KeyTerms(investors', k, g)[i] = KeyTerms(investors, k, f)[i]
      BY <2>3 DEF KeyTerms, Locks
    <3> QED BY <2>2, <3>1
  <2>4. CASE RoundStep
    <3>1. ~ (cancel_round \/ close_round)
      BY <1>1, EndedRound
    <3>2. ASSUME NEW max \in U64, sell_waln_filling(max) PROVE FALSE
      BY <2>1, <3>2 DEF sell_waln_filling, FinishRound, SettleAccounts
    <3>3. ASSUME NEW max \in U64, sell_waln(max) PROVE investors' = investors
      BY <3>3 DEF sell_waln, OpenPool
    <3> QED BY <2>3, <2>4, <3>1, <3>2, <3>3 DEF RoundStep
  <2>5. ASSUME NEW h \in Keys, NEW amount \in U64, deposit_usdc(h, amount)
        PROVE  LockedBy(k, investors') = LockedBy(k, investors)
    <3>1. PICK j \in Slots :
            /\ \A i \in Slots : i # j => investors'[i] = investors[i]
            /\ investors'[j].investor = h
            /\ investors'[j].usdc_locked_current_round
                 = investors[j].usdc_locked_current_round
            /\ investors[j].investor = h \/ investors[j] = NewRecord(NoKey)
      BY <1>1, <2>5, DepositEffect
    <3>2. investors[j].investor = h \/ investors[j].usdc_locked_current_round = 0
      BY <3>1 DEF NewRecord
    <3>3. \A i \in Slots : KeyTerms(investors', k, g)[i] = KeyTerms(investors, k, f)[i]
      BY <3>1, <3>2 DEF KeyTerms, Locks
    <3> QED BY <2>2, <3>3
  <2>6. ASSUME NEW h \in Keys, NEW amount \in U64, withdraw_usdc(h, amount)
        PROVE  LockedBy(k, investors') = LockedBy(k, investors)
    <3>1. \A i \in Slots : /\ investors'[i].investor = investors[i].investor
                           /\ investors'[i].usdc_locked_current_round
                                = investors[i].usdc_locked_current_round
      BY <1>1, <2>6, WithdrawEffect DEF Kept
    <3> QED BY <2>3, <3>1
  <2>7. ASSUME NEW h \in Keys, remove_investor_from_pool(h)
        PROVE  LockedBy(k, investors') = LockedBy(k, investors)
    <3>1. count \in Slots
      BY <1>1, <2>7, RemoveEffect
    <3>2. PICK j \in Slots :
            /\ investors[j].usdc_locked_current_round = 0
            /\ \A i \in Slots : investors'[i] = IF i = count THEN NewRecord(NoKey)
                                                ELSE IF i = j THEN investors[count]
                                                ELSE investors[i]
      BY <1>1, <2>7, RemoveEffect
    <3>3. \A i \in Slots : f[i] \in Int
      <4>1. investors \in PoolType
        BY <1>1 DEF TypeOK, PoolType
      <4>2. \A i \in Slots : investors[i].usdc_locked_current_round \in Nat
        BY <4>1, PoolTypeNats DEF PoolOfNats
      <4> QED BY <4>2 DEF Locks
    <3>4. SlotMoved(investors, investors', f, g, j, count) /\ f[j] = 0
      BY <3>1, <3>2, <3>3 DEF Locks, SlotMoved, NewRecord
    <3> HIDE DEF f, g
    <3>5. SumOver({i \in Slots : investors'[i].investor = k}, g)
            = SumOver({i \in Slots : investors[i].investor = k}, f)
      BY <3>1, <3>4, KeySumMoved
    <3> QED BY <3>5 DEF LockedBy, f, g
  <2> HIDE DEF f, g
  <2> QED BY <1>1, <2>3, <2>4, <2>5, <2>6, <2>7, SlotSteps
<1>2. TypeOK /\ Books /\ SlotsMatch /\ [Next]_vars => [Step]_vars
  BY <1>1
<1> QED BY <1>2, TypeCorrect, BooksCorrect, SlotsCorrect, PTL DEF Spec, LocksFixed

-----------------------------------------------------------------------------
\* The withdraw lock

LEMMA OwnedSum ==
  ASSUME NEW inv, NEW k
  PROVE  OwnedBy(k, inv) = SumOver({i \in Slots : inv[i].investor = k}, PositionsOf(inv))
BY DEF OwnedBy, PositionsOf

LEMMA OwnedSame ==
  ASSUME NEW inv, NEW new, NEW k,
         \A i \in Slots : KeyTerms(new, k, PositionsOf(new))[i]
                            = KeyTerms(inv, k, PositionsOf(inv))[i]
  PROVE  OwnedBy(k, new) = OwnedBy(k, inv)
<1> DEFINE f == PositionsOf(inv)
           g == PositionsOf(new)
<1>1. \A i \in Slots : KeyTerms(new, k, g)[i] = KeyTerms(inv, k, f)[i]
  OBVIOUS
<1> HIDE DEF f, g
<1>2. SumOver({i \in Slots : new[i].investor = k}, g)
        = SumOver({i \in Slots : inv[i].investor = k}, f)
  BY <1>1, KeySumSame
<1> QED BY <1>2, OwnedSum DEF f, g

LEMMA OwnedGrows ==
  ASSUME NEW inv \in PoolType, NEW new \in PoolType, NEW k,
         \A i \in Slots : KeyTerms(inv, k, PositionsOf(inv))[i]
                            =< KeyTerms(new, k, PositionsOf(new))[i]
  PROVE  ~ (OwnedBy(k, new) < OwnedBy(k, inv))
<1> DEFINE F == KeyTerms(inv, k, PositionsOf(inv))
           G == KeyTerms(new, k, PositionsOf(new))
<1>1. MAX_INVESTORS \in Nat /\ Slots = 1 .. MAX_INVESTORS
  BY RoundMathAssumption DEF Slots
<1>2. \A i \in Slots : PositionsOf(inv)[i] \in Nat /\ PositionsOf(new)[i] \in Nat
  BY <1>1, PoolSums
<1>3. \A i \in Slots : F[i] \in Int /\ G[i] \in Int /\ F[i] =< G[i]
  BY <1>2 DEF KeyTerms
<1> HIDE DEF F, G
<1>4. Sum(F, MAX_INVESTORS) =< Sum(G, MAX_INVESTORS)
  BY <1>1, <1>3, SumMonotone
<1>5. Sum(F, MAX_INVESTORS) \in Int /\ Sum(G, MAX_INVESTORS) \in Int
  BY <1>1, <1>3, SumInt
<1>6. OwnedBy(k, inv) = Sum(F, MAX_INVESTORS) /\ OwnedBy(k, new) = Sum(G, MAX_INVESTORS)
  BY OwnedSum, KeyTermsSum DEF F, G
<1> QED BY <1>4, <1>5, <1>6

\* Slot i is the only slot of its investor.
LEMMA OneSlot ==
  ASSUME TypeOK, SlotsMatch, NEW i \in Slots, i =< count
  PROVE  /\ investors[i].investor \in Keys
         /\ \A j \in Slots : investors[j].investor = investors[i].investor => j = i
BY DEF TypeOK, SlotsMatch, PoolMatchesNfts

\* What WithdrawLockHolds says of slot i.
LockHolds(i) ==
  LET k == investors[i].investor
      slots == {j \in Slots : investors'[j].investor = k}
  IN  /\ OwnedBy(k, investors') < OwnedBy(k, investors) =>
           \/ now >= investors[i].usdc_unlock_ts
           \/ round_count' # round_count
           \/ investors[i].aat_volume = 0 /\ slots = {}
      /\ \/ \A j \in slots : investors'[j].usdc_unlock_ts >= investors[i].usdc_unlock_ts
         \/ \E ts \in UnlockTimes : set_investor_usdc_unlock(k, ts)

\* The investor of slot i, wherever it is after the step, has no earlier unlock.
UnlockKept(i) ==
  \A j \in Slots : investors'[j].investor = investors[i].investor =>
    investors'[j].usdc_unlock_ts >= investors[i].usdc_unlock_ts

LEMMA LockHoldsSame ==
  ASSUME TypeOK, NEW i \in Slots,
         OwnedBy(investors[i].investor, investors') = OwnedBy(investors[i].investor, investors),
         \/ UnlockKept(i)
         \/ \E ts \in UnlockTimes : set_investor_usdc_unlock(investors[i].investor, ts)
  PROVE  LockHolds(i)
<1> DEFINE k == investors[i].investor
           F == KeyTerms(investors, k, PositionsOf(investors))
<1>1. MAX_INVESTORS \in Nat /\ Slots = 1 .. MAX_INVESTORS
  BY RoundMathAssumption DEF Slots
<1>2. investors \in PoolType
  BY DEF TypeOK, PoolType
<1>3. \A h \in Slots : PositionsOf(investors)[h] \in Nat
  BY <1>1, <1>2, PoolSums
<1>4. \A h \in Slots : F[h] \in Int
  BY <1>3 DEF KeyTerms
<1> HIDE DEF F
<1>5. Sum(F, MAX_INVESTORS) \in Int
  BY <1>1, <1>4, SumInt
<1>6. OwnedBy(k, investors) = Sum(F, MAX_INVESTORS)
  BY OwnedSum, KeyTermsSum DEF F
<1>7. ~ (OwnedBy(k, investors') < OwnedBy(k, investors))
  BY <1>5, <1>6
<1> QED BY <1>7 DEF LockHolds, UnlockKept

\* A slot keeps its investor and its position in every step that starts or
\* cancels a round.
LEMMA PositionsStart ==
  ASSUME TypeOK, Books, RoundCanFill,
         cancel_round \/ \E max \in U64 : sell_waln(max), NEW i \in Slots
  PROVE  /\ investors'[i].investor = investors[i].investor
         /\ PositionsOf(investors')[i] = PositionsOf(investors)[i]
<1>1. investors'[i].investor = investors[i].investor
  BY RoundKeeps DEF RoundStep, Kept
<1>2. investors \in PoolType
  BY DEF TypeOK, PoolType
<1>3. /\ investors[i] \in InvestorRecord
      /\ investors[i].usdc_deposited \in Nat /\ investors[i].usdc_locked_current_round \in Nat
  BY <1>2, PoolTypeNats DEF PoolType, PoolOfNats
<1>4. CASE cancel_round
  <2>1. investors'[i] = [investors[i] EXCEPT
                           !.usdc_deposited = @ + investors[i].usdc_locked_current_round,
                           !.usdc_locked_current_round = 0]
    BY <1>4 DEF cancel_round
  <2>2. /\ investors'[i].usdc_deposited
             = investors[i].usdc_deposited + investors[i].usdc_locked_current_round
        /\ investors'[i].usdc_locked_current_round = 0
    BY <1>3, <2>1 DEF InvestorRecord
  <2> QED BY <1>1, <1>3, <2>2 DEF PositionsOf
<1>5. ASSUME NEW max \in U64, sell_waln(max)
      PROVE  PositionsOf(investors')[i] = PositionsOf(investors)[i]
  <2>1. Sale(max) /\ investors' = OpenPool
    BY <1>5 DEF sell_waln
  <2>2. CASE round.started
    BY <2>1, <2>2 DEF OpenPool
  <2>3. CASE ~ round.started
    <3> DEFINE lock == NewLocks(investors, count, RoundSize, RoundPrice)[i]
    <3>1. /\ OpenPool = execute_round_start(investors, count, RoundSize, RoundPrice)
          /\ RoundCanStart(investors, count, RoundSize, RoundPrice)
          /\ RoundSize \in U64 /\ RoundPrice \in U64
      BY <2>1, <2>3, OpenType DEF OpenPool, Sale
    <3>2. /\ lock \in 0 .. investors[i].usdc_deposited
          /\ investors'[i].usdc_deposited = investors[i].usdc_deposited - lock
          /\ investors'[i].usdc_locked_current_round =
               IF lock > 0 THEN lock ELSE investors[i].usdc_locked_current_round
      BY <1>2, <2>1, <3>1, StartSlot
    <3>3. investors[i].usdc_locked_current_round = 0
      BY <1>3, <2>3 DEF Books, LocksMatchRound, IsParticipant
    <3> HIDE DEF lock
    <3>4. investors'[i].usdc_deposited + investors'[i].usdc_locked_current_round
            = investors[i].usdc_deposited + investors[i].usdc_locked_current_round
      BY <1>3, <3>2, <3>3
    <3> QED BY <3>4 DEF PositionsOf
  <2> QED BY <2>2, <2>3
<1> QED BY <1>1, <1>4, <1>5

LEMMA LockHoldsRound ==
  ASSUME TypeOK, Books, RoundCanFill, SlotsMatch, RoundStep, NEW i \in Slots, i =< count
  PROVE  LockHolds(i)
<1>1. UnlockKept(i)
  <2>1. \A j \in Slots : Kept(investors[j], investors'[j])
    BY RoundKeeps
  <2>2. \A j \in Slots : investors'[j].investor = investors[i].investor =>
          investors'[j].usdc_unlock_ts = investors[i].usdc_unlock_ts
    BY <2>1, OneSlot DEF Kept
  <2>3. investors[i].usdc_unlock_ts >= investors[i].usdc_unlock_ts
    BY DEF TypeOK, InvestorRecord
  <2> QED BY <2>2, <2>3 DEF UnlockKept
<1>2. CASE cancel_round \/ \E max \in U64 : sell_waln(max)
  <2>1. \A h \in Slots : /\ investors'[h].investor = investors[h].investor
                         /\ PositionsOf(investors')[h] = PositionsOf(investors)[h]
    BY <1>2, PositionsStart
  <2>2. OwnedBy(investors[i].investor, investors') = OwnedBy(investors[i].investor, investors)
    BY <2>1, OwnedSame DEF KeyTerms
  <2> QED BY <1>1, <2>2, LockHoldsSame
<1>3. CASE close_round \/ \E max \in U64 : sell_waln_filling(max)
  <2>1. round_count' # round_count
    <3>1. round_count' = round_count + 1
      BY <1>3 DEF close_round, sell_waln_filling, FinishRound, SettleAccounts
    <3> QED BY <3>1, BalanceNats
  <2> QED BY <1>1, <2>1 DEF LockHolds, UnlockKept
<1> QED BY <1>2, <1>3 DEF RoundStep

LEMMA LockHoldsDeposit ==
  ASSUME TypeOK, TypeOK', SlotsMatch, NEW k \in Keys, NEW amount \in U64,
         deposit_usdc(k, amount), NEW i \in Slots, i =< count
  PROVE  LockHolds(i)
<1> DEFINE h == investors[i].investor
<1>1. PICK j \in Slots :
        /\ \A s \in Slots : s # j => investors'[s] = investors[s]
        /\ investors'[j].investor = k
        /\ investors'[j].usdc_deposited = investors[j].usdc_deposited + amount
        /\ investors'[j].usdc_locked_current_round
             = investors[j].usdc_locked_current_round
        /\ \/ /\ j =< count
              /\ investors[j].investor = k
              /\ investors'[j].usdc_unlock_ts >= investors[j].usdc_unlock_ts
           \/ /\ investors[j] = NewRecord(NoKey)
              /\ \A s \in Slots : investors[s].investor # k
  BY DepositEffect
<1>2. h \in Keys /\ \A s \in Slots : investors[s].investor = h => s = i
  BY OneSlot
<1>3. \A s \in Slots : s # j => PositionsOf(investors')[s] = PositionsOf(investors)[s]
  BY <1>1 DEF PositionsOf
<1>4. CASE h # k
  <2>1. investors[j].investor # h
    BY <1>1, <1>2, <1>4 DEF NewRecord, NoKey, Keys
  <2>2. \A s \in Slots : KeyTerms(investors', h, PositionsOf(investors'))[s]
                           = KeyTerms(investors, h, PositionsOf(investors))[s]
    BY <1>1, <1>3, <1>4, <2>1 DEF KeyTerms
  <2> HIDE DEF h
  <2>3. OwnedBy(h, investors') = OwnedBy(h, investors)
    BY <2>2, OwnedSame
  <2>4. \A s \in Slots : investors'[s].investor = h =>
          investors'[s].usdc_unlock_ts = investors[i].usdc_unlock_ts
    BY <1>1, <1>2, <1>4
  <2>5. investors[i].usdc_unlock_ts >= investors[i].usdc_unlock_ts
    BY DEF TypeOK, InvestorRecord
  <2>6. UnlockKept(i)
    BY <2>4, <2>5 DEF UnlockKept, h
  <2> QED BY <2>3, <2>6, LockHoldsSame DEF h
<1>5. CASE h = k
  <2>1. j = i /\ investors'[i].usdc_unlock_ts >= investors[i].usdc_unlock_ts
    BY <1>1, <1>2, <1>5
  <2>2. \A s \in Slots : investors'[s].investor = h => s = i
    BY <1>1, <1>2, <2>1
  <2>3. investors \in PoolType /\ investors' \in PoolType /\ amount \in Nat
    BY U64Nats DEF TypeOK, PoolType
  <2>4. \A s \in Slots : /\ investors[s].usdc_deposited \in Nat
                         /\ investors[s].usdc_locked_current_round \in Nat
    BY <2>3, PoolTypeNats DEF PoolOfNats
  <2>5. PositionsOf(investors)[j] =< PositionsOf(investors')[j]
    BY <1>1, <2>3, <2>4 DEF PositionsOf
  <2>6. \A s \in Slots : PositionsOf(investors)[s] \in Nat
    BY <2>4 DEF PositionsOf
  <2>7. \A s \in Slots : KeyTerms(investors, h, PositionsOf(investors))[s]
                           =< KeyTerms(investors', h, PositionsOf(investors'))[s]
    <3> SUFFICES ASSUME NEW s \in Slots
                 PROVE  KeyTerms(investors, h, PositionsOf(investors))[s]
                          =< KeyTerms(investors', h, PositionsOf(investors'))[s]
      OBVIOUS
    <3>1. CASE s = j
      BY <1>1, <1>5, <2>1, <2>5, <3>1 DEF KeyTerms
    <3>2. CASE s # j
      BY <1>1, <1>3, <2>6, <3>2 DEF KeyTerms
    <3> QED BY <3>1, <3>2
  <2> HIDE DEF h
  <2>8. ~ (OwnedBy(h, investors') < OwnedBy(h, investors))
    BY <2>3, <2>7, OwnedGrows
  <2> QED BY <2>1, <2>2, <2>8 DEF LockHolds, h
<1> QED BY <1>4, <1>5

LEMMA LockHoldsWithdraw ==
  ASSUME TypeOK, SlotsMatch, NEW k \in Keys, NEW amount \in U64,
         withdraw_usdc(k, amount), NEW i \in Slots, i =< count
  PROVE  LockHolds(i)
<1> DEFINE h == investors[i].investor
<1>1. PICK j \in Slots :
        /\ now >= investors[j].usdc_unlock_ts
        /\ \A s \in Slots : s # j => investors'[s] = investors[s]
        /\ Kept(investors[j], investors'[j])
  BY WithdrawEffect
<1>2. \A s \in Slots : investors[s].investor = h => s = i
  BY OneSlot
<1>a. UnlockKept(i)
  <2>1. \A s \in Slots : investors'[s].investor = h =>
          investors'[s].usdc_unlock_ts = investors[i].usdc_unlock_ts
    BY <1>1, <1>2 DEF Kept
  <2>2. investors[i].usdc_unlock_ts >= investors[i].usdc_unlock_ts
    BY DEF TypeOK, InvestorRecord
  <2> QED BY <2>1, <2>2 DEF UnlockKept
<1>3. CASE i # j
  <2>1. \A s \in Slots : KeyTerms(investors', h, PositionsOf(investors'))[s]
                           = KeyTerms(investors, h, PositionsOf(investors))[s]
    BY <1>1, <1>2, <1>3 DEF KeyTerms, PositionsOf, Kept
  <2> HIDE DEF h
  <2>2. OwnedBy(h, investors') = OwnedBy(h, investors)
    BY <2>1, OwnedSame
  <2> QED BY <1>a, <2>2, LockHoldsSame DEF h
<1>4. CASE i = j
  BY <1>1, <1>a, <1>4 DEF LockHolds, UnlockKept
<1> QED BY <1>3, <1>4

LEMMA LockHoldsRemove ==
  ASSUME TypeOK, SlotsMatch, NEW k \in Keys, remove_investor_from_pool(k),
         NEW i \in Slots, i =< count
  PROVE  LockHolds(i)
<1> DEFINE h == investors[i].investor
           f == PositionsOf(investors)
           g == PositionsOf(investors')
<1>1. PICK j \in Slots :
        /\ investors[j].aat_volume = 0
        /\ \A s \in Slots : investors'[s] = IF s = count THEN NewRecord(NoKey)
                                            ELSE IF s = j THEN investors[count]
                                            ELSE investors[s]
  BY RemoveEffect
<1>2. h \in Keys /\ \A s \in Slots : investors[s].investor = h => s = i
  BY OneSlot
<1>3. count \in Slots /\ investors \in PoolType
  BY RemoveEffect DEF TypeOK, PoolType
<1>4. CASE i # j
  <2>1. \A s \in Slots : f[s] \in Int
    <3>1. \A s \in Slots : /\ investors[s].usdc_deposited \in Nat
                           /\ investors[s].usdc_locked_current_round \in Nat
      BY <1>3, PoolTypeNats DEF PoolOfNats
    <3> QED BY <3>1 DEF PositionsOf
  <2>2. SlotMoved(investors, investors', f, g, j, count)
    BY <1>1, <1>3, <2>1 DEF PositionsOf, SlotMoved, NewRecord
  <2>3. investors[j].investor # h
    BY <1>2, <1>4
  <2> HIDE DEF f, g, h
  <2>4. SumOver({s \in Slots : investors'[s].investor = h}, g)
          = SumOver({s \in Slots : investors[s].investor = h}, f)
    BY <1>2, <1>3, <2>2, <2>3, KeySumMoved
  <2>5. OwnedBy(h, investors') = OwnedBy(h, investors)
    BY <2>4, OwnedSum DEF f, g
  <2>6. \A s \in Slots : investors'[s].investor = h =>
          investors'[s].usdc_unlock_ts = investors[i].usdc_unlock_ts
    BY <1>1, <1>2, <1>3 DEF NewRecord, NoKey, Keys
  <2>7. investors[i].usdc_unlock_ts >= investors[i].usdc_unlock_ts
    BY DEF TypeOK, InvestorRecord
  <2>8. UnlockKept(i)
    BY <2>6, <2>7 DEF UnlockKept, h
  <2> QED BY <2>5, <2>8, LockHoldsSame DEF h
<1>5. CASE i = j
  <2>1. NewRecord(NoKey).investor # h
    BY <1>2 DEF NewRecord, NoKey, Keys
  <2>2. \A s \in Slots : investors'[s].investor # h
    BY <1>1, <1>2, <1>3, <1>5, <2>1
  <2> QED BY <1>1, <1>5, <2>2 DEF LockHolds
<1> QED BY <1>4, <1>5

\* A step that moves no USDC of the pool moves no unlock time either, unless it is
\* the admin's override.
LEMMA LockHoldsIdle ==
  ASSUME TypeOK, SlotsMatch, NEW i \in Slots, i =< count,
         \A s \in Slots :
           /\ investors'[s].investor = investors[s].investor
           /\ investors'[s].usdc_deposited = investors[s].usdc_deposited
           /\ investors'[s].usdc_locked_current_round
                = investors[s].usdc_locked_current_round,
         \/ \A s \in Slots : investors'[s].usdc_unlock_ts = investors[s].usdc_unlock_ts
         \/ \E k \in Keys, ts \in UnlockTimes : set_investor_usdc_unlock(k, ts)
  PROVE  LockHolds(i)
<1> DEFINE h == investors[i].investor
<1>1. OwnedBy(h, investors') = OwnedBy(h, investors)
  <2>1. \A s \in Slots : KeyTerms(investors', h, PositionsOf(investors'))[s]
                           = KeyTerms(investors, h, PositionsOf(investors))[s]
    BY DEF KeyTerms, PositionsOf
  <2> HIDE DEF h
  <2> QED BY <2>1, OwnedSame
<1>2. \A s \in Slots : investors[s].investor = h => s = i
  BY OneSlot
<1>3. /\ investors[i].usdc_unlock_ts >= investors[i].usdc_unlock_ts
      /\ investors = [s \in Slots |-> investors[s]]
  BY DEF TypeOK, InvestorRecord
<1>4. CASE investors'[i].usdc_unlock_ts = investors[i].usdc_unlock_ts
  <2>1. UnlockKept(i)
    BY <1>2, <1>3, <1>4 DEF UnlockKept
  <2> QED BY <1>1, <2>1, LockHoldsSame
<1>5. ASSUME NEW k \in Keys, NEW ts \in UnlockTimes, set_investor_usdc_unlock(k, ts)
      PROVE  LockHolds(i)
  <2>1. CASE k = h
    BY <1>1, <1>5, <2>1, LockHoldsSame
  <2>2. CASE k # h
    <3>1. PICK j \in Slots :
            /\ investors[j].investor = k
            /\ investors' = [investors EXCEPT ![j].usdc_unlock_ts = ts]
      BY <1>5 DEF set_investor_usdc_unlock, IsSlotOf
    <3>2. investors'[i] = investors[i]
      BY <1>3, <2>2, <3>1
    <3> QED BY <1>4, <3>2
  <2> QED BY <2>1, <2>2
<1> QED BY <1>4, <1>5

\* Until its unlock time an investor's USDC leaves the pool only when a round is
\* settled or the admin tears down an investor without volume, and nothing but the
\* admin's override brings the unlock time of an investor in the pool forward, in
\* whatever slot it is.
THEOREM WithdrawLockCorrect == Spec => WithdrawLockHolds
<1> DEFINE Step == \A i \in Slots : i =< count => LockHolds(i)
<1>1. ASSUME TypeOK, Books, RoundCanFill, SlotsMatch, [Next]_vars PROVE Step
  <2> SUFFICES ASSUME NEW i \in Slots, i =< count PROVE LockHolds(i)
    OBVIOUS
  <2>1. TypeOK'
    BY <1>1, TypeNext
  <2> QED BY <1>1, <2>1, SlotSteps, LockHoldsIdle, LockHoldsRound, LockHoldsDeposit,
          LockHoldsWithdraw, LockHoldsRemove
<1>2. TypeOK /\ Books /\ RoundCanFill /\ SlotsMatch /\ [Next]_vars => [Step]_vars
  BY <1>1
<1> QED BY <1>2, TypeCorrect, BooksCorrect, CanFillCorrect, SlotsCorrect, PTL
        DEF Spec, WithdrawLockHolds, LockHolds
=============================================================================
