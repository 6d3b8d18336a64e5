----------------------------- MODULE FloorProofs ----------------------------
(***************************************************************************)
(* Theorems about the floor program for every value of its constants: any  *)
(* number of slots, keys and rounds, any supply, any arguments.            *)
(*                                                                         *)
(* First type correctness.  Then the books of the pool, which balance in   *)
(* every reachable state: the running total of the USDC in the pool is the *)
(* sum of the slots, and the locks of the slots belong to the round in     *)
(* progress.  Neither statement is inductive alone.  A round may only      *)
(* start on a pool without locks (LocksMatchRound), or execute_round_start *)
(* would overwrite a lock and the total would be too large; and a new      *)
(* investor may only be appended to a slot that holds no USDC              *)
(* (EmptySlots), or its balance would be lost.                             *)
(***************************************************************************)
EXTENDS FloorProperties, RoundProofs

\* A pool whose slots are investor records.
PoolType == [Slots -> InvestorRecord]

\* u64 values are naturals, and so is whatever is at most one.
LEMMA U64Nats ==
  /\ U64_MAX \in Nat
  /\ U64 \subseteq Nat
  /\ \A x \in U64 : \A y \in 0 .. x : y \in U64 /\ x - y \in U64
BY FloorProgramAssumption DEF U64

LEMMA PoolTypeNats ==
  ASSUME NEW inv \in PoolType
  PROVE  PoolOfNats(inv)
BY U64Nats DEF PoolType, PoolOfNats, InvestorRecord

\* The number of slots with a property is a natural number.
LEMMA SlotsFinite ==
  ASSUME NEW S \in SUBSET Slots
  PROVE  Cardinality(S) \in Nat
<1>1. IsFiniteSet(Slots)
  BY FS_Interval, RoundMathAssumption DEF Slots
<1> QED BY <1>1, FS_Subset, FS_CardinalityType

-----------------------------------------------------------------------------
\* Types of the round's arithmetic

\* What starting a round does to a slot.
LEMMA StartSlot ==
  ASSUME NEW inv \in PoolType, NEW cnt, NEW size \in U64, NEW price \in U64,
         RoundCanStart(inv, cnt, size, price), NEW i \in Slots
  PROVE  LET new  == execute_round_start(inv, cnt, size, price)
             lock == NewLocks(inv, cnt, size, price)[i]
         IN  /\ lock \in 0 .. inv[i].usdc_deposited
             /\ new[i] \in InvestorRecord
             /\ new[i].usdc_deposited = inv[i].usdc_deposited - lock
             /\ new[i].usdc_locked_current_round =
                  IF lock > 0 THEN lock ELSE inv[i].usdc_locked_current_round
             /\ lock = 0 => new[i] = inv[i]
<1> DEFINE lock == NewLocks(inv, cnt, size, price)[i]
           new  == execute_round_start(inv, cnt, size, price)
<1>1. size \in Nat /\ price \in Nat
  BY U64Nats
<1>2. lock \in 0 .. inv[i].usdc_deposited
  BY <1>1, PoolTypeNats, NewLocksBound
<1>3. new[i] = [inv[i] EXCEPT
                  !.usdc_deposited = @ - lock,
                  !.usdc_locked_current_round = IF lock > 0 THEN lock ELSE @]
  BY DEF execute_round_start
<1>4. inv[i] \in InvestorRecord
  BY DEF PoolType
<1> HIDE DEF lock, new
<1>5. new[i] \in InvestorRecord
  <2>1. inv[i].usdc_deposited \in U64
    BY <1>4 DEF InvestorRecord
  <2>2. lock \in U64 /\ inv[i].usdc_deposited - lock \in U64
    BY <1>2, <2>1, U64Nats
  <2> QED BY <1>3, <1>4, <2>2 DEF InvestorRecord
<1>6. /\ new[i].usdc_deposited = inv[i].usdc_deposited - lock
      /\ new[i].usdc_locked_current_round =
           IF lock > 0 THEN lock ELSE inv[i].usdc_locked_current_round
  BY <1>3, <1>4 DEF InvestorRecord
<1>7. lock = 0 => new[i] = inv[i]
  <2> SUFFICES ASSUME lock = 0 PROVE new[i] = inv[i]
    OBVIOUS
  <2>1. inv[i].usdc_deposited \in Nat
    BY <1>4, U64Nats DEF InvestorRecord
  <2>2. /\ new[i].usdc_deposited = inv[i].usdc_deposited
        /\ new[i].usdc_locked_current_round = inv[i].usdc_locked_current_round
    BY <1>6, <2>1
  <2>3. /\ new[i].investor = inv[i].investor
        /\ new[i].usdc_committed = inv[i].usdc_committed
        /\ new[i].waln_purchased_total = inv[i].waln_purchased_total
        /\ new[i].aat_volume = inv[i].aat_volume
        /\ new[i].usdc_unlock_ts = inv[i].usdc_unlock_ts
    BY <1>3, <1>4 DEF InvestorRecord
  <2> QED BY <1>4, <1>5, <2>2, <2>3 DEF InvestorRecord
<1> QED BY <1>2, <1>5, <1>6, <1>7 DEF lock, new

LEMMA StartType ==
  ASSUME NEW inv \in PoolType, NEW cnt, NEW size \in U64, NEW price \in U64,
         RoundCanStart(inv, cnt, size, price)
  PROVE  execute_round_start(inv, cnt, size, price) \in PoolType
<1>1. \A i \in Slots : execute_round_start(inv, cnt, size, price)[i] \in InvestorRecord
  BY StartSlot
<1>2. execute_round_start(inv, cnt, size, price) =
        [i \in Slots |-> execute_round_start(inv, cnt, size, price)[i]]
  BY DEF execute_round_start
<1> QED BY <1>1, <1>2 DEF PoolType

\* What the settlement of a filled round does to a slot.
LEMMA FilledSlot ==
  ASSUME NEW inv \in PoolType, NEW allocs, NEW i \in Slots
  PROVE  LET new == FilledPool(inv, allocs)
         IN  /\ new[i].usdc_deposited = inv[i].usdc_deposited
             /\ new[i].usdc_locked_current_round = 0
             /\ new[i].usdc_committed = inv[i].usdc_committed
                                          + inv[i].usdc_locked_current_round
             /\ new[i].waln_purchased_total = inv[i].waln_purchased_total + allocs[i]
             /\ FitsU64(new) => new[i] \in InvestorRecord
<1> DEFINE new == FilledPool(inv, allocs)
<1>1. new[i] = [inv[i] EXCEPT
                  !.usdc_committed = @ + inv[i].usdc_locked_current_round,
                  !.waln_purchased_total = @ + allocs[i],
                  !.usdc_locked_current_round = 0]
  BY DEF FilledPool
<1>2. inv[i] \in InvestorRecord
  BY DEF PoolType
<1>3. FitsU64(new) => /\ new[i].usdc_deposited \in U64
                      /\ new[i].usdc_locked_current_round \in U64
                      /\ new[i].usdc_committed \in U64
                      /\ new[i].waln_purchased_total \in U64
  BY DEF FitsU64
<1> HIDE DEF new
<1>4. FitsU64(new) => new[i] \in InvestorRecord
  BY <1>1, <1>2, <1>3 DEF InvestorRecord
<1>5. /\ new[i].usdc_deposited = inv[i].usdc_deposited
      /\ new[i].usdc_locked_current_round = 0
      /\ new[i].usdc_committed = inv[i].usdc_committed + inv[i].usdc_locked_current_round
      /\ new[i].waln_purchased_total = inv[i].waln_purchased_total + allocs[i]
  BY <1>1, <1>2 DEF InvestorRecord
<1> QED BY <1>4, <1>5 DEF new

LEMMA FilledType ==
  ASSUME NEW inv \in PoolType, NEW allocs, FitsU64(FilledPool(inv, allocs))
  PROVE  FilledPool(inv, allocs) \in PoolType
<1>1. \A i \in Slots : FilledPool(inv, allocs)[i] \in InvestorRecord
  BY FilledSlot
<1>2. FilledPool(inv, allocs) = [i \in Slots |-> FilledPool(inv, allocs)[i]]
  BY DEF FilledPool
<1> QED BY <1>1, <1>2 DEF PoolType

\* What a forced close does to a slot.
LEMMA ClosedSlot ==
  ASSUME NEW inv \in PoolType, NEW spent, NEW allocs, NEW i \in Slots
  PROVE  LET new == ClosedPool(inv, spent, allocs)
         IN  /\ new[i].usdc_deposited = inv[i].usdc_deposited
                    + (inv[i].usdc_locked_current_round - spent[i])
             /\ new[i].usdc_locked_current_round = 0
             /\ new[i].usdc_committed = inv[i].usdc_committed + spent[i]
             /\ new[i].waln_purchased_total = inv[i].waln_purchased_total + allocs[i]
             /\ FitsU64(new) => new[i] \in InvestorRecord
<1> DEFINE new == ClosedPool(inv, spent, allocs)
<1>1. new[i] = [inv[i] EXCEPT
                  !.usdc_deposited = @ + (inv[i].usdc_locked_current_round - spent[i]),
                  !.usdc_committed = @ + spent[i],
                  !.waln_purchased_total = @ + allocs[i],
                  !.usdc_locked_current_round = 0]
  BY DEF ClosedPool
<1>2. inv[i] \in InvestorRecord
  BY DEF PoolType
<1>3. FitsU64(new) => /\ new[i].usdc_deposited \in U64
                      /\ new[i].usdc_locked_current_round \in U64
                      /\ new[i].usdc_committed \in U64
                      /\ new[i].waln_purchased_total \in U64
  BY DEF FitsU64
<1> HIDE DEF new
<1>4. FitsU64(new) => new[i] \in InvestorRecord
  BY <1>1, <1>2, <1>3 DEF InvestorRecord
<1>5. /\ new[i].usdc_deposited = inv[i].usdc_deposited
              + (inv[i].usdc_locked_current_round - spent[i])
      /\ new[i].usdc_locked_current_round = 0
      /\ new[i].usdc_committed = inv[i].usdc_committed + spent[i]
      /\ new[i].waln_purchased_total = inv[i].waln_purchased_total + allocs[i]
  BY <1>1, <1>2 DEF InvestorRecord
<1> QED BY <1>4, <1>5 DEF new

LEMMA ClosedType ==
  ASSUME NEW inv \in PoolType, NEW spent, NEW allocs,
         FitsU64(ClosedPool(inv, spent, allocs))
  PROVE  ClosedPool(inv, spent, allocs) \in PoolType
<1>1. \A i \in Slots : ClosedPool(inv, spent, allocs)[i] \in InvestorRecord
  BY ClosedSlot
<1>2. ClosedPool(inv, spent, allocs) =
        [i \in Slots |-> ClosedPool(inv, spent, allocs)[i]]
  BY DEF ClosedPool
<1> QED BY <1>1, <1>2 DEF PoolType

\* Allocations are naturals.
LEMMA FilledAllocsNat ==
  ASSUME NEW inv \in PoolType, NEW price \in Nat, price > 0,
         NEW dust \in Nat, NEW time
  PROVE  \A i \in Slots : FilledAllocs(inv, price, dust, time)[i] \in Nat
<1> TAKE i \in Slots
<1>1. inv[i].usdc_locked_current_round \in Nat
  BY PoolTypeNats DEF PoolOfNats
<1>2. base_waln(inv, price)[i] \in Nat
  BY <1>1, WalnForNat DEF base_waln
<1> QED BY <1>2 DEF FilledAllocs

-----------------------------------------------------------------------------
\* Type correctness

LEMMA TypeInit == Init => TypeOK
<1> SUFFICES ASSUME Init PROVE TypeOK
  OBVIOUS
<1>1. 0 \in U64 /\ 0 \in 0 .. MAX_TOTAL_AAT_VOLUME /\ 0 \in 0 .. MAX_INVESTORS
      /\ 0 \in 0 .. USDC_SUPPLY /\ 0 \in 0 .. WALN_SUPPLY /\ 0 \in 0 .. MaxTime
      /\ 0 \in 0 .. MaxRounds
  BY FloorProgramAssumption, RoundMathAssumption, U64Nats DEF U64
<1>2. Prices \subseteq U64 /\ Sizes \subseteq U64 /\ LockPeriods \subseteq Int
  BY FloorProgramAssumption
<1>3. config \in ConfigType /\ round \in RoundType
  BY <1>1, <1>2 DEF Init, ConfigType, RoundType
<1>4. investors \in [Slots -> InvestorRecord]
  BY <1>1 DEF Init, NewRecord, InvestorRecord
<1>5. round_locked_waln \in [Rounds -> RoundLockedWalnType]
  BY <1>1 DEF Init, NoLockedWaln, RoundLockedWalnType, NoEntries, InvestorAlloc
<1>6. round_record \in [Rounds -> RoundRecordType]
  BY <1>1 DEF Init, NoRecord, RoundRecordType
<1> QED BY <1>1, <1>3, <1>4, <1>5, <1>6 DEF Init, TypeOK

\* An account that is topped up has its rent, and keeps what it had beyond it.
LEMMA MissingFills ==
  ASSUME NEW rent \in Nat, NEW lamports \in Nat
  PROVE  /\ Missing(rent, lamports) \in Nat
         /\ lamports + Missing(rent, lamports) = Greatest(rent, lamports)
         /\ Greatest(rent, lamports) \in Nat
BY DEF Missing, Greatest

\* The accounts that a settlement writes.
LEMMA SettleType ==
  ASSUME TypeOK, NEW inv \in PoolType, NEW allocs,
         \A i \in Slots : allocs[i] \in U64,
         NEW spent \in U64, NEW participants \in Nat, NEW unlock \in Int,
         SettleAccounts(inv, allocs, spent, participants, unlock)
  PROVE  /\ round_count' \in 0 .. MaxRounds
         /\ treasury' \in U64
         /\ round_locked_waln' \in [Rounds -> RoundLockedWalnType]
         /\ round_record' \in [Rounds -> RoundRecordType]
<1>1. round_count \in Rounds /\ round_count' \in 0 .. MaxRounds
  BY FloorProgramAssumption DEF SettleAccounts, TypeOK, Rounds
<1>2. Claimable(allocs) \in Nat
  BY SlotsFinite DEF Claimable
<1>3. /\ round_record[round_count].lamports \in Nat
      /\ round_locked_waln[round_count].lamports \in Nat
  BY <1>1 DEF TypeOK, RoundRecordType, RoundLockedWalnType
<1>4. RENT_RECORD \in Nat /\ RENT_LOCKED \in Nat /\ RENT_ENTRY \in Nat
  BY FloorProgramAssumption
<1>5. LockedRent(allocs) \in Nat
  BY <1>2, <1>4 DEF LockedRent
<1>a. RecordTopUp \in Nat /\ LockedTopUp(allocs) \in Nat
  BY <1>3, <1>4, <1>5, MissingFills DEF RecordTopUp, LockedTopUp
<1>6. SettleRent(allocs) \in Nat
  BY <1>a DEF SettleRent
<1>7. treasury' \in U64
  BY <1>6, U64Nats DEF SettleAccounts, TypeOK
<1>8. round_record' \in [Rounds -> RoundRecordType]
  <2>1. round_record[round_count].lamports + RecordTopUp \in Nat
    BY <1>3, <1>a
  <2>2. Sum(allocs, MAX_INVESTORS) \in U64
    BY DEF SettleAccounts
  <2>3. [exists |-> TRUE, waln_purchased |-> Sum(allocs, MAX_INVESTORS),
         usdc_spent |-> spent, participants |-> participants,
         lamports |-> round_record[round_count].lamports + RecordTopUp]
          \in RoundRecordType
    BY <2>1, <2>2 DEF RoundRecordType
  <2> QED BY <1>1, <2>3 DEF SettleAccounts, TypeOK
<1>9. round_locked_waln' \in [Rounds -> RoundLockedWalnType]
  <2> DEFINE entries == [i \in Slots |->
                           IF allocs[i] > 0
                           THEN [investor |-> inv[i].investor, waln_amount |-> allocs[i]]
                           ELSE NoEntries[i]]
  <2>1. entries \in [Slots -> InvestorAlloc]
    <3>1. 0 \in U64
      BY U64Nats DEF U64
    <3>2. \A i \in Slots : inv[i].investor \in Keys \cup {NoKey}
      BY DEF PoolType, InvestorRecord
    <3> QED BY <3>1, <3>2 DEF NoEntries, InvestorAlloc
  <2>2. round_locked_waln[round_count].lamports + LockedTopUp(allocs) \in Nat
    BY <1>3, <1>a
  <2>3. SettleLockedWaln(inv, allocs, unlock) \in RoundLockedWalnType
    <3> HIDE DEF entries
    <3>1. SettleLockedWaln(inv, allocs, unlock) =
            [exists |-> TRUE, unlock |-> unlock,
             remaining_to_claim |-> Claimable(allocs), entries |-> entries,
             lamports |-> round_locked_waln[round_count].lamports + LockedTopUp(allocs)]
      BY DEF SettleLockedWaln, entries
    <3> QED BY <1>2, <2>1, <2>2, <3>1 DEF RoundLockedWalnType
  <2> QED BY <1>1, <2>3 DEF SettleAccounts, TypeOK
<1> QED BY <1>1, <1>7, <1>8, <1>9

\* The round and the pool that a sale runs in.
LEMMA OpenType ==
  ASSUME TypeOK, NEW max, Sale(max)
  PROVE  /\ OpenRound \in RoundType
         /\ OpenPool \in PoolType
         /\ RoundSize \in U64 /\ RoundPrice \in U64 /\ RoundWaln \in U64
<1>1. RoundSize \in U64 /\ RoundPrice \in U64 /\ RoundWaln \in U64
  BY U64Nats DEF RoundSize, RoundPrice, RoundWaln, TypeOK, ConfigType, RoundType, U64
<1>2. OpenPool \in PoolType
  BY <1>1, StartType DEF OpenPool, Sale, TypeOK, PoolType
<1>3. OpenRound \in RoundType
  <2>1. CASE round.started
    BY <2>1 DEF OpenRound, TypeOK
  <2>2. CASE ~ round.started
    <3>1. OpenRound = StartedRound(investors, RoundSize, RoundPrice, round.waln)
      BY <2>2 DEF OpenRound
    <3>2. OpenRound.usdc_locked \in U64
      BY DEF Sale
    <3>3. 0 \in U64 /\ round.waln \in U64 /\ config.lock_period_seconds \in Int
      BY U64Nats DEF TypeOK, RoundType, ConfigType, U64
    <3> QED BY <1>1, <3>1, <3>2, <3>3 DEF StartedRound, RoundType
  <2> QED BY <2>1, <2>2
<1> QED BY <1>1, <1>2, <1>3

\* The amounts of a sale, and the two transfers.
LEMMA SaleType ==
  ASSUME TypeOK, NEW max \in U64, Sale(max)
  PROVE  /\ waln_amount(max) \in Nat /\ waln_amount(max) > 0
         /\ usdc_out(max) \in Nat /\ usdc_out(max) > 0
         /\ RoundPrice \in Nat /\ RoundPrice > 0
         /\ usdc_vault' \in 0 .. USDC_SUPPLY
         /\ waln_vault' \in 0 .. WALN_SUPPLY
<1>1. RoundSize \in Nat /\ RoundPrice \in Nat /\ RoundWaln \in Nat /\ max \in Nat
  BY OpenType, U64Nats
<1>2. waln_amount(max) \in Nat /\ waln_amount(max) > 0
  <2>1. waln_amount(max) > 0
    BY DEF Sale, SaleAllowed
  <2> QED BY <1>1, <2>1 DEF waln_amount, remaining_in_round, Least
<1>3. usdc_out(max) \in Nat /\ usdc_out(max) > 0
  BY <1>1, <1>2, UsdcForNat DEF usdc_out, Sale
<1>4. RoundPrice > 0
  <2> SUFFICES ASSUME RoundPrice = 0 PROVE FALSE
    BY <1>1
  <2>1. waln_amount(max) * RoundPrice = 0
    BY <1>2
  <2>2. 0 \div waln_scale = 0
    BY RoundMathAssumption
  <2> QED BY <1>3, <2>1, <2>2 DEF usdc_out, UsdcFor
<1>5. USDC_SUPPLY \in Nat /\ WALN_SUPPLY \in Nat
  BY FloorProgramAssumption, U64Nats
<1>6. usdc_vault' \in 0 .. USDC_SUPPLY /\ waln_vault' \in 0 .. WALN_SUPPLY
  BY <1>2, <1>3, <1>5 DEF Sale, TypeOK
<1> QED BY <1>1, <1>2, <1>3, <1>4, <1>6

\* The next round, or none.
LEMMA AutoStartType ==
  ASSUME TypeOK, NEW max, Sale(max), NEW inv \in PoolType, AutoStart(inv),
         round'.usdc_locked \in U64
  PROVE  round' \in RoundType /\ investors' \in PoolType
<1> DEFINE size  == config.round_size_waln
           price == config.floor_price_usdc
<1>1. size \in U64 /\ price \in U64 /\ 0 \in U64 /\ config.lock_period_seconds \in Int
  BY U64Nats DEF TypeOK, ConfigType, U64
<1>2. CASE RoundCanStart(inv, count, size, price)
  <2>1. /\ investors' = execute_round_start(inv, count, size, price)
        /\ round' = StartedRound(inv, size, price, 0)
    BY <1>2 DEF AutoStart
  <2> HIDE DEF size, price
  <2>2. investors' \in PoolType
    BY <1>1, <1>2, <2>1, StartType
  <2>3. round' \in RoundType
    BY <1>1, <2>1 DEF StartedRound, RoundType
  <2> QED BY <2>2, <2>3
<1>3. CASE ~ RoundCanStart(inv, count, size, price)
  <2>1. /\ investors' = inv
        /\ round' = [OpenRound EXCEPT !.started = FALSE, !.waln = 0,
                                      !.usdc_spent = 0, !.usdc_locked = 0]
    BY <1>3 DEF AutoStart
  <2>2. OpenRound \in RoundType
    BY OpenType
  <2> QED BY <1>1, <2>1, <2>2 DEF RoundType
<1> QED BY <1>2, <1>3

LEMMA TypeSell ==
  ASSUME TypeOK, NEW max \in U64, sell_waln(max)
  PROVE  TypeOK'
<1>1. Sale(max)
  BY DEF sell_waln
<1>2. OpenRound \in RoundType /\ OpenPool \in PoolType
  BY <1>1, OpenType
<1>3. waln_amount(max) \in Nat /\ usdc_out(max) \in Nat
      /\ usdc_vault' \in 0 .. USDC_SUPPLY /\ waln_vault' \in 0 .. WALN_SUPPLY
  BY <1>1, SaleType
<1>4. round' \in RoundType
  <2>1. OpenRound.waln \in Nat /\ OpenRound.usdc_spent \in Nat
    BY <1>2, U64Nats DEF RoundType
  <2>2. /\ OpenRound.waln + waln_amount(max) \in U64
        /\ OpenRound.usdc_spent + usdc_out(max) \in U64
    BY <1>1, <1>3, <2>1, U64Nats DEF Sale, U64
  <2>3. round' = [OpenRound EXCEPT !.waln = @ + waln_amount(max),
                                   !.usdc_spent = @ + usdc_out(max)]
    BY DEF sell_waln
  <2> QED BY <1>2, <2>2, <2>3 DEF RoundType
<1>5. investors' \in [Slots -> InvestorRecord]
  BY <1>2 DEF sell_waln, PoolType
<1> QED BY <1>3, <1>4, <1>5 DEF sell_waln, nftVars, TypeOK

LEMMA TypeFill ==
  ASSUME TypeOK, NEW max \in U64, sell_waln_filling(max)
  PROVE  TypeOK'
<1> DEFINE allocs == FilledAllocs(OpenPool, RoundPrice, waln_dust_carryover, now)
           credits == FilledCredits(OpenPool, RoundPrice, waln_dust_carryover, now)
           total_usdc_spent == Sum(Locks(OpenPool), MAX_INVESTORS)
           filled == FilledPool(OpenPool, credits)
<1>1. Sale(max)
  BY DEF sell_waln_filling
<1>2. OpenRound \in RoundType /\ OpenPool \in PoolType
  BY <1>1, OpenType
<1>3. RoundPrice \in Nat /\ RoundPrice > 0
      /\ usdc_vault' \in 0 .. USDC_SUPPLY /\ waln_vault' \in 0 .. WALN_SUPPLY
  BY <1>1, SaleType
<1>4. FinishRound(OpenPool, allocs, credits, OpenRound.waln + waln_amount(max))
  BY DEF sell_waln_filling
<1>5. \A i \in Slots : allocs[i] \in Nat
  BY <1>2, <1>3, FilledAllocsNat, U64Nats DEF TypeOK
<1>6. FitsU64(filled) /\ AutoStart(filled)
  BY <1>4 DEF FinishRound
<1>7. round' \in RoundType /\ investors' \in [Slots -> InvestorRecord]
  <2> HIDE DEF credits
  <2>1. filled \in PoolType
    BY <1>2, <1>6, FilledType
  <2> QED BY <1>1, <1>6, <2>1, AutoStartType DEF sell_waln_filling, PoolType
<1>8. total_usdc_spent \in U64 /\ total_usdc_in_lobby' \in U64
  <2>1. \A i \in 1 .. MAX_INVESTORS : Locks(OpenPool)[i] \in Nat
    BY <1>2, PoolTypeNats DEF Locks, PoolOfNats, Slots
  <2>2. total_usdc_spent \in Nat
    BY <2>1, SumNat, RoundMathAssumption
  <2>3. /\ total_usdc_spent =< total_usdc_in_lobby
        /\ total_usdc_in_lobby' = total_usdc_in_lobby - total_usdc_spent
    BY <1>4 DEF FinishRound
  <2> HIDE DEF total_usdc_spent
  <2> QED BY <2>2, <2>3, U64Nats DEF TypeOK
<1>9. waln_dust_carryover' \in U64
  BY <1>4 DEF FinishRound
<1>10. \A i \in Slots : allocs[i] \in U64
  <2>1. Sum(allocs, MAX_INVESTORS) \in U64
    BY <1>4 DEF FinishRound, SettleAccounts
  <2> HIDE DEF allocs
  <2> TAKE i \in Slots
  <2>2. allocs[i] =< Sum(allocs, MAX_INVESTORS)
    BY <1>5, SumTerm, RoundMathAssumption DEF Slots
  <2> QED BY <1>5, <2>1, <2>2, U64Nats DEF U64
<1>11. /\ round_count' \in 0 .. MaxRounds
       /\ treasury' \in U64
       /\ round_locked_waln' \in [Rounds -> RoundLockedWalnType]
       /\ round_record' \in [Rounds -> RoundRecordType]
  <2>1. participant_count(OpenPool) \in Nat
    BY SlotsFinite DEF participant_count
  <2>2. now + OpenRound.lock_period \in Int
    BY <1>2 DEF RoundType, TypeOK
  <2>3. SettleAccounts(OpenPool, allocs, total_usdc_spent, participant_count(OpenPool),
                       now + OpenRound.lock_period)
    BY <1>4 DEF FinishRound
  <2> HIDE DEF allocs, total_usdc_spent
  <2> QED BY <1>2, <1>8, <1>10, <2>1, <2>2, <2>3, SettleType
<1> QED BY <1>3, <1>7, <1>8, <1>9, <1>11 DEF sell_waln_filling, nftVars, TypeOK

LEMMA TypeClose ==
  ASSUME TypeOK, close_round
  PROVE  TypeOK'
<1> DEFINE paid   == round.usdc_spent
           spent  == close_round_usdc_spent(investors, paid)
           allocs == ClosedAllocs(investors, round.floor_price, round.waln)
<1>1. investors \in PoolType /\ paid \in U64 /\ 0 \in U64
  BY U64Nats DEF TypeOK, PoolType, RoundType, U64
<1>2. /\ SettleAccounts(investors, allocs, paid, Claimable(allocs),
                        now + round.lock_period)
      /\ \A i \in Slots : allocs[i] \in U64
      /\ investors' = ClosedPool(investors, spent, allocs)
      /\ FitsU64(investors')
      /\ paid =< total_usdc_in_lobby
      /\ total_usdc_in_lobby' = total_usdc_in_lobby - paid
      /\ Sum(allocs, MAX_INVESTORS) =< round.waln
      /\ waln_dust_carryover' =
           waln_dust_carryover + (round.waln - Sum(allocs, MAX_INVESTORS))
      /\ waln_dust_carryover' =< U64_MAX
      /\ round' = [round EXCEPT !.started = FALSE, !.waln = 0, !.usdc_spent = 0,
                                !.usdc_locked = 0]
      /\ UNCHANGED <<config, count, nftVars, waln_vault, paid_waln, usdc_vault, now>>
  BY DEF close_round
<1> HIDE DEF paid, spent, allocs
<1>3. investors' \in [Slots -> InvestorRecord]
  BY <1>1, <1>2, ClosedType DEF PoolType
<1>4. /\ round_count' \in 0 .. MaxRounds
      /\ treasury' \in U64
      /\ round_locked_waln' \in [Rounds -> RoundLockedWalnType]
      /\ round_record' \in [Rounds -> RoundRecordType]
  <2>1. Claimable(allocs) \in Nat
    BY SlotsFinite DEF Claimable
  <2>2. now + round.lock_period \in Int
    BY DEF TypeOK, RoundType
  <2> QED BY <1>1, <1>2, <2>1, <2>2, SettleType
<1>5. total_usdc_in_lobby' \in U64
  BY <1>1, <1>2, U64Nats DEF TypeOK
<1>6. waln_dust_carryover' \in U64
  <2>1. Sum(allocs, MAX_INVESTORS) \in U64
    BY <1>2 DEF SettleAccounts
  <2>2. waln_dust_carryover \in Nat /\ round.waln \in Nat
        /\ Sum(allocs, MAX_INVESTORS) \in Nat
    BY <2>1, U64Nats DEF TypeOK, RoundType
  <2> QED BY <1>2, <2>2, U64Nats DEF U64
<1>7. round' \in RoundType
  BY <1>1, <1>2 DEF TypeOK, RoundType
<1> QED BY <1>2, <1>3, <1>4, <1>5, <1>6, <1>7 DEF nftVars, TypeOK

LEMMA TypeConfig ==
  ASSUME TypeOK, NEW c \in ConfigType, SetConfig(c)
  PROVE  TypeOK'
BY DEF SetConfig, poolVars, nftVars, claimVars, TypeOK

LEMMA TypeDeposit ==
  ASSUME TypeOK, NEW k \in Keys, NEW amount \in U64, deposit_usdc(k, amount)
  PROVE  TypeOK'
<1>1. /\ investors \in PoolType /\ count \in Nat /\ now \in Nat
      /\ config.usdc_withdraw_lock_seconds \in Int
      /\ aat_volume[k] \in U64 /\ amount \in Nat
  BY U64Nats DEF TypeOK, PoolType, ConfigType
<1>2. ASSUME NEW rec \in InvestorRecord,
             Deposited(rec, k, amount).usdc_deposited \in U64
      PROVE  Deposited(rec, k, amount) \in InvestorRecord
  <2>1. rec.usdc_unlock_ts \in Int
    BY DEF InvestorRecord
  <2>2. Greatest(rec.usdc_unlock_ts, now + config.usdc_withdraw_lock_seconds) \in Int
    BY <1>1, <2>1 DEF Greatest
  <2>3. rec.usdc_deposited + amount \in U64
    BY <1>2 DEF Deposited, InvestorRecord
  <2> QED BY <1>1, <2>1, <2>2, <2>3 DEF Deposited, InvestorRecord
<1>3. FitsU64(investors')
  BY DEF deposit_usdc
<1>4. investors' \in PoolType /\ count' \in 0 .. MAX_INVESTORS
  <2>1. CASE \E i \in Slots :
               /\ IsSlotOf(i, k)
               /\ investors' = [investors EXCEPT ![i] = Deposited(investors[i], k, amount)]
               /\ UNCHANGED count
    <3>1. PICK i \in Slots :
               /\ investors' = [investors EXCEPT ![i] = Deposited(investors[i], k, amount)]
               /\ UNCHANGED count
      BY <2>1
    <3>2. investors[i] \in InvestorRecord
      BY <1>1 DEF PoolType
    <3>3. investors'[i] = Deposited(investors[i], k, amount)
      BY <1>1, <3>1 DEF PoolType
    <3>4. Deposited(investors[i], k, amount) \in InvestorRecord
      BY <1>2, <1>3, <3>2, <3>3 DEF FitsU64
    <3> QED BY <1>1, <3>1, <3>4 DEF PoolType, TypeOK
  <2>2. CASE /\ ~ InPool(k)
             /\ investors' = [investors EXCEPT ![count + 1] =
                                 Deposited(NewRecord(k), k, amount)]
             /\ count' = count + 1
    <3>1. count < MAX_INVESTORS
      BY <2>2 DEF deposit_usdc
    <3>2. count + 1 \in Slots /\ count' \in 0 .. MAX_INVESTORS
      BY <1>1, <2>2, <3>1, RoundMathAssumption DEF Slots
    <3>3. NewRecord(k) \in InvestorRecord
      BY U64Nats DEF NewRecord, InvestorRecord, U64
    <3>4. investors'[count + 1] = Deposited(NewRecord(k), k, amount)
      BY <1>1, <2>2, <3>2 DEF PoolType
    <3>5. Deposited(NewRecord(k), k, amount) \in InvestorRecord
      BY <1>2, <1>3, <3>2, <3>3, <3>4 DEF FitsU64
    <3> QED BY <1>1, <2>2, <3>2, <3>5 DEF PoolType
  <2> QED BY <2>1, <2>2 DEF deposit_usdc
<1>5. usdc_vault' \in 0 .. USDC_SUPPLY /\ total_usdc_in_lobby' \in U64
  <2>1. USDC_SUPPLY \in Nat
    BY FloorProgramAssumption, U64Nats
  <2>2. total_usdc_in_lobby \in Nat
    BY U64Nats DEF TypeOK
  <2> QED BY <1>1, <2>1, <2>2, U64Nats DEF deposit_usdc, TypeOK, U64
<1> QED BY <1>4, <1>5 DEF deposit_usdc, PoolType, nftVars, claimVars, TypeOK

LEMMA TypeWithdraw ==
  ASSUME TypeOK, NEW k \in Keys, NEW amount \in U64, withdraw_usdc(k, amount)
  PROVE  TypeOK'
<1>1. PICK i \in Slots :
        LET available == investors[i].usdc_deposited
            w == IF amount = U64_MAX THEN available ELSE amount
        IN  /\ w > 0 /\ w =< available /\ w =< usdc_vault /\ w =< total_usdc_in_lobby
            /\ investors' = [investors EXCEPT ![i].usdc_deposited = available - w]
            /\ usdc_vault' = usdc_vault - w
            /\ total_usdc_in_lobby' = total_usdc_in_lobby - w
  BY DEF withdraw_usdc
<1> DEFINE available == investors[i].usdc_deposited
           w == IF amount = U64_MAX THEN available ELSE amount
<1>2. available \in U64 /\ investors[i] \in InvestorRecord
  BY DEF TypeOK, InvestorRecord
<1>3. w \in Nat /\ available - w \in U64
  BY <1>1, <1>2, U64Nats
<1>4. USDC_SUPPLY \in Nat
  BY FloorProgramAssumption, U64Nats
<1>5. usdc_vault' \in 0 .. USDC_SUPPLY /\ total_usdc_in_lobby' \in U64
  BY <1>1, <1>3, <1>4, U64Nats DEF TypeOK
<1>6. investors' \in [Slots -> InvestorRecord]
  BY <1>1, <1>2, <1>3 DEF TypeOK, InvestorRecord
<1> QED BY <1>5, <1>6 DEF withdraw_usdc, nftVars, claimVars, TypeOK

LEMMA TypeRemove ==
  ASSUME TypeOK, NEW k \in Keys, remove_investor_from_pool(k)
  PROVE  TypeOK'
<1>1. PICK i \in Slots :
        /\ i =< count
        /\ investors[i].usdc_deposited =< usdc_vault
        /\ investors[i].usdc_deposited =< total_usdc_in_lobby
        /\ usdc_vault' = usdc_vault - investors[i].usdc_deposited
        /\ total_usdc_in_lobby' = total_usdc_in_lobby - investors[i].usdc_deposited
        /\ investors' = [investors EXCEPT ![i] = investors[count],
                                          ![count] = NewRecord(NoKey)]
  BY DEF remove_investor_from_pool, IsSlotOf
<1>2. investors[i].usdc_deposited \in Nat
  BY U64Nats DEF TypeOK, InvestorRecord
<1>3. count \in Slots /\ count' \in 0 .. MAX_INVESTORS
  BY <1>1, RoundMathAssumption DEF remove_investor_from_pool, TypeOK, Slots
<1>4. NewRecord(NoKey) \in InvestorRecord
  BY U64Nats DEF NewRecord, InvestorRecord, U64
<1>5. investors' \in [Slots -> InvestorRecord]
  BY <1>1, <1>3, <1>4 DEF TypeOK
<1>6. USDC_SUPPLY \in Nat
  BY FloorProgramAssumption, U64Nats
<1>7. usdc_vault' \in 0 .. USDC_SUPPLY /\ total_usdc_in_lobby' \in U64
  BY <1>1, <1>2, <1>6, U64Nats DEF TypeOK
<1> QED BY <1>3, <1>5, <1>7 DEF remove_investor_from_pool, nftVars, claimVars, TypeOK

LEMMA TypeNfts ==
  ASSUME TypeOK, NEW k \in Keys, NEW volume \in U64,
         mint_aat_nft(k, volume) \/ update_aat_volume(k, volume)
  PROVE  TypeOK'
<1>1. MAX_TOTAL_AAT_VOLUME \in Nat /\ volume \in Nat /\ aat_volume[k] \in Nat
  BY FloorProgramAssumption, U64Nats DEF TypeOK
<1>2. CASE mint_aat_nft(k, volume)
  <2>1. total_aat_volume' \in 0 .. MAX_TOTAL_AAT_VOLUME
    BY <1>1, <1>2 DEF mint_aat_nft, TypeOK
  <2> QED BY <1>2, <2>1 DEF mint_aat_nft, poolVars, claimVars, TypeOK
<1>3. CASE update_aat_volume(k, volume)
  <2>1. total_aat_volume' \in 0 .. MAX_TOTAL_AAT_VOLUME
    BY <1>1, <1>3 DEF update_aat_volume, TypeOK
  <2>2. investors' \in [Slots -> InvestorRecord]
    BY <1>3 DEF update_aat_volume, TypeOK, InvestorRecord
  <2> QED BY <1>3, <2>1, <2>2 DEF update_aat_volume, claimVars, TypeOK
<1> QED BY <1>2, <1>3

LEMMA TypeClaim ==
  ASSUME TypeOK, NEW k \in Keys, NEW r \in Rounds, claim_waln(k, r)
  PROVE  TypeOK'
<1> DEFINE rlw == round_locked_waln[r]
<1>1. rlw \in RoundLockedWalnType /\ 0 \in U64
  BY U64Nats DEF TypeOK, U64
<1>2. PICK i \in Slots :
        LET amount == rlw.entries[i].waln_amount
        IN  /\ amount > 0
            /\ amount =< waln_vault
            /\ waln_vault' = waln_vault - amount
            /\ paid_waln' = [paid_waln EXCEPT ![k] = @ + amount]
            /\ rlw.remaining_to_claim > 0
            /\ IF rlw.remaining_to_claim = 1
               THEN /\ treasury + rlw.lamports =< U64_MAX
                    /\ treasury' = treasury + rlw.lamports
                    /\ round_locked_waln' = [round_locked_waln EXCEPT ![r] = NoLockedWaln]
               ELSE /\ UNCHANGED treasury
                    /\ round_locked_waln' = [round_locked_waln EXCEPT
                                               ![r].entries[i].waln_amount = 0,
                                               ![r].remaining_to_claim = @ - 1]
  BY DEF claim_waln
<1>3. rlw.entries[i].waln_amount \in Nat
  BY <1>1, U64Nats DEF RoundLockedWalnType, InvestorAlloc
<1>4. waln_vault' \in 0 .. WALN_SUPPLY /\ paid_waln' \in [Keys -> Nat]
  <2>1. WALN_SUPPLY \in Nat
    BY FloorProgramAssumption, U64Nats
  <2> QED BY <1>2, <1>3, <2>1 DEF TypeOK
<1>5. treasury' \in U64
  <2>1. rlw.lamports \in Nat /\ treasury \in Nat
    BY <1>1, U64Nats DEF RoundLockedWalnType, TypeOK
  <2>2. \/ treasury' = treasury
        \/ treasury' = treasury + rlw.lamports /\ treasury' =< U64_MAX
    <3>1. CASE rlw.remaining_to_claim = 1
      BY <1>2, <3>1
    <3>2. CASE rlw.remaining_to_claim # 1
      BY <1>2, <3>2
    <3> QED BY <3>1, <3>2
  <2> HIDE DEF rlw
  <2> QED BY <2>1, <2>2, U64Nats DEF TypeOK, U64
<1>6. round_locked_waln' \in [Rounds -> RoundLockedWalnType]
  <2>1. CASE rlw.remaining_to_claim = 1
    <3>1. NoLockedWaln \in RoundLockedWalnType
      BY <1>1 DEF NoLockedWaln, RoundLockedWalnType, NoEntries, InvestorAlloc
    <3> QED BY <1>2, <2>1, <3>1 DEF TypeOK
  <2>2. CASE rlw.remaining_to_claim # 1
    <3>1. round_locked_waln' = [round_locked_waln EXCEPT
                                  ![r].entries[i].waln_amount = 0,
                                  ![r].remaining_to_claim = @ - 1]
      BY <1>2, <2>2
    <3>2. rlw.remaining_to_claim - 1 \in Nat
      BY <1>1, <1>2 DEF RoundLockedWalnType
    <3>3. rlw.entries[i] \in InvestorAlloc /\ rlw.entries \in [Slots -> InvestorAlloc]
      BY <1>1 DEF RoundLockedWalnType
    <3>4. [rlw.entries[i] EXCEPT !.waln_amount = 0] \in InvestorAlloc
      BY <1>1, <3>3 DEF InvestorAlloc
    <3>5. [rlw.entries EXCEPT ![i] = [rlw.entries[i] EXCEPT !.waln_amount = 0]]
            \in [Slots -> InvestorAlloc]
      BY <3>3, <3>4
    <3>6. round_locked_waln'[r] =
            [rlw EXCEPT !.entries = [rlw.entries EXCEPT
                                       ![i] = [rlw.entries[i] EXCEPT !.waln_amount = 0]],
                        !.remaining_to_claim = rlw.remaining_to_claim - 1]
      BY <3>1 DEF TypeOK
    <3>7. round_locked_waln'[r] \in RoundLockedWalnType
      BY <1>1, <3>2, <3>5, <3>6 DEF RoundLockedWalnType
    <3> QED BY <3>1, <3>7 DEF TypeOK
  <2> QED BY <2>1, <2>2
<1> QED BY <1>4, <1>5, <1>6 DEF claim_waln, poolVars, nftVars, TypeOK

\* Every step keeps the types.
LEMMA TypeNext == TypeOK /\ [Next]_vars => TypeOK'
<1> SUFFICES ASSUME TypeOK, [Next]_vars PROVE TypeOK'
  OBVIOUS
<1> USE DEF poolVars, nftVars, claimVars
<1>1. /\ Prices \subseteq U64 /\ Sizes \subseteq U64 /\ AatVolumes \subseteq U64
      /\ UsdcAmounts \subseteq U64 /\ WalnAmounts \subseteq U64
      /\ LamportAmounts \subseteq U64
      /\ LockPeriods \subseteq Int /\ WithdrawLocks \subseteq Int
      /\ UnlockTimes \subseteq Int /\ Switches \subseteq BOOLEAN
  BY FloorProgramAssumption
<1>2. ASSUME NEW price \in Prices, set_floor_price(price) PROVE TypeOK'
  <2>1. [config EXCEPT !.floor_price_usdc = price] \in ConfigType
    BY <1>1 DEF TypeOK, ConfigType
  <2> QED BY <1>2, <2>1, TypeConfig DEF set_floor_price
<1>3. ASSUME NEW size \in Sizes, set_round_size(size) PROVE TypeOK'
  <2>1. [config EXCEPT !.round_size_waln = size] \in ConfigType
    BY <1>1 DEF TypeOK, ConfigType
  <2> QED BY <1>3, <2>1, TypeConfig DEF set_round_size
<1>4. ASSUME NEW lock \in LockPeriods, set_lock_period(lock) PROVE TypeOK'
  <2>1. [config EXCEPT !.lock_period_seconds = lock] \in ConfigType
    BY <1>1 DEF TypeOK, ConfigType
  <2> QED BY <1>4, <2>1, TypeConfig DEF set_lock_period
<1>5. ASSUME NEW lock \in WithdrawLocks, set_usdc_withdraw_lock(lock) PROVE TypeOK'
  <2>1. [config EXCEPT !.usdc_withdraw_lock_seconds = lock] \in ConfigType
    BY <1>1 DEF TypeOK, ConfigType
  <2> QED BY <1>5, <2>1, TypeConfig DEF set_usdc_withdraw_lock
<1>6. ASSUME NEW b \in Switches, set_sell_paused(b) \/ set_frozen(b) PROVE TypeOK'
  <2>1. /\ [config EXCEPT !.sell_paused = b] \in ConfigType
        /\ [config EXCEPT !.frozen = b] \in ConfigType
    BY <1>1 DEF TypeOK, ConfigType
  <2> QED BY <1>6, <2>1, TypeConfig DEF set_sell_paused, set_frozen
<1>7. ASSUME NEW k \in Keys, NEW ts \in UnlockTimes, set_investor_usdc_unlock(k, ts)
      PROVE  TypeOK'
  <2>1. investors' \in [Slots -> InvestorRecord]
    BY <1>1, <1>7 DEF set_investor_usdc_unlock, TypeOK, InvestorRecord
  <2> QED BY <1>7, <2>1 DEF set_investor_usdc_unlock, TypeOK
<1>8. ASSUME NEW k \in Keys, NEW volume \in AatVolumes,
             mint_aat_nft(k, volume) \/ update_aat_volume(k, volume)
      PROVE  TypeOK'
  BY <1>1, <1>8, TypeNfts
<1>9. ASSUME NEW k \in Keys, remove_investor_from_pool(k) PROVE TypeOK'
  BY <1>9, TypeRemove
<1>10. ASSUME NEW amount \in LamportAmounts,
              fund_treasury(amount) \/ withdraw_treasury(amount)
       PROVE  TypeOK'
  <2>1. amount \in Nat /\ treasury \in Nat /\ SOL_SUPPLY \in U64
    BY <1>1, U64Nats, FloorProgramAssumption DEF TypeOK
  <2>2. treasury' \in U64
    <3>1. CASE fund_treasury(amount)
      BY <2>1, <3>1, U64Nats DEF fund_treasury, U64
    <3>2. CASE withdraw_treasury(amount)
      BY <2>1, <3>2, U64Nats DEF withdraw_treasury, TypeOK
    <3> QED BY <1>10, <3>1, <3>2
  <2> QED BY <1>10, <2>2 DEF fund_treasury, withdraw_treasury, TypeOK
<1>11. CASE cancel_round
  <2>1. round' \in RoundType
    BY <1>11, U64Nats DEF cancel_round, TypeOK, RoundType, U64
  <2>2. investors' \in [Slots -> InvestorRecord]
    <3> DEFINE new == [i \in Slots |->
                [investors[i] EXCEPT
                   !.usdc_deposited = @ + investors[i].usdc_locked_current_round,
                   !.usdc_locked_current_round = 0]]
    <3>1. investors' = new /\ FitsU64(new)
      BY <1>11 DEF cancel_round
    <3>2. ASSUME NEW i \in Slots PROVE new[i] \in InvestorRecord
      <4>1. investors[i] \in InvestorRecord
        BY DEF TypeOK
      <4>2. new[i].usdc_deposited \in U64 /\ new[i].usdc_locked_current_round \in U64
        BY <3>1 DEF FitsU64
      <4> QED BY <4>1, <4>2 DEF InvestorRecord
    <3> QED BY <3>1, <3>2
  <2> QED BY <1>11, <2>1, <2>2 DEF cancel_round, TypeOK
<1>12. CASE close_round
  BY <1>12, TypeClose
<1>13. ASSUME NEW r \in Rounds, close_round_record(r) PROVE TypeOK'
  <2>1. round_record[r].lamports \in Nat /\ treasury \in Nat
    BY U64Nats DEF TypeOK, RoundRecordType
  <2>2. treasury' \in U64
    BY <1>13, <2>1, U64Nats DEF close_round_record, U64
  <2>3. NoRecord \in RoundRecordType
    BY U64Nats DEF NoRecord, RoundRecordType, U64
  <2> QED BY <1>13, <2>2, <2>3 DEF close_round_record, TypeOK
<1>14. ASSUME NEW k \in Keys, NEW amount \in UsdcAmounts,
              deposit_usdc(k, amount) \/ withdraw_usdc(k, amount)
       PROVE  TypeOK'
  BY <1>1, <1>14, TypeDeposit, TypeWithdraw
<1>15. ASSUME NEW max \in WalnAmounts, sell_waln(max) \/ sell_waln_filling(max)
       PROVE  TypeOK'
  BY <1>1, <1>15, TypeSell, TypeFill
<1>16. ASSUME NEW k \in Keys, NEW r \in Rounds, claim_waln(k, r) PROVE TypeOK'
  BY <1>16, TypeClaim
<1>17. ASSUME NEW r \in Rounds, NEW amount \in LamportAmounts, PrefundLocked(r, amount)
       PROVE  TypeOK'
  <2>1. amount \in Nat
    BY <1>1, U64Nats
  <2>2. round_locked_waln' \in [Rounds -> RoundLockedWalnType]
    BY <1>17, <2>1 DEF PrefundLocked, TypeOK, RoundLockedWalnType
  <2> QED BY <1>17, <2>2 DEF PrefundLocked, TypeOK
<1>18. ASSUME NEW r \in Rounds, NEW amount \in LamportAmounts, PrefundRecord(r, amount)
       PROVE  TypeOK'
  <2>1. amount \in Nat
    BY <1>1, U64Nats
  <2>2. round_record' \in [Rounds -> RoundRecordType]
    BY <1>18, <2>1 DEF PrefundRecord, TypeOK, RoundRecordType
  <2> QED BY <1>18, <2>2 DEF PrefundRecord, TypeOK
<1>19. CASE Tick
  BY <1>19, FloorProgramAssumption DEF Tick, TypeOK
<1>20. CASE UNCHANGED vars
  BY <1>20 DEF vars, TypeOK
<1>21. CASE AdminNext
  BY <1>2, <1>3, <1>4, <1>5, <1>6, <1>7, <1>8, <1>9, <1>10, <1>11, <1>12, <1>13, <1>21
     DEF AdminNext
<1>22. CASE UserNext
  BY <1>14, <1>15, <1>16, <1>17, <1>18, <1>22 DEF UserNext
<1> QED BY <1>19, <1>20, <1>21, <1>22 DEF Next

\* TypeOK holds in every reachable state, for all constants: no instruction
\* takes a field of an account out of its type.
THEOREM TypeCorrect == Spec => []TypeOK
BY TypeInit, TypeNext, PTL DEF Spec

-----------------------------------------------------------------------------
\* Sums over the slots

\* The slots' terms are integers, and positions are deposits plus locks.
LEMMA PoolSums ==
  ASSUME NEW inv \in PoolType
  PROVE  /\ \A i \in 1 .. MAX_INVESTORS : PositionsOf(inv)[i] \in Nat
         /\ \A i \in 1 .. MAX_INVESTORS : Locks(inv)[i] \in Nat
         /\ \A i \in 1 .. MAX_INVESTORS : Deposits(inv)[i] \in Nat
         /\ Sum(Locks(inv), MAX_INVESTORS) \in Nat
         /\ Sum(PositionsOf(inv), MAX_INVESTORS) \in Nat
         /\ Sum(PositionsOf(inv), MAX_INVESTORS) =
              Sum(Deposits(inv), MAX_INVESTORS) + Sum(Locks(inv), MAX_INVESTORS)
<1>1. PoolOfNats(inv)
  BY PoolTypeNats
<1>2. /\ \A i \in 1 .. MAX_INVESTORS : PositionsOf(inv)[i] \in Nat
      /\ \A i \in 1 .. MAX_INVESTORS : Locks(inv)[i] \in Nat
      /\ \A i \in 1 .. MAX_INVESTORS : Deposits(inv)[i] \in Nat
      /\ \A i \in 1 .. MAX_INVESTORS :
           PositionsOf(inv)[i] = Deposits(inv)[i] + Locks(inv)[i]
  BY <1>1 DEF PoolOfNats, PositionsOf, Locks, Deposits, Slots
<1>3. MAX_INVESTORS \in Nat
  BY RoundMathAssumption
<1>4. Sum(Locks(inv), MAX_INVESTORS) \in Nat /\ Sum(PositionsOf(inv), MAX_INVESTORS) \in Nat
  BY <1>2, <1>3, SumNat
<1>5. Sum(PositionsOf(inv), MAX_INVESTORS) =
        Sum(Deposits(inv), MAX_INVESTORS) + Sum(Locks(inv), MAX_INVESTORS)
  BY <1>2, <1>3, SumAdd
<1> QED BY <1>2, <1>4, <1>5

\* A round that starts when nothing is locked moves deposits to locks and
\* changes no position; the locks sum to the total it reports.
LEMMA StartSums ==
  ASSUME NEW inv \in PoolType, NEW cnt, NEW size \in U64, NEW price \in U64,
         RoundCanStart(inv, cnt, size, price),
         \A i \in Slots : inv[i].usdc_locked_current_round = 0
  PROVE  LET new == execute_round_start(inv, cnt, size, price)
         IN  /\ Sum(PositionsOf(new), MAX_INVESTORS) = Sum(PositionsOf(inv), MAX_INVESTORS)
             /\ Sum(Locks(new), MAX_INVESTORS) =
                  Sum(NewLocks(inv, cnt, size, price), MAX_INVESTORS)
<1> DEFINE new == execute_round_start(inv, cnt, size, price)
           locks == NewLocks(inv, cnt, size, price)
<1>1. ASSUME NEW i \in Slots
      PROVE  /\ locks[i] \in Nat /\ inv[i].usdc_deposited \in Nat
             /\ new[i].usdc_deposited = inv[i].usdc_deposited - locks[i]
             /\ new[i].usdc_locked_current_round = locks[i]
  <2>1. inv[i].usdc_deposited \in Nat
    BY PoolTypeNats DEF PoolOfNats
  <2>2. /\ locks[i] \in 0 .. inv[i].usdc_deposited
        /\ new[i].usdc_deposited = inv[i].usdc_deposited - locks[i]
        /\ new[i].usdc_locked_current_round = IF locks[i] > 0 THEN locks[i] ELSE 0
    BY StartSlot
  <2> HIDE DEF new, locks
  <2> QED BY <2>1, <2>2
<1> HIDE DEF new, locks
<1>2. \A i \in 1 .. MAX_INVESTORS : PositionsOf(new)[i] = PositionsOf(inv)[i]
  BY <1>1 DEF PositionsOf, Slots
<1>3. \A i \in 1 .. MAX_INVESTORS : Locks(new)[i] = locks[i]
  BY <1>1 DEF Locks, Slots
<1>4. MAX_INVESTORS \in Nat
  BY RoundMathAssumption
<1>5. Sum(PositionsOf(new), MAX_INVESTORS) = Sum(PositionsOf(inv), MAX_INVESTORS)
  BY <1>2, <1>4, SumEqual
<1>6. Sum(Locks(new), MAX_INVESTORS) = Sum(locks, MAX_INVESTORS)
  BY <1>3, <1>4, SumEqual
<1> QED BY <1>5, <1>6 DEF new, locks

\* The settlement of a filled round takes every lock, and nothing else.
LEMMA FilledSums ==
  ASSUME NEW inv \in PoolType, NEW allocs
  PROVE  LET new == FilledPool(inv, allocs)
         IN  /\ Sum(PositionsOf(new), MAX_INVESTORS) =
                  Sum(PositionsOf(inv), MAX_INVESTORS) - Sum(Locks(inv), MAX_INVESTORS)
             /\ \A i \in Slots : new[i].usdc_locked_current_round = 0
             /\ Sum(Locks(new), MAX_INVESTORS) = 0
<1> DEFINE new == FilledPool(inv, allocs)
<1>1. MAX_INVESTORS \in Nat
  BY RoundMathAssumption
<1>2. \A i \in Slots : /\ new[i].usdc_locked_current_round = 0
                       /\ new[i].usdc_deposited = inv[i].usdc_deposited
                       /\ inv[i].usdc_deposited \in Nat
  BY FilledSlot, PoolTypeNats DEF PoolOfNats
<1> HIDE DEF new
<1>3. \A i \in 1 .. MAX_INVESTORS : PositionsOf(new)[i] = Deposits(inv)[i]
  BY <1>2 DEF PositionsOf, Deposits, Slots
<1>4. Sum(PositionsOf(new), MAX_INVESTORS) = Sum(Deposits(inv), MAX_INVESTORS)
  BY <1>1, <1>3, SumEqual
<1>5. Sum(Deposits(inv), MAX_INVESTORS) =
        Sum(PositionsOf(inv), MAX_INVESTORS) - Sum(Locks(inv), MAX_INVESTORS)
  <2>1. Sum(Deposits(inv), MAX_INVESTORS) \in Nat
    BY <1>1, PoolSums, SumNat
  <2> QED BY <2>1, PoolSums
<1>6. Sum(Locks(new), MAX_INVESTORS) = 0
  <2>1. \A i \in 1 .. MAX_INVESTORS : Locks(new)[i] = 0
    BY <1>2 DEF Locks, Slots
  <2> QED BY <1>1, <2>1, SumZeros
<1> QED BY <1>2, <1>4, <1>5, <1>6 DEF new

\* A forced close takes what was spent, and nothing else.
LEMMA ClosedSums ==
  ASSUME NEW inv \in PoolType, NEW spent, NEW allocs,
         \A i \in Slots : spent[i] \in Nat
  PROVE  LET new == ClosedPool(inv, spent, allocs)
         IN  /\ Sum(PositionsOf(new), MAX_INVESTORS) =
                  Sum(PositionsOf(inv), MAX_INVESTORS) - Sum(spent, MAX_INVESTORS)
             /\ \A i \in Slots : new[i].usdc_locked_current_round = 0
             /\ Sum(Locks(new), MAX_INVESTORS) = 0
<1> DEFINE new == ClosedPool(inv, spent, allocs)
<1>1. MAX_INVESTORS \in Nat
  BY RoundMathAssumption
<1>2. ASSUME NEW i \in Slots
      PROVE  /\ new[i].usdc_locked_current_round = 0
             /\ new[i].usdc_deposited = inv[i].usdc_deposited
                   + (inv[i].usdc_locked_current_round - spent[i])
             /\ inv[i].usdc_deposited \in Nat
             /\ inv[i].usdc_locked_current_round \in Nat
             /\ spent[i] \in Nat
  BY ClosedSlot, PoolTypeNats DEF PoolOfNats
<1> HIDE DEF new
<1>3. \A i \in 1 .. MAX_INVESTORS : /\ PositionsOf(new)[i] \in Int
                                    /\ spent[i] \in Int
                                    /\ PositionsOf(inv)[i] = PositionsOf(new)[i] + spent[i]
  BY <1>2 DEF PositionsOf, Slots
<1>4. Sum(PositionsOf(inv), MAX_INVESTORS) =
        Sum(PositionsOf(new), MAX_INVESTORS) + Sum(spent, MAX_INVESTORS)
  BY <1>1, <1>3, SumAdd
<1>5. Sum(PositionsOf(new), MAX_INVESTORS) \in Int /\ Sum(spent, MAX_INVESTORS) \in Int
  BY <1>1, <1>3, SumInt
<1>6. Sum(Locks(new), MAX_INVESTORS) = 0
  <2>1. \A i \in 1 .. MAX_INVESTORS : Locks(new)[i] = 0
    BY <1>2 DEF Locks, Slots
  <2> QED BY <1>1, <2>1, SumZeros
<1>7. Sum(PositionsOf(new), MAX_INVESTORS) =
        Sum(PositionsOf(inv), MAX_INVESTORS) - Sum(spent, MAX_INVESTORS)
  BY <1>4, <1>5
<1> QED BY <1>2, <1>6, <1>7 DEF new

\* What a forced close charges each slot is a natural number, and nothing to a
\* slot that has nothing locked.
LEMMA SpentNat ==
  ASSUME NEW inv \in PoolType, NEW paid \in Nat, paid > 0,
         paid =< Sum(Locks(inv), MAX_INVESTORS), NEW i \in Slots
  PROVE  /\ close_round_usdc_spent(inv, paid)[i] \in Nat
         /\ inv[i].usdc_locked_current_round = 0 =>
              close_round_usdc_spent(inv, paid)[i] = 0
<1> DEFINE L == Sum(Locks(inv), MAX_INVESTORS)
           lock == inv[i].usdc_locked_current_round
           base == base_usdc_spent(inv, paid)
<1>1. L \in Nat /\ L > 0 /\ lock \in Nat
  BY PoolSums, PoolTypeNats DEF PoolOfNats
<1>2. base[i] = (paid * lock) \div L
  BY DEF base_usdc_spent
<1>3. paid * lock \in Nat
  BY <1>1
<1>4. base[i] \in Nat
  <2> HIDE DEF base, lock, L
  <2> QED BY <1>1, <1>2, <1>3, DivNat
<1>5. lock = 0 => base[i] = 0
  <2> SUFFICES ASSUME lock = 0 PROVE base[i] = 0
    OBVIOUS
  <2>1. paid * lock = 0
    BY <1>1
  <2>2. 0 \div L = 0
    BY <1>1
  <2> HIDE DEF base, lock, L
  <2> QED BY <1>2, <2>1, <2>2
<1>6. /\ close_round_usdc_spent(inv, paid)[i] \in {base[i], base[i] + 1}
      /\ close_round_usdc_spent(inv, paid)[i] = base[i] + 1 => base[i] < lock
  BY <1>4 DEF close_round_usdc_spent
<1> HIDE DEF base, lock
<1> QED BY <1>1, <1>4, <1>5, <1>6 DEF lock

-----------------------------------------------------------------------------
\* The inductive invariant

\* A slot that is not in use holds no USDC.
EmptySlots ==
  \A i \in Slots : i > count => /\ investors[i].usdc_deposited = 0
                                /\ investors[i].usdc_locked_current_round = 0

Books == LobbyAccounting /\ LocksMatchRound /\ EmptySlots

\* The books depend only on the round's totals and on each slot's two amounts.
LEMMA BooksSame ==
  ASSUME Books, UNCHANGED <<round, total_usdc_in_lobby, count>>,
         \A i \in Slots :
           /\ investors'[i].usdc_deposited = investors[i].usdc_deposited
           /\ investors'[i].usdc_locked_current_round
                = investors[i].usdc_locked_current_round
  PROVE  Books'
<1>1. Positions' = Positions /\ Locks(investors') = Locks(investors)
  BY DEF Positions, Locks
<1>2. LobbyAccounting'
  BY <1>1 DEF Books, LobbyAccounting
<1>3. LocksMatchRound'
  BY <1>1 DEF Books, LocksMatchRound, IsParticipant
<1>4. EmptySlots'
  BY DEF Books, EmptySlots
<1> QED BY <1>2, <1>3, <1>4 DEF Books

LEMMA BooksInit == Init => Books
<1> SUFFICES ASSUME Init PROVE Books
  OBVIOUS
<1>1. \A i \in Slots : /\ investors[i].usdc_deposited = 0
                       /\ investors[i].usdc_locked_current_round = 0
  BY DEF Init, NewRecord
<1>2. \A i \in 1 .. MAX_INVESTORS : Positions[i] = 0 /\ Locks(investors)[i] = 0
  BY <1>1 DEF Positions, Locks, Slots
<1>3. Sum(Positions, MAX_INVESTORS) = 0 /\ Sum(Locks(investors), MAX_INVESTORS) = 0
  BY <1>2, SumZeros, RoundMathAssumption
<1>4. LobbyAccounting
  BY <1>3 DEF Init, LobbyAccounting
<1>5. LocksMatchRound
  BY <1>1, <1>3 DEF Init, LocksMatchRound, IsParticipant
<1>6. EmptySlots
  BY <1>1 DEF EmptySlots
<1> QED BY <1>4, <1>5, <1>6 DEF Books

\* One slot's deposit changes by d, and so does the total.
LEMMA BooksMove ==
  ASSUME TypeOK, Books, UNCHANGED round, NEW j \in Slots, j =< count', count' \in Nat,
         count =< count', NEW d \in Int, total_usdc_in_lobby' = total_usdc_in_lobby + d,
         investors'[j].usdc_deposited = investors[j].usdc_deposited + d,
         investors'[j].usdc_locked_current_round
           = investors[j].usdc_locked_current_round,
         \A i \in Slots : i # j => investors'[i] = investors[i]
  PROVE  Books'
<1>1. investors \in PoolType /\ count \in Nat /\ MAX_INVESTORS \in Nat
  BY RoundMathAssumption DEF TypeOK, PoolType
<1>2. \A i \in Slots : /\ investors[i].usdc_deposited \in Nat
                       /\ investors[i].usdc_locked_current_round \in Nat
  BY <1>1, PoolTypeNats DEF PoolOfNats
<1>3. \A i \in Slots : investors'[i].usdc_locked_current_round
                         = investors[i].usdc_locked_current_round
  OBVIOUS
<1>4. Locks(investors') = Locks(investors)
  BY <1>3 DEF Locks
<1>5. LocksMatchRound'
  BY <1>3, <1>4 DEF Books, LocksMatchRound, IsParticipant
<1>6. EmptySlots'
  <2>1. \A i \in Slots : i > count' => i # j /\ i > count
    BY <1>1 DEF Slots
  <2> QED BY <2>1 DEF Books, EmptySlots
<1>7. Sum(Positions', MAX_INVESTORS) = Sum(Positions, MAX_INVESTORS) + d
  <2>1. \A i \in 1 .. MAX_INVESTORS : Positions[i] \in Int
    BY <1>2 DEF Positions, Slots
  <2>2. \A i \in 1 .. MAX_INVESTORS :
          Positions'[i] = IF i = j THEN Positions[i] + d ELSE Positions[i]
    BY <1>2 DEF Positions, Slots
  <2>3. j \in 1 .. MAX_INVESTORS
    BY DEF Slots
  <2> QED BY <1>1, <2>1, <2>2, <2>3, SumUpdate
<1>8. LobbyAccounting'
  BY <1>7 DEF Books, LobbyAccounting
<1> QED BY <1>5, <1>6, <1>8 DEF Books

LEMMA BooksDeposit ==
  ASSUME TypeOK, Books, NEW k \in Keys, NEW amount \in U64, deposit_usdc(k, amount)
  PROVE  Books'
<1>1. /\ investors \in PoolType /\ count \in Nat /\ amount \in Nat
      /\ MAX_INVESTORS \in Nat
  BY U64Nats, RoundMathAssumption DEF TypeOK, PoolType
<1>2. /\ total_usdc_in_lobby' = total_usdc_in_lobby + amount
      /\ UNCHANGED round
  BY DEF deposit_usdc
<1>3. CASE \E i \in Slots :
             /\ IsSlotOf(i, k)
             /\ investors' = [investors EXCEPT ![i] = Deposited(investors[i], k, amount)]
             /\ UNCHANGED count
  <2>1. PICK i \in Slots :
             /\ i =< count
             /\ investors' = [investors EXCEPT ![i] = Deposited(investors[i], k, amount)]
             /\ UNCHANGED count
    BY <1>3 DEF IsSlotOf
  <2>2. investors[i] \in InvestorRecord
    BY <1>1 DEF PoolType
  <2>3. investors'[i] = Deposited(investors[i], k, amount)
    BY <1>1, <2>1 DEF PoolType
  <2>4. /\ investors'[i].usdc_deposited = investors[i].usdc_deposited + amount
        /\ investors'[i].usdc_locked_current_round
             = investors[i].usdc_locked_current_round
    BY <2>2, <2>3 DEF Deposited, InvestorRecord
  <2>5. \A j \in Slots : j # i => investors'[j] = investors[j]
    BY <1>1, <2>1 DEF PoolType
  <2>6. i =< count' /\ count' \in Nat /\ count =< count' /\ amount \in Int
    BY <1>1, <2>1
  <2> QED BY <1>2, <2>4, <2>5, <2>6, BooksMove
<1>4. CASE /\ ~ InPool(k)
           /\ investors' = [investors EXCEPT ![count + 1] =
                               Deposited(NewRecord(k), k, amount)]
           /\ count' = count + 1
  <2>1. count + 1 \in Slots
    BY <1>1, <1>4 DEF deposit_usdc, Slots
  <2>2. investors'[count + 1] = Deposited(NewRecord(k), k, amount)
    BY <1>1, <1>4, <2>1 DEF PoolType
  <2>3. /\ investors'[count + 1].usdc_deposited = 0 + amount
        /\ investors'[count + 1].usdc_locked_current_round = 0
    BY <2>2 DEF Deposited, NewRecord
  <2>4. /\ investors[count + 1].usdc_deposited = 0
        /\ investors[count + 1].usdc_locked_current_round = 0
    BY <1>1, <2>1 DEF Books, EmptySlots
  <2>5. \A j \in Slots : j # count + 1 => investors'[j] = investors[j]
    BY <1>1, <1>4 DEF PoolType
  <2>6. count + 1 =< count' /\ count' \in Nat /\ count =< count' /\ amount \in Int
    BY <1>1, <1>4
  <2> QED BY <1>2, <2>1, <2>3, <2>4, <2>5, <2>6, BooksMove
<1> QED BY <1>3, <1>4 DEF deposit_usdc

LEMMA BooksWithdraw ==
  ASSUME TypeOK, Books, NEW k \in Keys, NEW amount \in U64, withdraw_usdc(k, amount)
  PROVE  Books'
<1>1. investors \in PoolType /\ count \in Nat /\ UNCHANGED <<round, count>>
  BY DEF withdraw_usdc, TypeOK, PoolType
<1>2. PICK i \in Slots :
        LET available == investors[i].usdc_deposited
            w == IF amount = U64_MAX THEN available ELSE amount
        IN  /\ i =< count
            /\ investors' = [investors EXCEPT ![i].usdc_deposited = available - w]
            /\ total_usdc_in_lobby' = total_usdc_in_lobby - w
  BY DEF withdraw_usdc, IsSlotOf
<1> DEFINE available == investors[i].usdc_deposited
           w == IF amount = U64_MAX THEN available ELSE amount
<1>3. available \in Nat /\ w \in Nat /\ total_usdc_in_lobby \in Nat
  BY <1>1, U64Nats, PoolTypeNats DEF TypeOK, PoolOfNats
<1>4. investors[i] \in InvestorRecord
  BY <1>1 DEF PoolType
<1>5. /\ investors'[i].usdc_deposited = available - w
      /\ investors'[i].usdc_locked_current_round
           = investors[i].usdc_locked_current_round
      /\ \A j \in Slots : j # i => investors'[j] = investors[j]
  BY <1>1, <1>2, <1>4 DEF PoolType, InvestorRecord
<1>6. PICK d \in Int : d = 0 - w
  BY <1>3
<1>7. /\ total_usdc_in_lobby' = total_usdc_in_lobby + d
      /\ investors'[i].usdc_deposited = investors[i].usdc_deposited + d
  BY <1>2, <1>3, <1>5, <1>6
<1>8. i =< count' /\ count' \in Nat /\ count =< count'
  BY <1>1, <1>2
<1> QED BY <1>1, <1>5, <1>7, <1>8, BooksMove

LEMMA BooksRemove ==
  ASSUME TypeOK, Books, NEW k \in Keys, remove_investor_from_pool(k)
  PROVE  Books'
<1>1. /\ investors \in PoolType /\ count \in Nat /\ MAX_INVESTORS \in Nat
      /\ count \in 0 .. MAX_INVESTORS
      /\ count' = count - 1 /\ UNCHANGED round
  BY RoundMathAssumption DEF remove_investor_from_pool, TypeOK, PoolType
<1>2. PICK j \in Slots :
        /\ j =< count
        /\ investors[j].usdc_locked_current_round = 0
        /\ total_usdc_in_lobby' = total_usdc_in_lobby - investors[j].usdc_deposited
        /\ investors' = [investors EXCEPT ![j] = investors[count],
                                          ![count] = NewRecord(NoKey)]
  BY DEF remove_investor_from_pool, IsSlotOf
<1>3. count \in Slots
  BY <1>1, <1>2 DEF Slots
<1>4. \A i \in Slots : investors'[i] = IF i = count THEN NewRecord(NoKey)
                                       ELSE IF i = j THEN investors[count]
                                       ELSE investors[i]
  BY <1>1, <1>2, <1>3 DEF PoolType
<1>5. /\ NewRecord(NoKey).usdc_deposited = 0
      /\ NewRecord(NoKey).usdc_locked_current_round = 0
  BY DEF NewRecord
<1>6. \A i \in Slots : /\ investors[i].usdc_deposited \in Nat
                       /\ investors[i].usdc_locked_current_round \in Nat
  BY <1>1, PoolTypeNats DEF PoolOfNats
<1>7. j \in 1 .. MAX_INVESTORS /\ count \in 1 .. MAX_INVESTORS
  BY <1>3 DEF Slots
<1>8. LobbyAccounting'
  <2>1. \A i \in 1 .. MAX_INVESTORS : Positions[i] \in Int
    BY <1>6 DEF Positions, Slots
  <2>2. \A i \in 1 .. MAX_INVESTORS :
          Positions'[i] = IF i = count THEN 0 ELSE IF i = j THEN Positions[count]
                          ELSE Positions[i]
    BY <1>3, <1>4, <1>5 DEF Positions, Slots
  <2>3. Sum(Positions', MAX_INVESTORS) = Sum(Positions, MAX_INVESTORS) - Positions[j]
    BY <1>1, <1>7, <2>1, <2>2, SumSwapRemove
  <2>4. Positions[j] = investors[j].usdc_deposited
    BY <1>2, <1>6 DEF Positions
  <2> QED BY <1>2, <2>3, <2>4 DEF Books, LobbyAccounting
<1>9. LocksMatchRound'
  <2>1. \A i \in 1 .. MAX_INVESTORS : Locks(investors)[i] \in Int
    BY <1>6 DEF Locks, Slots
  <2>2. \A i \in 1 .. MAX_INVESTORS :
          Locks(investors')[i] = IF i = count THEN 0
                                 ELSE IF i = j THEN Locks(investors)[count]
                                 ELSE Locks(investors)[i]
    BY <1>3, <1>4, <1>5 DEF Locks, Slots
  <2>3. Sum(Locks(investors'), MAX_INVESTORS)
          = Sum(Locks(investors), MAX_INVESTORS) - Locks(investors)[j]
    BY <1>1, <1>7, <2>1, <2>2, SumSwapRemove
  <2>4. Locks(investors)[j] = 0
    BY <1>2 DEF Locks
  <2>5. Sum(Locks(investors), MAX_INVESTORS) \in Int
    BY <1>1, <2>1, SumInt
  <2>6. Sum(Locks(investors'), MAX_INVESTORS) = Sum(Locks(investors), MAX_INVESTORS)
    BY <2>3, <2>4, <2>5
  <2>7. (\A i \in Slots : ~ IsParticipant(investors, i)) =>
          \A i \in Slots : ~ IsParticipant(investors', i)
    BY <1>3, <1>4, <1>5 DEF IsParticipant
  <2> QED BY <1>1, <2>6, <2>7 DEF Books, LocksMatchRound
<1>10. EmptySlots'
  <2> SUFFICES ASSUME NEW i \in Slots, i > count'
               PROVE  /\ investors'[i].usdc_deposited = 0
                      /\ investors'[i].usdc_locked_current_round = 0
    BY DEF EmptySlots
  <2>1. CASE i = count
    BY <1>4, <1>5, <2>1
  <2>2. CASE i # count
    <3>1. i > count /\ i # j
      BY <1>1, <1>2, <2>2 DEF Slots
    <3>2. investors'[i] = investors[i]
      BY <1>4, <2>2, <3>1
    <3> QED BY <3>1, <3>2 DEF Books, EmptySlots
  <2> QED BY <2>1, <2>2
<1> QED BY <1>8, <1>9, <1>10 DEF Books

LEMMA BooksCancel ==
  ASSUME TypeOK, Books, cancel_round
  PROVE  Books'
<1>1. investors \in PoolType /\ MAX_INVESTORS \in Nat
  BY RoundMathAssumption DEF TypeOK, PoolType
<1>2. ASSUME NEW i \in Slots
      PROVE  /\ investors'[i].usdc_deposited = investors[i].usdc_deposited
                                                 + investors[i].usdc_locked_current_round
             /\ investors'[i].usdc_locked_current_round = 0
             /\ investors[i].usdc_deposited \in Nat
             /\ investors[i].usdc_locked_current_round \in Nat
  <2>1. investors[i] \in InvestorRecord
    BY <1>1 DEF PoolType
  <2>2. investors'[i] = [investors[i] EXCEPT
                           !.usdc_deposited = @ + investors[i].usdc_locked_current_round,
                           !.usdc_locked_current_round = 0]
    BY DEF cancel_round
  <2> QED BY <1>1, <2>1, <2>2, PoolTypeNats DEF PoolOfNats, InvestorRecord
<1>3. Sum(Positions', MAX_INVESTORS) = Sum(Positions, MAX_INVESTORS)
  <2>1. \A i \in 1 .. MAX_INVESTORS : Positions'[i] = Positions[i]
    BY <1>2 DEF Positions, Slots
  <2> QED BY <1>1, <2>1, SumEqual
<1>4. LobbyAccounting'
  BY <1>3 DEF Books, LobbyAccounting, cancel_round
<1>5. LocksMatchRound'
  <2>1. \A i \in 1 .. MAX_INVESTORS : Locks(investors')[i] = 0
    BY <1>2 DEF Locks, Slots
  <2>2. Sum(Locks(investors'), MAX_INVESTORS) = 0
    BY <1>1, <2>1, SumZeros
  <2>3. round'.usdc_locked = 0 /\ round'.waln = 0 /\ round'.usdc_spent = 0
    BY DEF cancel_round, TypeOK, RoundType
  <2> QED BY <1>2, <2>2, <2>3 DEF LocksMatchRound, IsParticipant
<1>6. EmptySlots'
  <2>1. UNCHANGED count
    BY DEF cancel_round
  <2> QED BY <1>2, <2>1 DEF Books, EmptySlots
<1> QED BY <1>4, <1>5, <1>6 DEF Books

LEMMA BooksClose ==
  ASSUME TypeOK, Books, close_round
  PROVE  Books'
<1> DEFINE paid   == round.usdc_spent
           spent  == close_round_usdc_spent(investors, paid)
           allocs == ClosedAllocs(investors, round.floor_price, round.waln)
<1>1. investors \in PoolType /\ MAX_INVESTORS \in Nat /\ paid \in Nat
  BY RoundMathAssumption, U64Nats DEF TypeOK, PoolType, RoundType
<1>2. /\ paid > 0 /\ paid =< Sum(Locks(investors), MAX_INVESTORS)
      /\ Sum(spent, MAX_INVESTORS) = paid
      /\ investors' = ClosedPool(investors, spent, allocs)
      /\ total_usdc_in_lobby' = total_usdc_in_lobby - paid
      /\ round' = [round EXCEPT !.started = FALSE, !.waln = 0, !.usdc_spent = 0,
                                !.usdc_locked = 0]
      /\ UNCHANGED count
  BY DEF close_round
<1>3. \A i \in Slots : /\ spent[i] \in Nat
                       /\ investors[i].usdc_locked_current_round = 0 => spent[i] = 0
  BY <1>1, <1>2, SpentNat
<1> HIDE DEF paid, spent, allocs
<1>4. /\ Sum(PositionsOf(investors'), MAX_INVESTORS) =
           Sum(PositionsOf(investors), MAX_INVESTORS) - Sum(spent, MAX_INVESTORS)
      /\ \A i \in Slots : investors'[i].usdc_locked_current_round = 0
      /\ Sum(Locks(investors'), MAX_INVESTORS) = 0
  BY <1>1, <1>2, <1>3, ClosedSums
<1>5. LobbyAccounting'
  <2>1. Positions = PositionsOf(investors) /\ Positions' = PositionsOf(investors')
    BY DEF Positions, PositionsOf
  <2> QED BY <1>2, <1>4, <2>1 DEF Books, LobbyAccounting
<1>6. LocksMatchRound'
  <2>1. round'.usdc_locked = 0 /\ round'.waln = 0 /\ round'.usdc_spent = 0
    BY <1>2 DEF TypeOK, RoundType
  <2> QED BY <1>4, <2>1 DEF LocksMatchRound, IsParticipant
<1>7. EmptySlots'
  <2> SUFFICES ASSUME NEW i \in Slots, i > count
               PROVE  /\ investors'[i].usdc_deposited = 0
                      /\ investors'[i].usdc_locked_current_round = 0
    BY <1>2 DEF EmptySlots
  <2>1. /\ investors[i].usdc_deposited = 0
        /\ investors[i].usdc_locked_current_round = 0
    BY DEF Books, EmptySlots
  <2>2. investors'[i].usdc_deposited = investors[i].usdc_deposited
                    + (investors[i].usdc_locked_current_round - spent[i])
    BY <1>1, <1>2, ClosedSlot
  <2>3. spent[i] = 0
    BY <1>3, <2>1
  <2> QED BY <1>4, <2>1, <2>2, <2>3
<1> QED BY <1>5, <1>6, <1>7 DEF Books

\* Starting a round leaves a slot without USDC as it is.
LEMMA StartEmpty ==
  ASSUME NEW inv \in PoolType, NEW cnt, NEW size \in U64, NEW price \in U64,
         RoundCanStart(inv, cnt, size, price), NEW i \in Slots,
         inv[i].usdc_deposited = 0, inv[i].usdc_locked_current_round = 0
  PROVE  /\ execute_round_start(inv, cnt, size, price)[i].usdc_deposited = 0
         /\ execute_round_start(inv, cnt, size, price)[i].usdc_locked_current_round = 0
<1> DEFINE new  == execute_round_start(inv, cnt, size, price)
           lock == NewLocks(inv, cnt, size, price)[i]
<1>1. /\ lock \in 0 .. inv[i].usdc_deposited
      /\ lock = 0 => new[i] = inv[i]
  BY StartSlot
<1> HIDE DEF new, lock
<1>2. new[i] = inv[i]
  BY <1>1
<1> QED BY <1>2 DEF new

\* The pool and the round that a sale runs in balance, also when the sale has
\* just started the round.
LEMMA BooksOpen ==
  ASSUME TypeOK, Books, NEW max, Sale(max)
  PROVE  /\ OpenRound.started
         /\ total_usdc_in_lobby = Sum(PositionsOf(OpenPool), MAX_INVESTORS)
         /\ OpenRound.usdc_locked = Sum(Locks(OpenPool), MAX_INVESTORS)
         /\ \A i \in Slots : i > count =>
              /\ OpenPool[i].usdc_deposited = 0
              /\ OpenPool[i].usdc_locked_current_round = 0
<1>1. total_usdc_in_lobby = Sum(PositionsOf(investors), MAX_INVESTORS)
  BY DEF Books, LobbyAccounting, Positions, PositionsOf
<1>2. CASE round.started
  BY <1>1, <1>2 DEF OpenRound, OpenPool, Books, LocksMatchRound, EmptySlots
<1>3. CASE ~ round.started
  <2>1. /\ OpenRound = StartedRound(investors, RoundSize, RoundPrice, round.waln)
        /\ OpenPool = execute_round_start(investors, count, RoundSize, RoundPrice)
        /\ RoundCanStart(investors, count, RoundSize, RoundPrice)
    BY <1>3 DEF OpenRound, OpenPool, Sale
  <2>2. investors \in PoolType /\ RoundSize \in U64 /\ RoundPrice \in U64
    BY OpenType DEF TypeOK, PoolType
  <2>3. \A i \in Slots : investors[i].usdc_locked_current_round = 0
    <3>1. \A i \in Slots : investors[i].usdc_locked_current_round \in Nat
      BY <2>2, PoolTypeNats DEF PoolOfNats
    <3> QED BY <1>3, <3>1 DEF Books, LocksMatchRound, IsParticipant
  <2>4. /\ Sum(PositionsOf(OpenPool), MAX_INVESTORS) =
             Sum(PositionsOf(investors), MAX_INVESTORS)
        /\ Sum(Locks(OpenPool), MAX_INVESTORS) =
             Sum(NewLocks(investors, count, RoundSize, RoundPrice), MAX_INVESTORS)
    BY <2>1, <2>2, <2>3, StartSums
  <2>5. /\ OpenRound.started
        /\ OpenRound.usdc_locked =
             Sum(NewLocks(investors, count, RoundSize, RoundPrice), MAX_INVESTORS)
    BY <2>1 DEF StartedRound
  <2>6. ASSUME NEW i \in Slots, i > count
        PROVE  OpenPool[i].usdc_deposited = 0 /\ OpenPool[i].usdc_locked_current_round = 0
    <3>1. /\ investors[i].usdc_deposited = 0
          /\ investors[i].usdc_locked_current_round = 0
      BY <2>6 DEF Books, EmptySlots
    <3> QED BY <2>1, <2>2, <3>1, StartEmpty
  <2> QED BY <1>1, <2>4, <2>5, <2>6
<1> QED BY <1>2, <1>3

LEMMA BooksSell ==
  ASSUME TypeOK, Books, NEW max \in U64, sell_waln(max)
  PROVE  Books'
<1>1. /\ Sale(max) /\ investors' = OpenPool
      /\ round' = [OpenRound EXCEPT !.waln = @ + waln_amount(max),
                                    !.usdc_spent = @ + usdc_out(max)]
      /\ UNCHANGED <<count, total_usdc_in_lobby>>
  BY DEF sell_waln
<1>2. OpenRound \in RoundType
  BY <1>1, OpenType
<1>3. round'.started = OpenRound.started /\ round'.usdc_locked = OpenRound.usdc_locked
  BY <1>1, <1>2 DEF RoundType
<1>4. Positions' = PositionsOf(OpenPool)
  BY <1>1 DEF Positions, PositionsOf
<1>5. LobbyAccounting'
  BY <1>1, <1>4, BooksOpen DEF LobbyAccounting
<1>6. LocksMatchRound'
  BY <1>1, <1>3, BooksOpen DEF LocksMatchRound
<1>7. EmptySlots'
  BY <1>1, BooksOpen DEF EmptySlots
<1> QED BY <1>5, <1>6, <1>7 DEF Books

\* A pool without locks that balances also balances after the auto-start, which
\* starts a round or does not.
LEMMA BooksAutoStart ==
  ASSUME TypeOK, NEW max, Sale(max), NEW inv \in PoolType, AutoStart(inv),
         \A i \in Slots : inv[i].usdc_locked_current_round = 0,
         Sum(Locks(inv), MAX_INVESTORS) = 0,
         total_usdc_in_lobby' = Sum(PositionsOf(inv), MAX_INVESTORS),
         UNCHANGED count,
         \A i \in Slots : i > count => inv[i].usdc_deposited = 0
  PROVE  Books'
<1> DEFINE size  == config.round_size_waln
           price == config.floor_price_usdc
<1>1. Positions' = PositionsOf(investors')
  BY DEF Positions, PositionsOf
<1>2. CASE RoundCanStart(inv, count, size, price)
  <2>1. /\ investors' = execute_round_start(inv, count, size, price)
        /\ round' = StartedRound(inv, size, price, 0)
    BY <1>2 DEF AutoStart
  <2>2. size \in U64 /\ price \in U64
    BY DEF TypeOK, ConfigType
  <2> HIDE DEF size, price
  <2>3. /\ Sum(PositionsOf(investors'), MAX_INVESTORS) =
             Sum(PositionsOf(inv), MAX_INVESTORS)
        /\ Sum(Locks(investors'), MAX_INVESTORS) =
             Sum(NewLocks(inv, count, size, price), MAX_INVESTORS)
    BY <1>2, <2>1, <2>2, StartSums
  <2>4. /\ round'.started
        /\ round'.usdc_locked = Sum(NewLocks(inv, count, size, price), MAX_INVESTORS)
    BY <2>1 DEF StartedRound
  <2>5. LobbyAccounting' /\ LocksMatchRound'
    BY <1>1, <2>3, <2>4 DEF LobbyAccounting, LocksMatchRound
  <2>6. EmptySlots'
    BY <1>2, <2>1, <2>2, StartEmpty DEF EmptySlots
  <2> QED BY <2>5, <2>6 DEF Books
<1>3. CASE ~ RoundCanStart(inv, count, size, price)
  <2>1. /\ investors' = inv
        /\ round' = [OpenRound EXCEPT !.started = FALSE, !.waln = 0,
                                      !.usdc_spent = 0, !.usdc_locked = 0]
    BY <1>3 DEF AutoStart
  <2>2. OpenRound \in RoundType
    BY OpenType
  <2>3. round'.usdc_locked = 0 /\ round'.waln = 0 /\ round'.usdc_spent = 0
    BY <2>1, <2>2 DEF RoundType
  <2>4. LobbyAccounting' /\ LocksMatchRound'
    BY <1>1, <2>1, <2>3 DEF LobbyAccounting, LocksMatchRound, IsParticipant
  <2>5. EmptySlots'
    BY <2>1 DEF EmptySlots
  <2> QED BY <2>4, <2>5 DEF Books
<1> QED BY <1>2, <1>3

LEMMA BooksFill ==
  ASSUME TypeOK, Books, NEW max \in U64, sell_waln_filling(max)
  PROVE  Books'
<1> DEFINE credits == FilledCredits(OpenPool, RoundPrice, waln_dust_carryover, now)
           filled == FilledPool(OpenPool, credits)
<1>1. Sale(max) /\ UNCHANGED count
  BY DEF sell_waln_filling
<1>2. OpenPool \in PoolType
  BY <1>1, OpenType
<1>3. /\ FitsU64(filled) /\ AutoStart(filled)
      /\ total_usdc_in_lobby' = total_usdc_in_lobby - Sum(Locks(OpenPool), MAX_INVESTORS)
  BY DEF sell_waln_filling, FinishRound
<1> HIDE DEF credits
<1>4. /\ Sum(PositionsOf(filled), MAX_INVESTORS) =
           Sum(PositionsOf(OpenPool), MAX_INVESTORS) - Sum(Locks(OpenPool), MAX_INVESTORS)
      /\ \A i \in Slots : filled[i].usdc_locked_current_round = 0
      /\ Sum(Locks(filled), MAX_INVESTORS) = 0
  BY <1>2, FilledSums
<1>5. \A i \in Slots : filled[i].usdc_deposited = OpenPool[i].usdc_deposited
  BY <1>2, FilledSlot
<1>6. filled \in PoolType
  BY <1>2, <1>3, FilledType
<1> HIDE DEF filled
<1>7. total_usdc_in_lobby' = Sum(PositionsOf(filled), MAX_INVESTORS)
  BY <1>1, <1>3, <1>4, BooksOpen
<1>8. \A i \in Slots : i > count => filled[i].usdc_deposited = 0
  BY <1>1, <1>5, BooksOpen
<1> QED BY <1>1, <1>3, <1>4, <1>6, <1>7, <1>8, BooksAutoStart

\* Every step keeps the books.
LEMMA BooksNext == TypeOK /\ Books /\ [Next]_vars => Books'
<1> SUFFICES ASSUME TypeOK, Books, [Next]_vars PROVE Books'
  OBVIOUS
<1> USE DEF poolVars, nftVars, claimVars
<1>1. UsdcAmounts \subseteq U64 /\ WalnAmounts \subseteq U64
  BY FloorProgramAssumption
<1>2. ASSUME NEW c, SetConfig(c) PROVE Books'
  BY <1>2, BooksSame DEF SetConfig
<1>3. ASSUME NEW k \in Keys, NEW ts, set_investor_usdc_unlock(k, ts) PROVE Books'
  <2>1. \A i \in Slots : /\ investors'[i].usdc_deposited = investors[i].usdc_deposited
                         /\ investors'[i].usdc_locked_current_round
                              = investors[i].usdc_locked_current_round
    BY <1>3 DEF set_investor_usdc_unlock, TypeOK, InvestorRecord
  <2>2. UNCHANGED <<round, total_usdc_in_lobby, count>>
    BY <1>3 DEF set_investor_usdc_unlock
  <2> QED BY <2>1, <2>2, BooksSame
<1>4. ASSUME NEW k \in Keys, NEW volume, mint_aat_nft(k, volume) PROVE Books'
  BY <1>4, BooksSame DEF mint_aat_nft
<1>5. ASSUME NEW k \in Keys, NEW volume, update_aat_volume(k, volume) PROVE Books'
  <2>1. \A i \in Slots : /\ investors'[i].usdc_deposited = investors[i].usdc_deposited
                         /\ investors'[i].usdc_locked_current_round
                              = investors[i].usdc_locked_current_round
    BY <1>5 DEF update_aat_volume, TypeOK, InvestorRecord
  <2>2. UNCHANGED <<round, total_usdc_in_lobby, count>>
    BY <1>5 DEF update_aat_volume
  <2> QED BY <2>1, <2>2, BooksSame
<1>6. ASSUME NEW amount, fund_treasury(amount) \/ withdraw_treasury(amount) PROVE Books'
  BY <1>6, BooksSame DEF fund_treasury, withdraw_treasury
<1>7. ASSUME NEW r, close_round_record(r) PROVE Books'
  BY <1>7, BooksSame DEF close_round_record
<1>8. ASSUME NEW k, NEW r, claim_waln(k, r) PROVE Books'
  <2>1. UNCHANGED <<round, total_usdc_in_lobby, count, investors>>
    BY <1>8 DEF claim_waln
  <2> QED BY <2>1, BooksSame
<1>9. ASSUME NEW r, NEW amount, PrefundLocked(r, amount) \/ PrefundRecord(r, amount)
      PROVE  Books'
  BY <1>9, BooksSame DEF PrefundLocked, PrefundRecord
<1>10. CASE Tick
  BY <1>10, BooksSame DEF Tick
<1>11. CASE UNCHANGED vars
  BY <1>11, BooksSame DEF vars
<1>12. CASE AdminNext
  BY <1>2, <1>3, <1>4, <1>5, <1>6, <1>7, <1>12, BooksRemove, BooksCancel, BooksClose
     DEF AdminNext, set_floor_price, set_round_size, set_lock_period,
         set_usdc_withdraw_lock, set_sell_paused, set_frozen
<1>13. CASE UserNext
  BY <1>1, <1>8, <1>9, <1>13, BooksDeposit, BooksWithdraw, BooksSell, BooksFill
     DEF UserNext
<1> QED BY <1>10, <1>11, <1>12, <1>13 DEF Next

-----------------------------------------------------------------------------
LEMMA BooksCorrect == Spec => []Books
<1>1. Init => TypeOK /\ Books
  BY TypeInit, BooksInit
<1>2. (TypeOK /\ Books) /\ [Next]_vars => (TypeOK /\ Books)'
  BY TypeNext, BooksNext
<1> QED BY <1>1, <1>2, PTL DEF Spec

\* total_usdc_in_lobby, which the handlers adjust by hand, is the sum of what
\* the slots of the pool hold, after every sequence of instructions.
THEOREM LobbyCorrect == Spec => []LobbyAccounting
<1>1. Books => LobbyAccounting
  BY DEF Books
<1> QED BY <1>1, BooksCorrect, PTL

\* A round that has ended leaves no lock and no total behind, and while one runs
\* total_usdc_locked_for_round is the sum of the slots' locks.
THEOREM LocksCorrect == Spec => []LocksMatchRound
<1>1. Books => LocksMatchRound
  BY DEF Books
<1> QED BY <1>1, BooksCorrect, PTL
=============================================================================
