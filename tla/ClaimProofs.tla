----------------------------- MODULE ClaimProofs ----------------------------
(***************************************************************************)
(* The accounts that settled rounds leave behind, for every value of the   *)
(* constants: claims are counted right, wALN and lamports are conserved,   *)
(* allocations are final, and what an investor bought is paid to it or     *)
(* can still be claimed by it.                                             *)
(*                                                                         *)
(* Two instructions settle a round (a sale that fills it and close_round)  *)
(* and one pays: lemmas Settled and ClaimEffect say once what they do to   *)
(* the accounts, and the theorems follow from these two.                   *)
(***************************************************************************)
EXTENDS PoolProofs

\* The instructions that touch the accounts of rounds.
LEMMA AccountSteps ==
  ASSUME [Next]_vars
  PROVE  \/ UNCHANGED <<round_locked_waln, round_record, paid_waln, round_count>>
         \/ close_round
         \/ \E max \in U64 : sell_waln_filling(max)
         \/ \E k \in Keys, r \in Rounds : claim_waln(k, r)
         \/ \E r \in Rounds : close_round_record(r)
         \/ \E r \in Rounds, amount \in U64 : PrefundLocked(r, amount)
         \/ \E r \in Rounds, amount \in U64 : PrefundRecord(r, amount)
<1> USE DEF claimVars
<1>1. WalnAmounts \subseteq U64 /\ LamportAmounts \subseteq U64
  BY FloorProgramAssumption
<1>2. CASE AdminNext
  BY <1>2 DEF AdminNext, set_floor_price, set_round_size, set_lock_period,
     set_usdc_withdraw_lock, set_sell_paused, set_frozen, SetConfig,
     set_investor_usdc_unlock, mint_aat_nft, update_aat_volume,
     remove_investor_from_pool, fund_treasury, withdraw_treasury, cancel_round
<1>3. CASE UserNext
  BY <1>1, <1>3 DEF UserNext, deposit_usdc, withdraw_usdc, sell_waln
<1>4. CASE Tick \/ UNCHANGED vars
  BY <1>4 DEF Tick, vars
<1> QED BY <1>2, <1>3, <1>4 DEF Next

\* A round that starts moves USDC from deposits to locks, within each slot.
LEMMA StartPositions ==
  ASSUME NEW inv \in PoolType, NEW cnt, NEW size \in U64, NEW price \in U64,
         RoundCanStart(inv, cnt, size, price), NEW i \in Slots,
         inv[i].usdc_locked_current_round = 0
  PROVE  PositionsOf(execute_round_start(inv, cnt, size, price))[i] = PositionsOf(inv)[i]
<1> DEFINE new  == execute_round_start(inv, cnt, size, price)
           lock == NewLocks(inv, cnt, size, price)[i]
<1>1. /\ lock \in 0 .. inv[i].usdc_deposited
      /\ new[i].usdc_deposited = inv[i].usdc_deposited - lock
      /\ new[i].usdc_locked_current_round =
           IF lock > 0 THEN lock ELSE inv[i].usdc_locked_current_round
  BY StartSlot
<1>2. inv[i].usdc_deposited \in Nat
  BY PoolTypeNats DEF PoolOfNats
<1> HIDE DEF new, lock
<1>3. new[i].usdc_deposited + new[i].usdc_locked_current_round
        = inv[i].usdc_deposited + inv[i].usdc_locked_current_round
  BY <1>1, <1>2
<1> QED BY <1>3 DEF PositionsOf, new

LEMMA OpenPositions ==
  ASSUME TypeOK, Books, NEW max, Sale(max), NEW i \in Slots
  PROVE  PositionsOf(OpenPool)[i] = PositionsOf(investors)[i]
<1>1. CASE round.started
  BY <1>1 DEF OpenPool
<1>2. CASE ~ round.started
  <2>1. /\ OpenPool = execute_round_start(investors, count, RoundSize, RoundPrice)
        /\ RoundCanStart(investors, count, RoundSize, RoundPrice)
        /\ RoundSize \in U64 /\ RoundPrice \in U64 /\ investors \in PoolType
    BY <1>2, OpenType DEF OpenPool, Sale, TypeOK, PoolType
  <2>2. investors[i].usdc_locked_current_round = 0
    <3>1. investors[i].usdc_locked_current_round \in Nat
      BY <2>1, PoolTypeNats DEF PoolOfNats
    <3> QED BY <1>2, <3>1 DEF Books, LocksMatchRound, IsParticipant
  <2> QED BY <2>1, <2>2, StartPositions
<1> QED BY <1>1, <1>2

\* What a settlement does outside the accounts of rounds: the slots it allocates
\* to are in use and have USDC, no slot gets USDC, their investors are credited,
\* and the wALN that is allocated is taken from the round and the carried dust.
IsSettlement(inv, allocs, spent, participants, unlock) ==
  /\ SettleAccounts(inv, allocs, spent, participants, unlock)
  /\ UNCHANGED <<paid_waln, count>>
  /\ \A i \in Slots :
       /\ allocs[i] \in Nat
       /\ allocs[i] > 0 => i =< count /\ PositionsOf(investors)[i] > 0
       /\ PositionsOf(investors')[i] =< PositionsOf(investors)[i]
       /\ inv[i].investor = investors[i].investor
       /\ investors'[i].investor = investors[i].investor
       /\ investors'[i].waln_purchased_total = investors[i].waln_purchased_total + allocs[i]
  /\ waln_vault' - (round'.waln + waln_dust_carryover')
       = (waln_vault - (round.waln + waln_dust_carryover)) + Sum(allocs, MAX_INVESTORS)

LEMMA CloseSettles ==
  ASSUME TypeOK, Books, RoundCanFill, close_round
  PROVE  \E inv, allocs, spent, participants, unlock :
           IsSettlement(inv, allocs, spent, participants, unlock)
<1> DEFINE paid   == round.usdc_spent
           spent  == close_round_usdc_spent(investors, paid)
           allocs == ClosedAllocs(investors, round.floor_price, round.waln)
<1>1. /\ investors \in PoolType /\ investors' = ClosedPool(investors, spent, allocs)
      /\ \A i \in Slots : /\ spent[i] \in Nat /\ allocs[i] \in U64
                          /\ spent[i] =< investors[i].usdc_locked_current_round
                          /\ investors[i].usdc_locked_current_round = 0 => allocs[i] = 0
      /\ waln_dust_carryover' =
           waln_dust_carryover + (round.waln - Sum(allocs, MAX_INVESTORS))
      /\ UNCHANGED <<count, waln_vault, paid_waln>>
  BY CloseFacts
<1>2. SettleAccounts(investors, allocs, paid, Claimable(allocs), now + round.lock_period)
  BY DEF close_round
<1>3. round'.waln = 0
  BY EndedRound
<1>4. Sum(allocs, MAX_INVESTORS) \in Nat
  BY <1>2, U64Nats DEF SettleAccounts
<1> HIDE DEF paid, spent, allocs
<1>5. ASSUME NEW i \in Slots
      PROVE  /\ allocs[i] \in Nat
             /\ allocs[i] > 0 => i =< count /\ PositionsOf(investors)[i] > 0
             /\ PositionsOf(investors')[i] =< PositionsOf(investors)[i]
             /\ investors'[i].investor = investors[i].investor
             /\ investors'[i].waln_purchased_total
                  = investors[i].waln_purchased_total + allocs[i]
  <2>1. allocs[i] \in Nat
    BY <1>1, U64Nats
  <2>2. i > count => investors[i].usdc_locked_current_round = 0
    BY DEF Books, EmptySlots
  <2>3. i =< count \/ i > count
    BY DEF TypeOK, Slots
  <2>4. /\ investors'[i].usdc_deposited = investors[i].usdc_deposited
                + (investors[i].usdc_locked_current_round - spent[i])
        /\ investors'[i].usdc_locked_current_round = 0
    BY <1>1, ClosedSlot
  <2>5. /\ investors[i].usdc_deposited \in Nat
        /\ investors[i].usdc_locked_current_round \in Nat
    BY <1>1, PoolTypeNats DEF PoolOfNats
  <2>6. PositionsOf(investors')[i] =< PositionsOf(investors)[i]
    BY <1>1, <2>4, <2>5 DEF PositionsOf
  <2>7. investors[i].usdc_locked_current_round # 0 => PositionsOf(investors)[i] > 0
    BY <2>5 DEF PositionsOf
  <2>8. allocs[i] > 0 => i =< count /\ PositionsOf(investors)[i] > 0
    BY <1>1, <2>2, <2>3, <2>7
  <2> QED BY <1>1, <2>1, <2>6, <2>8, ClosedKeeps, ClosedSlot DEF Kept
<1>6. waln_vault' - (round'.waln + waln_dust_carryover')
        = (waln_vault - (round.waln + waln_dust_carryover)) + Sum(allocs, MAX_INVESTORS)
  BY <1>1, <1>3, <1>4, BalanceNats
<1>7. IsSettlement(investors, allocs, paid, Claimable(allocs), now + round.lock_period)
  BY <1>1, <1>2, <1>5, <1>6 DEF IsSettlement
<1> QED BY <1>7

\* The dust is credited to the investor that can claim it: no two slots have the
\* same key, so the second lookup finds the slot of the first.
LEMMA CreditsMatch ==
  ASSUME TypeOK, Books, SlotsMatch, NEW max, Sale(max), NEW i \in Slots
  PROVE  FilledCredits(OpenPool, RoundPrice, waln_dust_carryover, now)[i]
           = FilledAllocs(OpenPool, RoundPrice, waln_dust_carryover, now)[i]
<1>1. \A j \in Slots : OpenPool[j].investor = investors[j].investor
  BY OpenKeeps DEF Kept
<1>2. ASSUME NEW w \in Slots, dust_recipient(OpenPool, w, now)
      PROVE  \A j \in Slots : OpenPool[j].investor = OpenPool[w].investor => j = w
  <2>1. OpenPool[w].usdc_locked_current_round # 0
    BY <1>2 DEF dust_recipient, IsParticipant
  <2>2. w =< count
    BY <2>1, BooksOpen DEF TypeOK, Slots
  <2> QED BY <1>1, <2>2, OneSlot
<1>3. dust_record(OpenPool, i, now) <=> dust_recipient(OpenPool, i, now)
  <2>1. ASSUME dust_recipient(OpenPool, i, now) PROVE dust_record(OpenPool, i, now)
    <3>1. \A j \in Slots : j < i => j # i
      BY DEF Slots
    <3> QED BY <1>2, <2>1, <3>1 DEF dust_record
  <2>2. ASSUME dust_record(OpenPool, i, now) PROVE dust_recipient(OpenPool, i, now)
    BY <1>2, <2>2 DEF dust_record
  <2> QED BY <2>1, <2>2
<1> QED BY <1>3 DEF FilledCredits, FilledAllocs

LEMMA FillSettles ==
  ASSUME TypeOK, Books, SlotsMatch, NEW max \in U64, sell_waln_filling(max)
  PROVE  \E inv, allocs, spent, participants, unlock :
           IsSettlement(inv, allocs, spent, participants, unlock)
<1> DEFINE allocs == FilledAllocs(OpenPool, RoundPrice, waln_dust_carryover, now)
           credits == FilledCredits(OpenPool, RoundPrice, waln_dust_carryover, now)
           filled == FilledPool(OpenPool, credits)
           size   == config.round_size_waln
           price  == config.floor_price_usdc
           spent  == Sum(Locks(OpenPool), MAX_INVESTORS)
           parts  == participant_count(OpenPool)
           unlock == now + OpenRound.lock_period
           sold   == OpenRound.waln + waln_amount(max)
<1>1. /\ Sale(max) /\ OpenPool \in PoolType /\ filled \in PoolType /\ round'.waln = 0
      /\ size \in U64 /\ price \in U64
      /\ \/ /\ RoundCanStart(filled, count, size, price)
            /\ investors' = execute_round_start(filled, count, size, price)
         \/ investors' = filled
  BY NextRound
<1>2. /\ SettleAccounts(OpenPool, allocs, spent, parts, unlock)
      /\ waln_dust_carryover' = sold + waln_dust_carryover - Sum(allocs, MAX_INVESTORS)
      /\ waln_vault' = waln_vault + waln_amount(max)
      /\ UNCHANGED <<paid_waln, count>>
  BY DEF sell_waln_filling, FinishRound, Sale
<1>3. RoundPrice \in Nat /\ RoundPrice > 0
  BY <1>1, OpenFields
<1>4. \A i \in Slots : /\ allocs[i] \in Nat
                       /\ OpenPool[i].usdc_locked_current_round = 0 => allocs[i] = 0
  BY <1>1, <1>3, FilledAllocsNat, FilledAllocsIdle, BalanceNats
<1>a. \A i \in Slots : credits[i] = allocs[i]
  BY <1>1, CreditsMatch
<1> HIDE DEF allocs, credits, size, price, spent, parts, unlock
<1>5. ASSUME NEW i \in Slots
      PROVE  /\ allocs[i] > 0 => i =< count /\ PositionsOf(investors)[i] > 0
             /\ PositionsOf(investors')[i] =< PositionsOf(investors)[i]
             /\ OpenPool[i].investor = investors[i].investor
             /\ investors'[i].investor = investors[i].investor
             /\ investors'[i].waln_purchased_total
                  = investors[i].waln_purchased_total + allocs[i]
  <2>1. /\ Kept(investors[i], OpenPool[i])
        /\ OpenPool[i].waln_purchased_total = investors[i].waln_purchased_total
    BY <1>1, OpenKeeps
  <2>2. /\ Kept(OpenPool[i], filled[i])
        /\ filled[i].waln_purchased_total = OpenPool[i].waln_purchased_total + allocs[i]
        /\ filled[i].usdc_deposited = OpenPool[i].usdc_deposited
        /\ filled[i].usdc_locked_current_round = 0
    BY <1>1, <1>a, FilledKeeps, FilledSlot
  <2> HIDE DEF filled
  <2>3. /\ Kept(filled[i], investors'[i])
        /\ investors'[i].waln_purchased_total = filled[i].waln_purchased_total
        /\ PositionsOf(investors')[i] = PositionsOf(filled)[i]
    BY <1>1, <2>2, StartKeeps, StartPositions DEF Kept
  <2>4. i > count => OpenPool[i].usdc_locked_current_round = 0
    BY <1>1, BooksOpen
  <2>5. i =< count \/ i > count
    BY DEF TypeOK, Slots
  <2>6. /\ OpenPool[i].usdc_deposited \in Nat
        /\ OpenPool[i].usdc_locked_current_round \in Nat
    BY <1>1, PoolTypeNats DEF PoolOfNats
  <2>7. PositionsOf(OpenPool)[i] = PositionsOf(investors)[i]
    BY <1>1, OpenPositions
  <2>8. PositionsOf(filled)[i] =< PositionsOf(OpenPool)[i]
    BY <2>2, <2>6 DEF PositionsOf
  <2>9. OpenPool[i].usdc_locked_current_round # 0 => PositionsOf(OpenPool)[i] > 0
    BY <2>6 DEF PositionsOf
  <2>10. allocs[i] > 0 => i =< count /\ PositionsOf(investors)[i] > 0
    BY <1>4, <2>4, <2>5, <2>7, <2>9
  <2> QED BY <2>1, <2>2, <2>3, <2>7, <2>8, <2>10 DEF Kept
<1>6. Sum(allocs, MAX_INVESTORS) \in Nat
  BY <1>2, U64Nats DEF SettleAccounts
<1>7. sold = round.waln + waln_amount(max) /\ waln_amount(max) \in Nat
  <2>1. OpenRound.waln = RoundWaln /\ waln_amount(max) \in Nat
    BY <1>1, OpenFields
  <2>2. RoundWaln = round.waln
    BY DEF RoundWaln, Books, LocksMatchRound
  <2> QED BY <2>1, <2>2
<1> HIDE DEF sold, filled
<1>8. waln_vault' - (round'.waln + waln_dust_carryover')
        = (waln_vault - (round.waln + waln_dust_carryover)) + Sum(allocs, MAX_INVESTORS)
  BY <1>1, <1>2, <1>6, <1>7, BalanceNats
<1>9. IsSettlement(OpenPool, allocs, spent, parts, unlock)
  BY <1>2, <1>4, <1>5, <1>8 DEF IsSettlement
<1> QED BY <1>9

-----------------------------------------------------------------------------
\* What a settlement and a claim do to the accounts of rounds

\* The slots that have something to claim in an account.
OpenEntries(rlw) == {i \in Slots : rlw.entries[i].waln_amount > 0}

LEMMA EntryNats ==
  ASSUME TypeOK, NEW r \in Rounds
  PROVE  /\ round_locked_waln[r] \in RoundLockedWalnType
         /\ \A i \in Slots : round_locked_waln[r].entries[i].waln_amount \in Nat
         /\ round_locked_waln[r].lamports \in Nat
         /\ round_locked_waln[r].remaining_to_claim \in Nat
         /\ round_record[r] \in RoundRecordType
         /\ round_record[r].lamports \in Nat
<1>1. round_locked_waln[r] \in RoundLockedWalnType /\ round_record[r] \in RoundRecordType
  BY DEF TypeOK
<1>2. \A i \in Slots : round_locked_waln[r].entries[i].waln_amount \in U64
  BY <1>1 DEF RoundLockedWalnType, InvestorAlloc
<1> QED BY <1>1, <1>2, U64Nats DEF RoundLockedWalnType, RoundRecordType

LEMMA ClaimsAt ==
  ASSUME ClaimsCounted, NEW r \in Rounds
  PROVE  LET rlw == round_locked_waln[r]
         IN  /\ rlw.remaining_to_claim = Cardinality(OpenEntries(rlw))
             /\ rlw.exists <=> OpenEntries(rlw) # {}
             /\ rlw.exists => r < round_count
             /\ \A i, j \in OpenEntries(rlw) :
                  rlw.entries[i].investor = rlw.entries[j].investor => i = j
BY DEF ClaimsCounted, OpenEntries

\* The account of the round that is settled was empty; the others stay as they are.
LEMMA Settled ==
  ASSUME TypeOK, ClaimsCounted, NEW inv, NEW allocs, NEW spent, NEW participants, NEW unlock,
         IsSettlement(inv, allocs, spent, participants, unlock)
  PROVE  LET r   == round_count
             old == round_locked_waln[r]
             new == round_locked_waln'[r]
         IN  /\ r \in Rounds /\ round_count' = r + 1
             /\ \A q \in Rounds : q # r => /\ round_locked_waln'[q] = round_locked_waln[q]
                                           /\ round_record'[q] = round_record[q]
             /\ \A i \in Slots :
                  /\ old.entries[i].waln_amount = 0
                  /\ new.entries[i].waln_amount = allocs[i]
                  /\ allocs[i] > 0 => new.entries[i].investor = investors[i].investor
             /\ Claimable(allocs) # 0 => \A i \in Slots : allocs[i] = 0 =>
                  new.entries[i].investor = NoKey
             /\ new.remaining_to_claim = Claimable(allocs)
             /\ new.exists <=> Claimable(allocs) # 0
<1> DEFINE r   == round_count
           old == round_locked_waln[r]
           new == round_locked_waln'[r]
<1>1. /\ r < MaxRounds /\ round_count' = r + 1
      /\ round_locked_waln' =
           IF Claimable(allocs) = 0 THEN round_locked_waln
           ELSE [round_locked_waln EXCEPT ![r] = SettleLockedWaln(inv, allocs, unlock)]
      /\ \A q \in Rounds : q # r => round_record'[q] = round_record[q]
  BY DEF IsSettlement, SettleAccounts, TypeOK
<1>2. r \in Rounds /\ r \in Nat
  BY <1>1, FloorProgramAssumption DEF TypeOK, Rounds
<1>3. \A q \in Rounds : q # r => round_locked_waln'[q] = round_locked_waln[q]
  BY <1>1 DEF TypeOK
<1>4. ~ old.exists /\ OpenEntries(old) = {}
  <2>1. ~ (r < round_count)
    BY <1>2
  <2> QED BY <1>2, <2>1, ClaimsAt
<1>5. \A i \in Slots : old.entries[i].waln_amount \in Nat
  BY <1>2, EntryNats
<1>6. \A i \in Slots : old.entries[i].waln_amount = 0
  BY <1>4, <1>5 DEF OpenEntries
<1>7. \A i \in Slots : allocs[i] \in Nat /\ inv[i].investor = investors[i].investor
  BY DEF IsSettlement
<1> DEFINE E == {i \in Slots : allocs[i] > 0}
<1>8. Claimable(allocs) = Cardinality(E) /\ IsFiniteSet(E)
  <2>1. E \in SUBSET Slots
    OBVIOUS
  <2> QED BY <2>1, SlotSets DEF Claimable
<1>9. CASE Claimable(allocs) = 0
  <2>1. \A i \in Slots : allocs[i] = 0
    <3>1. E = {}
      BY <1>8, <1>9, FS_EmptySet
    <3> QED BY <1>7, <3>1
  <2>2. new = old
    BY <1>1, <1>9
  <2>3. old.remaining_to_claim = 0
    <3>1. old.remaining_to_claim = Cardinality(OpenEntries(old))
      BY <1>2, ClaimsAt
    <3> QED BY <1>4, <3>1, FS_EmptySet
  <2> QED BY <1>1, <1>2, <1>3, <1>4, <1>6, <1>9, <2>1, <2>2, <2>3
<1>10. CASE Claimable(allocs) # 0
  <2>1. new = SettleLockedWaln(inv, allocs, unlock)
    BY <1>1, <1>2, <1>10 DEF TypeOK
  <2>2. /\ new.exists /\ new.remaining_to_claim = Claimable(allocs)
        /\ new.entries = [i \in Slots |->
                            IF allocs[i] > 0
                            THEN [investor |-> inv[i].investor, waln_amount |-> allocs[i]]
                            ELSE NoEntries[i]]
    BY <2>1 DEF SettleLockedWaln
  <2>3. \A i \in Slots : NoEntries[i].waln_amount = 0 /\ NoEntries[i].investor = NoKey
    BY DEF NoEntries
  <2>4. \A i \in Slots : /\ new.entries[i].waln_amount = allocs[i]
                         /\ allocs[i] > 0 => new.entries[i].investor = investors[i].investor
                         /\ allocs[i] = 0 => new.entries[i].investor = NoKey
    BY <1>7, <2>2, <2>3
  <2> HIDE DEF new
  <2> QED BY <1>1, <1>2, <1>3, <1>6, <1>10, <2>2, <2>4 DEF new
<1> QED BY <1>9, <1>10

\* A claim takes one entry, whole.  The last one clears the account.
LEMMA ClaimEffect ==
  ASSUME TypeOK, ClaimsCounted, NEW k \in Keys, NEW r \in Rounds, claim_waln(k, r)
  PROVE  LET old == round_locked_waln[r]
             new == round_locked_waln'[r]
         IN  /\ now >= old.unlock /\ old.exists
             /\ \A q \in Rounds : q # r => round_locked_waln'[q] = round_locked_waln[q]
             /\ UNCHANGED <<round, round_count, waln_dust_carryover, count, investors,
                            round_record>>
             /\ \E i \in Slots :
                  LET amount == old.entries[i].waln_amount
                  IN  /\ amount \in Nat /\ amount > 0 /\ old.entries[i].investor = k
                      /\ waln_vault' = waln_vault - amount
                      /\ paid_waln' = [paid_waln EXCEPT ![k] = @ + amount]
                      /\ new.entries[i].waln_amount = 0
                      /\ \A j \in Slots : j # i =>
                           \/ new.entries[j] = old.entries[j]
                           \/ /\ old.entries[j].waln_amount = 0
                              /\ new.entries[j].waln_amount = 0
                      /\ \/ /\ old.remaining_to_claim = 1
                            /\ new = NoLockedWaln
                            /\ treasury' = treasury + old.lamports
                         \/ /\ old.remaining_to_claim > 1
                            /\ new.exists /\ new.unlock = old.unlock
                            /\ \A j \in Slots : new.entries[j].investor = old.entries[j].investor
                            /\ new.lamports = old.lamports
                            /\ new.remaining_to_claim = old.remaining_to_claim - 1
                            /\ UNCHANGED treasury
<1> DEFINE old == round_locked_waln[r]
           new == round_locked_waln'[r]
<1>1. /\ old \in RoundLockedWalnType /\ old.remaining_to_claim \in Nat
      /\ \A i \in Slots : old.entries[i].waln_amount \in Nat
      /\ round_locked_waln = [q \in Rounds |-> round_locked_waln[q]]
  BY EntryNats DEF TypeOK
<1>2. PICK i \in Slots :
        /\ old.entries[i].investor = k
        /\ old.entries[i].waln_amount > 0
        /\ waln_vault' = waln_vault - old.entries[i].waln_amount
        /\ paid_waln' = [paid_waln EXCEPT ![k] = @ + old.entries[i].waln_amount]
        /\ old.remaining_to_claim > 0
        /\ IF old.remaining_to_claim = 1
           THEN /\ treasury' = treasury + old.lamports
                /\ round_locked_waln' = [round_locked_waln EXCEPT ![r] = NoLockedWaln]
           ELSE /\ UNCHANGED treasury
                /\ round_locked_waln' = [round_locked_waln EXCEPT
                                           ![r].entries[i].waln_amount = 0,
                                           ![r].remaining_to_claim = @ - 1]
  BY DEF claim_waln
<1>3. /\ now >= old.unlock /\ old.exists
      /\ UNCHANGED <<round, round_count, waln_dust_carryover, count, investors, round_record>>
  BY DEF claim_waln, ClaimOpen, poolVars
<1>4. \A q \in Rounds : q # r => round_locked_waln'[q] = round_locked_waln[q]
  BY <1>1, <1>2
<1> DEFINE Rest ==
      /\ new.entries[i].waln_amount = 0
      /\ \A j \in Slots : j # i =>
           \/ new.entries[j] = old.entries[j]
           \/ /\ old.entries[j].waln_amount = 0
              /\ new.entries[j].waln_amount = 0
      /\ \/ /\ old.remaining_to_claim = 1
            /\ new = NoLockedWaln
            /\ treasury' = treasury + old.lamports
         \/ /\ old.remaining_to_claim > 1
            /\ new.exists /\ new.unlock = old.unlock
            /\ \A j \in Slots : new.entries[j].investor = old.entries[j].investor
            /\ new.lamports = old.lamports
            /\ new.remaining_to_claim = old.remaining_to_claim - 1
            /\ UNCHANGED treasury
<1>5. ASSUME old.remaining_to_claim = 1 PROVE Rest
  <2>1. new = NoLockedWaln /\ treasury' = treasury + old.lamports
    BY <1>1, <1>2, <1>5
  <2>2. \A j \in Slots : new.entries[j].waln_amount = 0
    BY <2>1 DEF NoLockedWaln, NoEntries
  <2>3. Cardinality(OpenEntries(old)) = 1 /\ IsFiniteSet(OpenEntries(old))
    <3>1. OpenEntries(old) \in SUBSET Slots
      BY DEF OpenEntries
    <3> QED BY <1>5, <3>1, SlotSets, ClaimsAt
  <2>4. \E x : OpenEntries(old) = {x}
    BY <2>3, FS_Singleton
  <2>5. i \in OpenEntries(old)
    BY <1>2 DEF OpenEntries
  <2>6. \A j \in Slots : j # i => j \notin OpenEntries(old)
    BY <2>4, <2>5
  <2>7. \A j \in Slots : j # i => old.entries[j].waln_amount = 0
    BY <1>1, <2>6 DEF OpenEntries
  <2> QED BY <1>5, <2>1, <2>2, <2>7
<1>6. ASSUME old.remaining_to_claim # 1 PROVE Rest
  <2> DEFINE cleared == [old.entries EXCEPT ![i] = [old.entries[i] EXCEPT !.waln_amount = 0]]
  <2>1. /\ UNCHANGED treasury
        /\ round_locked_waln' = [round_locked_waln EXCEPT
                                   ![r].entries[i].waln_amount = 0,
                                   ![r].remaining_to_claim = @ - 1]
    BY <1>2, <1>6
  <2>2. new = [old EXCEPT !.entries = cleared,
                          !.remaining_to_claim = old.remaining_to_claim - 1]
    BY <1>1, <2>1
  <2>3. old.entries \in [Slots -> InvestorAlloc] /\ old.entries[i] \in InvestorAlloc
    BY <1>1 DEF RoundLockedWalnType
  <2>4. /\ cleared[i].waln_amount = 0
        /\ \A j \in Slots : j # i => cleared[j] = old.entries[j]
        /\ \A j \in Slots : cleared[j].investor = old.entries[j].investor
    BY <2>3 DEF InvestorAlloc
  <2> HIDE DEF cleared
  <2>5. /\ new.entries = cleared /\ new.exists = old.exists /\ new.unlock = old.unlock
        /\ new.lamports = old.lamports
        /\ new.remaining_to_claim = old.remaining_to_claim - 1
    BY <1>1, <2>2 DEF RoundLockedWalnType
  <2>6. old.remaining_to_claim > 1
    BY <1>1, <1>2, <1>6
  <2> HIDE DEF old, new
  <2> QED BY <1>3, <2>1, <2>4, <2>5, <2>6
<1>7. Rest
  <2> HIDE DEF Rest
  <2> QED BY <1>5, <1>6
<1> HIDE DEF old, new
<1>8. old.entries[i].waln_amount \in Nat
  BY <1>1
<1> QED BY <1>2, <1>3, <1>4, <1>7, <1>8 DEF old, new

-----------------------------------------------------------------------------
\* Claims are counted right

\* What ClaimsCounted says of the account of round r when n rounds are settled.
Counted(rlw, r, n) ==
  /\ rlw.remaining_to_claim = Cardinality(OpenEntries(rlw))
  /\ rlw.exists <=> OpenEntries(rlw) # {}
  /\ rlw.exists => r < n
  /\ \A i, j \in OpenEntries(rlw) : rlw.entries[i].investor = rlw.entries[j].investor => i = j

LEMMA CountedAll == ClaimsCounted <=> \A r \in Rounds : Counted(round_locked_waln[r], r, round_count)
BY DEF ClaimsCounted, Counted, OpenEntries

LEMMA CountedSettle ==
  ASSUME TypeOK, SlotsMatch, ClaimsCounted,
         NEW inv, NEW allocs, NEW spent, NEW participants, NEW unlock,
         IsSettlement(inv, allocs, spent, participants, unlock)
  PROVE  ClaimsCounted'
<1> DEFINE r   == round_count
           new == round_locked_waln'[r]
           E   == {i \in Slots : allocs[i] > 0}
<1>1. /\ r \in Rounds /\ round_count' = r + 1
      /\ \A q \in Rounds : q # r => round_locked_waln'[q] = round_locked_waln[q]
      /\ \A i \in Slots : /\ new.entries[i].waln_amount = allocs[i]
                          /\ allocs[i] > 0 => new.entries[i].investor = investors[i].investor
      /\ new.remaining_to_claim = Claimable(allocs)
      /\ new.exists <=> Claimable(allocs) # 0
  BY Settled
<1>2. \A q \in Rounds : q \in Nat
  BY FloorProgramAssumption DEF Rounds
<1>3. ASSUME NEW q \in Rounds, q # r PROVE Counted(round_locked_waln'[q], q, round_count')
  <2>1. Counted(round_locked_waln[q], q, round_count)
    BY CountedAll
  <2>2. q < round_count => q < round_count'
    BY <1>1, <1>2
  <2> QED BY <1>1, <1>3, <2>1, <2>2 DEF Counted
<1>4. Counted(new, r, round_count')
  <2>1. OpenEntries(new) = E
    BY <1>1 DEF OpenEntries
  <2>2. IsFiniteSet(E) /\ Claimable(allocs) = Cardinality(E)
    <3>1. E \in SUBSET Slots
      OBVIOUS
    <3> QED BY <3>1, SlotSets DEF Claimable
  <2>3. Claimable(allocs) # 0 <=> E # {}
    BY <2>2, FS_EmptySet
  <2>4. r < round_count'
    BY <1>1, <1>2
  <2>5. \A i \in E : i =< count
    BY DEF IsSettlement
  <2>6. \A i, j \in E : new.entries[i].investor = new.entries[j].investor => i = j
    BY <1>1, <2>5, OneSlot
  <2> HIDE DEF E, new, r
  <2> QED BY <1>1, <2>1, <2>2, <2>3, <2>4, <2>6 DEF Counted
<1>5. \A q \in Rounds : Counted(round_locked_waln'[q], q, round_count')
  BY <1>3, <1>4
<1> QED BY <1>5 DEF ClaimsCounted, Counted, OpenEntries

LEMMA CountedClaim ==
  ASSUME TypeOK, ClaimsCounted, NEW k \in Keys, NEW r \in Rounds, claim_waln(k, r)
  PROVE  ClaimsCounted'
<1> DEFINE old == round_locked_waln[r]
           new == round_locked_waln'[r]
<1>1. /\ \A q \in Rounds : q # r => round_locked_waln'[q] = round_locked_waln[q]
      /\ UNCHANGED round_count /\ old.exists
  BY ClaimEffect
<1>2. PICK i \in Slots :
        /\ old.entries[i].waln_amount > 0
        /\ new.entries[i].waln_amount = 0
        /\ \A j \in Slots : j # i =>
             \/ new.entries[j] = old.entries[j]
             \/ /\ old.entries[j].waln_amount = 0
                /\ new.entries[j].waln_amount = 0
        /\ \/ old.remaining_to_claim = 1 /\ new = NoLockedWaln
           \/ /\ old.remaining_to_claim > 1
              /\ new.exists
              /\ new.remaining_to_claim = old.remaining_to_claim - 1
  BY ClaimEffect
<1>3. Counted(old, r, round_count) /\ old.remaining_to_claim \in Nat
  BY CountedAll, EntryNats
<1>4. OpenEntries(new) = OpenEntries(old) \ {i} /\ i \in OpenEntries(old)
  BY <1>2 DEF OpenEntries
<1>5. IsFiniteSet(OpenEntries(old))
  <2>1. OpenEntries(old) \in SUBSET Slots
    BY DEF OpenEntries
  <2> QED BY <2>1, SlotSets
<1>6. /\ Cardinality(OpenEntries(new)) = Cardinality(OpenEntries(old)) - 1
      /\ IsFiniteSet(OpenEntries(new))
  BY <1>4, <1>5, FS_RemoveElement
<1>7. \A a, b \in OpenEntries(new) :
        new.entries[a].investor = new.entries[b].investor => a = b
  <2>1. \A a \in OpenEntries(new) : a \in OpenEntries(old) /\ new.entries[a] = old.entries[a]
    BY <1>2, <1>4 DEF OpenEntries
  <2> QED BY <1>3, <2>1 DEF Counted
<1>8. r < round_count
  BY <1>1, <1>3 DEF Counted
<1>9. /\ new.remaining_to_claim = Cardinality(OpenEntries(new))
      /\ new.exists <=> OpenEntries(new) # {}
  <2>1. old.remaining_to_claim = Cardinality(OpenEntries(old))
    BY <1>3 DEF Counted
  <2>2. Cardinality(OpenEntries(new)) = old.remaining_to_claim - 1
    BY <1>6, <2>1
  <2>3. Cardinality(OpenEntries(new)) = 0 <=> OpenEntries(new) = {}
    BY <1>6, FS_EmptySet
  <2>4. CASE old.remaining_to_claim = 1 /\ new = NoLockedWaln
    <3>1. ~ new.exists /\ new.remaining_to_claim = 0
      BY <2>4 DEF NoLockedWaln
    <3> QED BY <2>2, <2>3, <2>4, <3>1
  <2>5. CASE /\ old.remaining_to_claim > 1 /\ new.exists
             /\ new.remaining_to_claim = old.remaining_to_claim - 1
    <3> HIDE DEF old, new
    <3>1. old.remaining_to_claim - 1 # 0
      BY <1>3, <2>5
    <3> QED BY <2>2, <2>3, <2>5, <3>1
  <2> QED BY <1>2, <2>4, <2>5
<1> HIDE DEF old, new
<1>10. Counted(new, r, round_count)
  BY <1>7, <1>8, <1>9 DEF Counted
<1>11. \A q \in Rounds : Counted(round_locked_waln'[q], q, round_count')
  BY <1>1, <1>10, CountedAll DEF new
<1> QED BY <1>11 DEF ClaimsCounted, Counted, OpenEntries

\* Lamports sent to an address change nothing that can be claimed.
LEMMA PrefundEffect ==
  ASSUME TypeOK, NEW r \in Rounds, NEW amount \in U64, PrefundLocked(r, amount)
  PROVE  /\ UNCHANGED <<round_count, round_record, paid_waln>>
         /\ \A q \in Rounds :
              LET old == round_locked_waln[q]
                  new == round_locked_waln'[q]
              IN  /\ new.exists = old.exists /\ new.unlock = old.unlock
                  /\ new.entries = old.entries
                  /\ new.remaining_to_claim = old.remaining_to_claim
                  /\ old.exists => new = old
<1>1. /\ ~ round_locked_waln[r].exists
      /\ round_locked_waln' = [round_locked_waln EXCEPT
                                 ![r].lamports = round_locked_waln[r].lamports + amount]
      /\ UNCHANGED <<round_count, round_record, paid_waln>>
  BY DEF PrefundLocked
<1>2. \A q \in Rounds : round_locked_waln[q] \in RoundLockedWalnType
  BY DEF TypeOK
<1>3. \A q \in Rounds : q # r => round_locked_waln'[q] = round_locked_waln[q]
  BY <1>1 DEF TypeOK
<1>4. round_locked_waln'[r] = [round_locked_waln[r] EXCEPT
                                 !.lamports = round_locked_waln[r].lamports + amount]
  BY <1>1 DEF TypeOK
<1> QED BY <1>1, <1>2, <1>3, <1>4 DEF RoundLockedWalnType

LEMMA ClaimsNext ==
  TypeOK /\ Books /\ RoundCanFill /\ SlotsMatch /\ ClaimsCounted /\ [Next]_vars => ClaimsCounted'
<1> SUFFICES ASSUME TypeOK, Books, RoundCanFill, SlotsMatch, ClaimsCounted, [Next]_vars
             PROVE  ClaimsCounted'
  OBVIOUS
<1>1. ASSUME UNCHANGED <<round_locked_waln, round_count>> PROVE ClaimsCounted'
  BY <1>1 DEF ClaimsCounted
<1>2. CASE close_round \/ \E max \in U64 : sell_waln_filling(max)
  BY <1>2, CloseSettles, FillSettles, CountedSettle
<1>3. ASSUME NEW r \in Rounds, NEW amount \in U64, PrefundLocked(r, amount)
      PROVE  ClaimsCounted'
  <2> SUFFICES ASSUME NEW q \in Rounds
               PROVE  Counted(round_locked_waln'[q], q, round_count')
    BY DEF ClaimsCounted, Counted, OpenEntries
  <2> DEFINE old == round_locked_waln[q]
             new == round_locked_waln'[q]
  <2>1. /\ new.exists = old.exists /\ new.entries = old.entries
        /\ new.remaining_to_claim = old.remaining_to_claim /\ round_count' = round_count
    BY <1>3, PrefundEffect
  <2>2. OpenEntries(new) = OpenEntries(old)
    BY <2>1 DEF OpenEntries
  <2> QED BY <2>1, <2>2, CountedAll DEF Counted
<1>4. ASSUME NEW r \in Rounds, close_round_record(r) PROVE ClaimsCounted'
  BY <1>1, <1>4 DEF close_round_record, claimVars
<1>5. ASSUME NEW r \in Rounds, NEW amount, PrefundRecord(r, amount) PROVE ClaimsCounted'
  BY <1>1, <1>5 DEF PrefundRecord, claimVars
<1> QED BY <1>1, <1>2, <1>3, <1>4, <1>5, AccountSteps, CountedClaim

\* The account of a settled round exists as long as something can be claimed, it
\* counts its open claims right and has one entry per investor: the last claim,
\* and no other, closes it.
THEOREM ClaimsCorrect == Spec => []ClaimsCounted
<1>1. Init => ClaimsCounted
  <2> SUFFICES ASSUME Init, NEW r \in Rounds PROVE Counted(round_locked_waln[r], r, round_count)
    BY DEF ClaimsCounted, Counted, OpenEntries
  <2>1. round_locked_waln[r] = NoLockedWaln
    BY DEF Init
  <2>2. OpenEntries(NoLockedWaln) = {} /\ ~ NoLockedWaln.exists
        /\ NoLockedWaln.remaining_to_claim = 0
    BY DEF OpenEntries, NoLockedWaln, NoEntries
  <2> QED BY <2>1, <2>2, FS_EmptySet DEF Counted
<1> QED BY <1>1, ClaimsNext, TypeCorrect, BooksCorrect, CanFillCorrect, SlotsCorrect, PTL
        DEF Spec

\* An entry stays as the settlement wrote it until its own investor is paid exactly
\* its amount, after the unlock time: no later settlement, claim of another
\* investor, or closing of the account touches it.
THEOREM AllocationsCorrect == Spec => AllocationsFinal
<1> DEFINE Final(r, i) ==
      LET old == round_locked_waln[r].entries[i]
          new == round_locked_waln'[r].entries[i]
      IN  old.waln_amount > 0 /\ new # old =>
            /\ new.waln_amount = 0
            /\ now >= round_locked_waln[r].unlock
            /\ paid_waln' = [paid_waln EXCEPT ![old.investor] = @ + old.waln_amount]
           Step == \A r \in Rounds, i \in Slots : Final(r, i)
<1>1. ASSUME TypeOK, Books, RoundCanFill, SlotsMatch, ClaimsCounted, [Next]_vars PROVE Step
  <2> SUFFICES ASSUME NEW q \in Rounds, NEW j \in Slots PROVE Final(q, j)
    OBVIOUS
  <2>1. ASSUME round_locked_waln'[q].entries[j] = round_locked_waln[q].entries[j]
        PROVE  Final(q, j)
    BY <2>1
  <2>2. CASE close_round \/ \E max \in U64 : sell_waln_filling(max)
    <3>1. \/ round_locked_waln[q].entries[j].waln_amount = 0
          \/ round_locked_waln'[q] = round_locked_waln[q]
      BY <1>1, <2>2, CloseSettles, FillSettles, Settled
    <3> QED BY <2>1, <3>1
  <2>3. ASSUME NEW k \in Keys, NEW r \in Rounds, claim_waln(k, r) PROVE Final(q, j)
    <3>1. /\ now >= round_locked_waln[r].unlock
          /\ q # r => round_locked_waln'[q] = round_locked_waln[q]
      BY <1>1, <2>3, ClaimEffect
    <3>2. PICK i \in Slots :
            LET old == round_locked_waln[r].entries[i]
            IN  /\ old.investor = k
                /\ paid_waln' = [paid_waln EXCEPT ![k] = @ + old.waln_amount]
                /\ round_locked_waln'[r].entries[i].waln_amount = 0
                /\ j # i => \/ round_locked_waln'[r].entries[j] = round_locked_waln[r].entries[j]
                            \/ round_locked_waln[r].entries[j].waln_amount = 0
      BY <1>1, <2>3, ClaimEffect
    <3>3. CASE q # r
      BY <2>1, <3>1, <3>3
    <3>4. CASE q = r /\ j # i
      <4>1. \/ round_locked_waln'[q].entries[j] = round_locked_waln[q].entries[j]
            \/ round_locked_waln[q].entries[j].waln_amount = 0
        BY <3>2, <3>4
      <4>2. ASSUME round_locked_waln[q].entries[j].waln_amount = 0 PROVE Final(q, j)
        BY <4>2
      <4> QED BY <2>1, <4>1, <4>2
    <3>5. CASE q = r /\ j = i
      <4>1. /\ round_locked_waln'[q].entries[j].waln_amount = 0
            /\ now >= round_locked_waln[q].unlock
        BY <3>1, <3>2, <3>5
      <4>2. paid_waln' = [paid_waln EXCEPT ![round_locked_waln[q].entries[j].investor]
                                    = @ + round_locked_waln[q].entries[j].waln_amount]
        BY <3>2, <3>5
      <4> QED BY <4>1, <4>2
    <3> QED BY <3>3, <3>4, <3>5
  <2>4. ASSUME NEW r \in Rounds, NEW amount \in U64, PrefundLocked(r, amount)
        PROVE  Final(q, j)
    <3>1. round_locked_waln'[q].entries = round_locked_waln[q].entries
      BY <1>1, <2>4, PrefundEffect
    <3> QED BY <2>1, <3>1
  <2>5. ASSUME UNCHANGED round_locked_waln PROVE Final(q, j)
    BY <2>1, <2>5
  <2> HIDE DEF Final
  <2> QED BY <1>1, <2>2, <2>3, <2>4, <2>5, AccountSteps
          DEF close_round_record, PrefundRecord, claimVars
<1>2. TypeOK /\ Books /\ RoundCanFill /\ SlotsMatch /\ ClaimsCounted /\ [Next]_vars
        => [Step]_vars
  BY <1>1
<1> QED BY <1>2, TypeCorrect, BooksCorrect, CanFillCorrect, SlotsCorrect, ClaimsCorrect, PTL
        DEF Spec, AllocationsFinal

-----------------------------------------------------------------------------
\* The vault of wALN

\* The instructions that move wALN, or what accounts say about it.
LEMMA WalnSteps ==
  ASSUME TypeOK, [Next]_vars
  PROVE  \/ close_round
         \/ \E max \in U64 : sell_waln_filling(max)
         \/ \E max \in U64 : sell_waln(max)
         \/ \E k \in Keys, r \in Rounds : claim_waln(k, r)
         \/ /\ UNCHANGED <<waln_vault, waln_dust_carryover, paid_waln>>
            /\ round'.waln = round.waln
            /\ \A r \in Rounds : round_locked_waln'[r].entries = round_locked_waln[r].entries
<1> USE DEF claimVars
<1> DEFINE Same == /\ UNCHANGED <<waln_vault, waln_dust_carryover, paid_waln>>
                   /\ round'.waln = round.waln
                   /\ \A r \in Rounds :
                        round_locked_waln'[r].entries = round_locked_waln[r].entries
<1>1. WalnAmounts \subseteq U64 /\ LamportAmounts \subseteq U64
  BY FloorProgramAssumption
<1>2. ASSUME UNCHANGED <<claimVars, waln_dust_carryover, round>> PROVE Same
  BY <1>2
<1>3. ASSUME cancel_round PROVE Same
  BY <1>3, EndedRound DEF cancel_round
<1>4. ASSUME NEW r \in Rounds, NEW amount \in U64, PrefundLocked(r, amount) PROVE Same
  BY <1>4, PrefundEffect DEF PrefundLocked
<1> HIDE DEF Same
<1>5. CASE AdminNext
  <2>1. Same \/ close_round
    BY <1>2, <1>3, <1>5 DEF AdminNext, set_floor_price, set_round_size, set_lock_period,
       set_usdc_withdraw_lock, set_sell_paused, set_frozen, SetConfig,
       set_investor_usdc_unlock, mint_aat_nft, update_aat_volume,
       remove_investor_from_pool, fund_treasury, withdraw_treasury, close_round_record
  <2> QED BY <2>1 DEF Same
<1>6. CASE UserNext
  <2>1. \/ Same
        \/ \E max \in U64 : sell_waln_filling(max)
        \/ \E max \in U64 : sell_waln(max)
        \/ \E k \in Keys, r \in Rounds : claim_waln(k, r)
    BY <1>1, <1>2, <1>4, <1>6 DEF UserNext, deposit_usdc, withdraw_usdc, PrefundRecord
  <2> QED BY <2>1 DEF Same
<1>7. CASE Tick \/ UNCHANGED vars
  <2>1. Same
    BY <1>2, <1>7 DEF Tick, vars
  <2> QED BY <2>1 DEF Same
<1> QED BY <1>5, <1>6, <1>7 DEF Next

LEMMA UnclaimedNat ==
  ASSUME TypeOK
  PROVE  /\ \A r \in Rounds : UnclaimedOf(round_locked_waln[r]) \in Nat
         /\ \A n \in 1 .. MaxRounds : Unclaimed[n] \in Nat
         /\ Sum(Unclaimed, MaxRounds) \in Nat
<1>1. ASSUME NEW r \in Rounds PROVE UnclaimedOf(round_locked_waln[r]) \in Nat
  <2> DEFINE f == [i \in Slots |-> round_locked_waln[r].entries[i].waln_amount]
  <2>1. \A i \in 1 .. MAX_INVESTORS : f[i] \in Nat
    BY EntryNats DEF Slots
  <2> HIDE DEF f
  <2>2. Sum(f, MAX_INVESTORS) \in Nat
    BY <2>1, SumNat, RoundMathAssumption
  <2> QED BY <2>2 DEF UnclaimedOf, f
<1>2. MaxRounds \in Nat /\ \A n \in 1 .. MaxRounds : n - 1 \in Rounds
  BY FloorProgramAssumption DEF Rounds
<1>3. \A n \in 1 .. MaxRounds : Unclaimed[n] \in Nat
  BY <1>1, <1>2 DEF Unclaimed
<1> QED BY <1>1, <1>2, <1>3, SumNat

\* What is owed changes in one account.
LEMMA UnclaimedChange ==
  ASSUME TypeOK, NEW r \in Rounds, NEW d \in Int,
         \A q \in Rounds : q # r => round_locked_waln'[q] = round_locked_waln[q],
         UnclaimedOf(round_locked_waln'[r]) = UnclaimedOf(round_locked_waln[r]) + d
  PROVE  Sum(Unclaimed', MaxRounds) = Sum(Unclaimed, MaxRounds) + d
<1>1. MaxRounds \in Nat /\ r + 1 \in 1 .. MaxRounds
  BY FloorProgramAssumption DEF Rounds
<1>2. \A n \in 1 .. MaxRounds : n - 1 \in Rounds /\ (n - 1 = r <=> n = r + 1)
  BY FloorProgramAssumption DEF Rounds
<1>3. \A n \in 1 .. MaxRounds : /\ Unclaimed[n] = UnclaimedOf(round_locked_waln[n - 1])
                                /\ Unclaimed'[n] = UnclaimedOf(round_locked_waln'[n - 1])
  BY DEF Unclaimed
<1>4. \A n \in 1 .. MaxRounds : Unclaimed'[n] = IF n = r + 1 THEN Unclaimed[n] + d
                                                ELSE Unclaimed[n]
  BY <1>2, <1>3
<1>5. \A n \in 1 .. MaxRounds : Unclaimed[n] \in Int
  BY UnclaimedNat
<1> QED BY <1>1, <1>4, <1>5, SumUpdate

LEMMA UnclaimedSettle ==
  ASSUME TypeOK, ClaimsCounted, NEW inv, NEW allocs, NEW spent, NEW participants, NEW unlock,
         IsSettlement(inv, allocs, spent, participants, unlock)
  PROVE  Sum(Unclaimed', MaxRounds) = Sum(Unclaimed, MaxRounds) + Sum(allocs, MAX_INVESTORS)
<1> DEFINE r   == round_count
           old == [i \in Slots |-> round_locked_waln[r].entries[i].waln_amount]
           new == [i \in Slots |-> round_locked_waln'[r].entries[i].waln_amount]
<1>1. /\ r \in Rounds
      /\ \A q \in Rounds : q # r => round_locked_waln'[q] = round_locked_waln[q]
      /\ \A i \in Slots : old[i] = 0 /\ new[i] = allocs[i]
  BY Settled
<1>2. MAX_INVESTORS \in Nat /\ Slots = 1 .. MAX_INVESTORS
  BY RoundMathAssumption DEF Slots
<1>3. \A i \in Slots : allocs[i] \in Nat
  BY DEF IsSettlement
<1> HIDE DEF old, new
<1>4. Sum(old, MAX_INVESTORS) = 0
  BY <1>1, <1>2, SumZeros
<1>5. Sum(new, MAX_INVESTORS) = Sum(allocs, MAX_INVESTORS)
  BY <1>1, <1>2, SumEqual
<1>6. Sum(allocs, MAX_INVESTORS) \in Nat
  BY <1>2, <1>3, SumNat
<1>7. UnclaimedOf(round_locked_waln'[r])
        = UnclaimedOf(round_locked_waln[r]) + Sum(allocs, MAX_INVESTORS)
  BY <1>4, <1>5, <1>6 DEF UnclaimedOf, old, new
<1> QED BY <1>1, <1>6, <1>7, UnclaimedChange

LEMMA UnclaimedClaim ==
  ASSUME TypeOK, ClaimsCounted, NEW k \in Keys, NEW r \in Rounds, claim_waln(k, r)
  PROVE  /\ UNCHANGED <<round, waln_dust_carryover>>
         /\ \E d \in Int : /\ waln_vault' = waln_vault + d
                           /\ Sum(Unclaimed', MaxRounds) = Sum(Unclaimed, MaxRounds) + d
<1> DEFINE old == [i \in Slots |-> round_locked_waln[r].entries[i].waln_amount]
           new == [i \in Slots |-> round_locked_waln'[r].entries[i].waln_amount]
<1>1. /\ \A q \in Rounds : q # r => round_locked_waln'[q] = round_locked_waln[q]
      /\ UNCHANGED <<round, waln_dust_carryover>>
  BY ClaimEffect
<1>2. PICK i \in Slots :
        /\ old[i] \in Nat
        /\ waln_vault' = waln_vault - old[i]
        /\ new[i] = 0
        /\ \A j \in Slots : j # i => new[j] = old[j]
  BY ClaimEffect
<1>3. MAX_INVESTORS \in Nat /\ Slots = 1 .. MAX_INVESTORS /\ waln_vault \in Nat
  BY RoundMathAssumption, BalanceNats DEF Slots
<1>4. \A j \in Slots : old[j] \in Int
  BY EntryNats
<1>5. \A j \in Slots : new[j] = IF j = i THEN 0 ELSE old[j]
  BY <1>2
<1> HIDE DEF old, new
<1>6. Sum(new, MAX_INVESTORS) = Sum(old, MAX_INVESTORS) - old[i]
  BY <1>3, <1>4, <1>5, SumClear
<1>7. Sum(old, MAX_INVESTORS) \in Int
  BY <1>3, <1>4, SumInt
<1>8. PICK d \in Int : d = 0 - old[i]
  BY <1>2
<1>9. waln_vault' = waln_vault + d /\ Sum(new, MAX_INVESTORS) = Sum(old, MAX_INVESTORS) + d
  BY <1>2, <1>3, <1>6, <1>7, <1>8
<1>10. UnclaimedOf(round_locked_waln'[r]) = UnclaimedOf(round_locked_waln[r]) + d
  BY <1>9 DEF UnclaimedOf, old, new
<1> QED BY <1>1, <1>9, <1>10, UnclaimedChange

LEMMA WalnNext ==
  TypeOK /\ Books /\ RoundCanFill /\ SlotsMatch /\ ClaimsCounted /\ WalnConserved
    /\ [Next]_vars => WalnConserved'
<1> SUFFICES ASSUME TypeOK, Books, RoundCanFill, SlotsMatch, ClaimsCounted, WalnConserved,
                    [Next]_vars
             PROVE  WalnConserved'
  OBVIOUS
<1> DEFINE U == Sum(Unclaimed, MaxRounds)
<1>1. /\ U \in Nat /\ round.waln \in Nat /\ waln_dust_carryover \in Nat /\ waln_vault \in Nat
  BY UnclaimedNat, BalanceNats
<1>2. waln_vault = round.waln + waln_dust_carryover + U
  BY DEF WalnConserved
<1>3. TypeOK'
  BY TypeNext
<1>4. round'.waln \in Nat /\ waln_dust_carryover' \in Nat /\ waln_vault' \in Nat
  <2>1. WALN_SUPPLY \in Nat
    BY FloorProgramAssumption, U64Nats
  <2>2. round' \in RoundType /\ waln_dust_carryover' \in U64 /\ waln_vault' \in 0 .. WALN_SUPPLY
    BY <1>3 DEF TypeOK
  <2>3. round'.waln \in U64
    BY <2>2 DEF RoundType
  <2>4. waln_vault' \in Nat
    BY <2>1, <2>2
  <2> QED BY <2>2, <2>3, <2>4, U64Nats
<1>5. CASE close_round \/ \E max \in U64 : sell_waln_filling(max)
  <2>1. PICK inv, allocs, spent, participants, unlock :
          IsSettlement(inv, allocs, spent, participants, unlock)
    BY <1>5, CloseSettles, FillSettles
  <2> DEFINE S == Sum(allocs, MAX_INVESTORS)
  <2>2. U' = U + S
    BY <2>1, UnclaimedSettle
  <2>3. S \in Nat
    BY <2>1, U64Nats DEF IsSettlement, SettleAccounts
  <2>4. waln_vault' - (round'.waln + waln_dust_carryover')
          = (waln_vault - (round.waln + waln_dust_carryover)) + S
    BY <2>1 DEF IsSettlement
  <2>5. \A v, w, a, b, c, d, u, s \in Nat :
          /\ v - (a + b) = (w - (c + d)) + s /\ w = c + d + u
          => v = a + b + (u + s)
    OBVIOUS
  <2> HIDE DEF U, S
  <2>6. waln_vault' = round'.waln + waln_dust_carryover' + (U + S)
    BY <1>1, <1>2, <1>4, <2>3, <2>4, <2>5
  <2>7. waln_vault' = round'.waln + waln_dust_carryover' + U'
    BY <2>2, <2>6
  <2> QED BY <2>7 DEF WalnConserved, U
<1>6. ASSUME NEW max \in U64, sell_waln(max) PROVE WalnConserved'
  <2>1. Sale(max) /\ round'.waln = RoundWaln + waln_amount(max)
    BY <1>6, SoldRound
  <2>2. /\ waln_vault' = waln_vault + waln_amount(max)
        /\ UNCHANGED <<waln_dust_carryover, round_locked_waln>>
    BY <1>6 DEF sell_waln, Sale
  <2>3. RoundWaln = round.waln
    BY DEF RoundWaln, Books, LocksMatchRound
  <2>4. waln_amount(max) \in Nat
    BY <2>1, OpenFields
  <2>5. Unclaimed' = Unclaimed
    BY <2>2 DEF Unclaimed
  <2> HIDE DEF U
  <2>6. waln_vault' = round'.waln + waln_dust_carryover' + U
    BY <1>1, <1>2, <2>1, <2>2, <2>3, <2>4
  <2> QED BY <2>5, <2>6 DEF WalnConserved, U
<1>7. ASSUME NEW k \in Keys, NEW r \in Rounds, claim_waln(k, r) PROVE WalnConserved'
  <2>1. UNCHANGED <<round, waln_dust_carryover>>
    BY <1>7, UnclaimedClaim
  <2>2. PICK d \in Int : waln_vault' = waln_vault + d /\ U' = U + d
    BY <1>7, UnclaimedClaim
  <2> HIDE DEF U
  <2>3. waln_vault' = round.waln + waln_dust_carryover + (U + d)
    BY <1>1, <1>2, <2>2
  <2>4. waln_vault' = round'.waln + waln_dust_carryover' + U'
    BY <2>1, <2>2, <2>3
  <2> QED BY <2>4 DEF WalnConserved, U
<1>8. CASE /\ UNCHANGED <<waln_vault, waln_dust_carryover, paid_waln>>
           /\ round'.waln = round.waln
           /\ \A r \in Rounds : round_locked_waln'[r].entries = round_locked_waln[r].entries
  <2>1. \A n \in 1 .. MaxRounds : n - 1 \in Rounds
    BY FloorProgramAssumption DEF Rounds
  <2>2. Unclaimed' = Unclaimed
    BY <1>8, <2>1 DEF Unclaimed, UnclaimedOf
  <2> QED BY <1>8, <2>2 DEF WalnConserved
<1> QED BY <1>5, <1>6, <1>7, <1>8, WalnSteps

\* Every unit of wALN in the vault belongs to the round in progress, to the carried
\* dust or to one allocation that was not claimed yet, whatever rounding the
\* settlements did.
THEOREM WalnCorrect == Spec => []WalnConserved
<1>1. Init => WalnConserved
  <2> SUFFICES ASSUME Init PROVE WalnConserved
    OBVIOUS
  <2>1. round.waln = 0 /\ waln_dust_carryover = 0 /\ waln_vault = 0
    BY DEF Init
  <2>2. MaxRounds \in Nat /\ \A n \in 1 .. MaxRounds : n - 1 \in Rounds
    BY FloorProgramAssumption DEF Rounds
  <2>3. \A r \in Rounds : round_locked_waln[r] = NoLockedWaln
    BY DEF Init
  <2>4. UnclaimedOf(NoLockedWaln) = 0
    <3> DEFINE f == [i \in Slots |-> NoLockedWaln.entries[i].waln_amount]
    <3>1. \A i \in 1 .. MAX_INVESTORS : f[i] = 0
      BY DEF NoLockedWaln, NoEntries, Slots
    <3> HIDE DEF f
    <3>2. Sum(f, MAX_INVESTORS) = 0
      BY <3>1, SumZeros, RoundMathAssumption
    <3> QED BY <3>2 DEF UnclaimedOf, f
  <2>5. \A n \in 1 .. MaxRounds : Unclaimed[n] = 0
    BY <2>2, <2>3, <2>4 DEF Unclaimed
  <2>6. Sum(Unclaimed, MaxRounds) = 0
    BY <2>2, <2>5, SumZeros
  <2> QED BY <2>1, <2>6 DEF WalnConserved
<1> QED BY <1>1, WalnNext, TypeCorrect, BooksCorrect, CanFillCorrect, SlotsCorrect,
        ClaimsCorrect, PTL DEF Spec

-----------------------------------------------------------------------------
\* Rent

LEMMA RentOfNat ==
  ASSUME NEW rlw
  PROVE  RentOf(rlw) \in Nat
<1>1. Stored(rlw) \in SUBSET Slots
  BY DEF Stored
<1>2. Cardinality(Stored(rlw)) \in Nat
  BY <1>1, SlotSets, FS_CardinalityType
<1>3. \A c, e \in Nat : c * e \in Nat
  OBVIOUS
<1>4. RENT_LOCKED \in Nat /\ RENT_ENTRY \in Nat
  BY FloorProgramAssumption
<1> HIDE DEF Stored
<1> QED BY <1>2, <1>3, <1>4 DEF RentOf

\* A settlement brings both accounts to their rent, the one of the allocations to
\* that of the entries that it stores, and takes from the treasury what they lacked.
LEMMA SettledRent ==
  ASSUME TypeOK, SlotsMatch, ClaimsCounted,
         NEW inv, NEW allocs, NEW spent, NEW participants, NEW unlock,
         IsSettlement(inv, allocs, spent, participants, unlock)
  PROVE  LET locked == round_locked_waln[round_count].lamports
             record == round_record[round_count].lamports
             new    == round_locked_waln'[round_count]
         IN  /\ round_record'[round_count].lamports = Greatest(RENT_RECORD, record)
             /\ new.lamports = IF new.exists THEN Greatest(RentOf(new), locked) ELSE locked
             /\ \E d \in Int :
                  /\ treasury' = treasury - d
                  /\ new.lamports + round_record'[round_count].lamports = locked + record + d
<1> DEFINE r == round_count
           C == Claimable(allocs)
           R == LockedRent(allocs)
           l == round_locked_waln[r].lamports
           m == round_record[r].lamports
           new == round_locked_waln'[r]
           rec == round_record'[r]
<1>1. /\ r \in Rounds /\ (new.exists <=> C # 0)
  BY Settled
<1>2. l \in Nat /\ m \in Nat /\ C \in Nat /\ treasury \in Nat
  <2>1. C \in Nat
    <3>1. {i \in Slots : allocs[i] > 0} \in SUBSET Slots
      OBVIOUS
    <3> QED BY <3>1, SlotSets, FS_CardinalityType DEF Claimable
  <2>2. treasury \in Nat
    BY U64Nats DEF TypeOK
  <2> QED BY <1>1, <2>1, <2>2, EntryNats
<1>3. RENT_RECORD \in Nat /\ RENT_LOCKED \in Nat /\ RENT_ENTRY \in Nat
  BY FloorProgramAssumption
<1>4. /\ treasury' = treasury - SettleRent(allocs)
      /\ round_locked_waln' = IF C = 0 THEN round_locked_waln
                              ELSE [round_locked_waln EXCEPT ![r] =
                                      SettleLockedWaln(inv, allocs, unlock)]
      /\ rec.lamports = m + Missing(RENT_RECORD, m)
  BY <1>1 DEF IsSettlement, SettleAccounts, RecordTopUp, TypeOK
<1>5. \A c, e \in Nat : c * e \in Nat /\ c * e = e * c
  OBVIOUS
<1>6. R \in Nat /\ R = RENT_LOCKED + RENT_ENTRY * C
  <2> HIDE DEF C
  <2>1. R = RENT_LOCKED + C * RENT_ENTRY
    BY DEF LockedRent, C
  <2> HIDE DEF R
  <2> QED BY <1>2, <1>3, <1>5, <2>1
<1>7. C # 0 => RentOf(new) = R
  <2> SUFFICES ASSUME C # 0 PROVE RentOf(new) = R
    OBVIOUS
  <2>1. \A i \in Slots :
          /\ allocs[i] \in Nat
          /\ allocs[i] > 0 => i =< count /\ new.entries[i].investor = investors[i].investor
          /\ allocs[i] = 0 => new.entries[i].investor = NoKey
    BY Settled DEF IsSettlement
  <2>2. \A i \in Slots : i =< count => investors[i].investor # NoKey
    BY OneSlot DEF NoKey, Keys
  <2>3. Stored(new) = {i \in Slots : allocs[i] > 0}
    BY <2>1, <2>2 DEF Stored
  <2> HIDE DEF new, R
  <2> QED BY <1>6, <2>3 DEF RentOf, Claimable
<1>8. new.lamports = IF C = 0 THEN l ELSE l + Missing(R, l)
  <2>1. CASE C = 0
    BY <1>4, <2>1
  <2>2. CASE C # 0
    <3>1. new = SettleLockedWaln(inv, allocs, unlock)
      BY <1>1, <1>4, <2>2 DEF TypeOK
    <3> QED BY <2>2, <3>1 DEF SettleLockedWaln, LockedTopUp
  <2> QED BY <2>1, <2>2
<1>9. SettleRent(allocs) = Missing(RENT_RECORD, m) + IF C = 0 THEN 0 ELSE Missing(R, l)
  BY DEF SettleRent, RecordTopUp, LockedTopUp
<1> HIDE DEF R, C, l, m, new, rec
<1>10. PICK a \in Nat : a = Missing(RENT_RECORD, m)
  BY <1>2, <1>3, MissingFills
<1>11. PICK b \in Nat : b = IF C = 0 THEN 0 ELSE Missing(R, l)
  BY <1>2, <1>6, MissingFills
<1>12. rec.lamports = m + a /\ rec.lamports = Greatest(RENT_RECORD, m)
  BY <1>2, <1>3, <1>4, <1>10, MissingFills
<1>13. new.lamports = l + b
  BY <1>2, <1>8, <1>11
<1>14. new.lamports = IF new.exists THEN Greatest(RentOf(new), l) ELSE l
  BY <1>1, <1>2, <1>6, <1>7, <1>8, MissingFills
<1>15. treasury' = treasury - (a + b) /\ new.lamports + rec.lamports = l + m + (a + b)
  BY <1>2, <1>4, <1>9, <1>10, <1>11, <1>12, <1>13
<1> QED BY <1>12, <1>14, <1>15 DEF l, m, new, rec

LEMMA RentNext ==
  TypeOK /\ Books /\ RoundCanFill /\ SlotsMatch /\ ClaimsCounted /\ RentExempt /\ [Next]_vars
    => RentExempt'
<1> SUFFICES ASSUME TypeOK, Books, RoundCanFill, SlotsMatch, ClaimsCounted, RentExempt,
                    [Next]_vars, NEW q \in Rounds
             PROVE  /\ round_record'[q].exists => round_record'[q].lamports >= RENT_RECORD
                    /\ round_locked_waln'[q].exists =>
                         round_locked_waln'[q].lamports >= RentOf(round_locked_waln'[q])
  BY DEF RentExempt
<1> DEFINE Record == round_record'[q].exists => round_record'[q].lamports >= RENT_RECORD
           Locked == round_locked_waln'[q].exists =>
                       round_locked_waln'[q].lamports >= RentOf(round_locked_waln'[q])
<1>1. ASSUME round_record'[q] = round_record[q] PROVE Record
  BY <1>1 DEF RentExempt
<1>2. ASSUME round_locked_waln'[q] = round_locked_waln[q] PROVE Locked
  BY <1>2 DEF RentExempt
<1>3. CASE close_round \/ \E max \in U64 : sell_waln_filling(max)
  <2>1. PICK inv, allocs, spent, participants, unlock :
          IsSettlement(inv, allocs, spent, participants, unlock)
    BY <1>3, CloseSettles, FillSettles
  <2>2. ASSUME q = round_count PROVE Record /\ Locked
    <3> DEFINE new == round_locked_waln'[q]
               l   == round_locked_waln[q].lamports
               m   == round_record[q].lamports
    <3>1. /\ round_record'[q].lamports = Greatest(RENT_RECORD, m)
          /\ new.exists => new.lamports = Greatest(RentOf(new), l)
      BY <2>1, <2>2, SettledRent
    <3>2. RENT_RECORD \in Nat /\ RentOf(new) \in Nat /\ l \in Nat /\ m \in Nat
      BY RentOfNat, EntryNats, FloorProgramAssumption
    <3> HIDE DEF l, m
    <3> QED BY <3>1, <3>2 DEF Greatest
  <2>3. CASE q # round_count
    BY <1>1, <1>2, <2>1, <2>3, Settled
  <2> QED BY <2>2, <2>3
<1>4. ASSUME NEW k \in Keys, NEW r \in Rounds, claim_waln(k, r) PROVE Record /\ Locked
  <2>1. /\ round_record' = round_record
        /\ q # r => round_locked_waln'[q] = round_locked_waln[q]
    BY <1>4, ClaimEffect
  <2>2. ASSUME q = r PROVE Locked
    <3> DEFINE old == round_locked_waln[r]
               new == round_locked_waln'[r]
    <3>1. /\ old.exists
          /\ \/ new = NoLockedWaln
             \/ /\ new.lamports = old.lamports
                /\ \A j \in Slots : new.entries[j].investor = old.entries[j].investor
      BY <1>4, ClaimEffect
    <3>2. CASE new = NoLockedWaln
      BY <2>2, <3>2 DEF NoLockedWaln
    <3>3. CASE /\ new.lamports = old.lamports
               /\ \A j \in Slots : new.entries[j].investor = old.entries[j].investor
      <4>1. RentOf(new) = RentOf(old)
        <5>1. Stored(new) = Stored(old)
          BY <3>3 DEF Stored
        <5> QED BY <5>1 DEF RentOf
      <4>2. old.lamports >= RentOf(old)
        BY <3>1 DEF RentExempt
      <4> QED BY <2>2, <3>3, <4>1, <4>2
    <3> QED BY <3>1, <3>2, <3>3
  <2> QED BY <1>1, <1>2, <2>1, <2>2
<1>5. ASSUME NEW r \in Rounds, NEW amount \in U64, PrefundLocked(r, amount)
      PROVE  Record /\ Locked
  <2>1. /\ round_record' = round_record
        /\ round_locked_waln'[q].exists = round_locked_waln[q].exists
        /\ round_locked_waln[q].exists => round_locked_waln'[q] = round_locked_waln[q]
    BY <1>5, PrefundEffect
  <2> QED BY <1>1, <1>2, <2>1
<1>6. ASSUME NEW r \in Rounds, close_round_record(r) PROVE Record /\ Locked
  <2>1. /\ round_locked_waln' = round_locked_waln
        /\ round_record'[q] = IF q = r THEN NoRecord ELSE round_record[q]
    BY <1>6 DEF close_round_record, claimVars, TypeOK
  <2>2. ~ NoRecord.exists
    BY DEF NoRecord
  <2> QED BY <1>1, <1>2, <2>1, <2>2
<1>7. ASSUME NEW r \in Rounds, NEW amount \in U64, PrefundRecord(r, amount)
      PROVE  Record /\ Locked
  <2>1. /\ round_locked_waln' = round_locked_waln /\ ~ round_record[r].exists
        /\ round_record' = [round_record EXCEPT ![r].lamports = @ + amount]
    BY <1>7 DEF PrefundRecord, claimVars
  <2>2. q # r => round_record'[q] = round_record[q]
    BY <2>1 DEF TypeOK
  <2>3. round_record'[r].exists = round_record[r].exists
    BY <2>1, EntryNats DEF TypeOK, RoundRecordType
  <2> QED BY <1>1, <1>2, <2>1, <2>2, <2>3
<1> HIDE DEF Record, Locked
<1>8. Record /\ Locked
  BY <1>1, <1>2, <1>3, <1>4, <1>5, <1>6, <1>7, AccountSteps DEF Record, Locked
<1> QED BY <1>8 DEF Record, Locked

\* The accounts of settled rounds hold the rent of the size they were created with
\* as long as they live, whatever had been sent to their addresses before and
\* however many of their entries have been claimed.
THEOREM RentCorrect == Spec => []RentExempt
<1>1. Init => RentExempt
  BY DEF Init, RentExempt, NoLockedWaln, NoRecord
<1> QED BY <1>1, RentNext, TypeCorrect, BooksCorrect, CanFillCorrect, SlotsCorrect,
        ClaimsCorrect, PTL DEF Spec

\* The lamports of the accounts of one round change.
LEMMA LamportsChange ==
  ASSUME TypeOK, NEW r \in Rounds, NEW d \in Int,
         \A q \in Rounds : q # r => /\ round_locked_waln'[q] = round_locked_waln[q]
                                    /\ round_record'[q] = round_record[q],
         round_locked_waln'[r].lamports + round_record'[r].lamports
           = round_locked_waln[r].lamports + round_record[r].lamports + d
  PROVE  AccountLamports' = AccountLamports + d /\ AccountLamports \in Int
<1> DEFINE f == [n \in 1 .. MaxRounds |-> round_locked_waln[n - 1].lamports
                                            + round_record[n - 1].lamports]
           g == [n \in 1 .. MaxRounds |-> round_locked_waln'[n - 1].lamports
                                            + round_record'[n - 1].lamports]
<1>1. MaxRounds \in Nat /\ r + 1 \in 1 .. MaxRounds
  BY FloorProgramAssumption DEF Rounds
<1>2. \A n \in 1 .. MaxRounds : n - 1 \in Rounds /\ (n - 1 = r <=> n = r + 1)
  BY FloorProgramAssumption DEF Rounds
<1>3. \A n \in 1 .. MaxRounds : f[n] \in Int
  BY <1>2, EntryNats
<1>4. \A n \in 1 .. MaxRounds : g[n] = IF n = r + 1 THEN f[n] + d ELSE f[n]
  BY <1>2
<1> HIDE DEF f, g
<1>5. Sum(g, MaxRounds) = Sum(f, MaxRounds) + d /\ Sum(f, MaxRounds) \in Int
  BY <1>1, <1>3, <1>4, SumUpdate, SumInt
<1> QED BY <1>5 DEF AccountLamports, f, g

\* Settlements, claims and deletions of records lose no lamports, a closed account
\* returns all that it held to the treasury, and a settlement takes no more from the
\* treasury than what its accounts lack of their rent.
THEOREM LamportsCorrect == Spec => LamportsConserved
<1> DEFINE Moved == treasury' + AccountLamports' = treasury + AccountLamports
           NoExcess(r) ==
             /\ round_record'[r].lamports =< Greatest(RENT_RECORD, round_record[r].lamports)
             /\ round_locked_waln'[r].lamports =<
                  Greatest(RentOf(round_locked_waln'[r]), round_locked_waln[r].lamports)
           Step == /\ \/ round_count' # round_count
                      \/ paid_waln' # paid_waln
                      \/ \E r \in Rounds : round_record[r].exists /\ ~ round_record'[r].exists
                      => Moved
                   /\ round_count' # round_count => \A r \in Rounds : NoExcess(r)
<1>1. ASSUME TypeOK, Books, RoundCanFill, SlotsMatch, ClaimsCounted, [Next]_vars PROVE Step
  <2>1. treasury \in Nat
    BY <1>1, U64Nats DEF TypeOK
  <2>2. ASSUME NEW r \in Rounds, NEW d \in Int, treasury' = treasury - d,
               \A q \in Rounds : q # r => /\ round_locked_waln'[q] = round_locked_waln[q]
                                          /\ round_record'[q] = round_record[q],
               round_locked_waln'[r].lamports + round_record'[r].lamports
                 = round_locked_waln[r].lamports + round_record[r].lamports + d
        PROVE  Moved
    <3>1. AccountLamports' = AccountLamports + d /\ AccountLamports \in Int
      BY <1>1, <2>2, LamportsChange
    <3> QED BY <2>1, <2>2, <3>1
  <2>3. ASSUME close_round \/ \E max \in U64 : sell_waln_filling(max)
        PROVE  Moved /\ \A r \in Rounds : NoExcess(r)
    <3>1. PICK inv, allocs, spent, participants, unlock :
            IsSettlement(inv, allocs, spent, participants, unlock)
      BY <1>1, <2>3, CloseSettles, FillSettles
    <3>2. /\ round_count \in Rounds
          /\ \A q \in Rounds : q # round_count =>
               /\ round_locked_waln'[q] = round_locked_waln[q]
               /\ round_record'[q] = round_record[q]
      BY <1>1, <3>1, Settled
    <3>3. PICK d \in Int :
            /\ treasury' = treasury - d
            /\ round_locked_waln'[round_count].lamports + round_record'[round_count].lamports
                 = round_locked_waln[round_count].lamports
                     + round_record[round_count].lamports + d
      BY <1>1, <3>1, SettledRent
    <3>4. ASSUME NEW q \in Rounds PROVE NoExcess(q)
      <4> DEFINE new == round_locked_waln'[q]
                 l   == round_locked_waln[q].lamports
                 m   == round_record[q].lamports
      <4>1. RENT_RECORD \in Nat /\ RentOf(new) \in Nat /\ l \in Nat /\ m \in Nat
        BY <1>1, RentOfNat, EntryNats, FloorProgramAssumption
      <4>2. \/ round_record'[q].lamports = m
            \/ round_record'[q].lamports = Greatest(RENT_RECORD, m)
        BY <1>1, <3>1, <3>2, SettledRent
      <4>3. new.lamports = l \/ new.lamports = Greatest(RentOf(new), l)
        BY <1>1, <3>1, <3>2, SettledRent
      <4>4. \A a, b \in Nat : b =< Greatest(a, b) /\ Greatest(a, b) =< Greatest(a, b)
        BY DEF Greatest
      <4> HIDE DEF l, m
      <4> QED BY <4>1, <4>2, <4>3, <4>4 DEF l, m
    <3> HIDE DEF Moved, NoExcess
    <3> QED BY <2>2, <3>2, <3>3, <3>4
  <2>4. ASSUME NEW k \in Keys, NEW r \in Rounds, claim_waln(k, r)
        PROVE  Moved /\ UNCHANGED round_count
    <3> DEFINE old == round_locked_waln[r]
               new == round_locked_waln'[r]
    <3>1. /\ \A q \in Rounds : q # r => round_locked_waln'[q] = round_locked_waln[q]
          /\ round_record' = round_record /\ UNCHANGED round_count
          /\ \/ new = NoLockedWaln /\ treasury' = treasury + old.lamports
             \/ new.lamports = old.lamports /\ UNCHANGED treasury
      BY <1>1, <2>4, ClaimEffect
    <3>2. NoLockedWaln.lamports = 0
      BY DEF NoLockedWaln
    <3>3. old.lamports \in Nat /\ round_record[r].lamports \in Nat
      BY <1>1, EntryNats
    <3>4. PICK d \in Int : d = new.lamports - old.lamports
      BY <3>1, <3>2, <3>3
    <3>5. treasury' = treasury - d
      BY <2>1, <3>1, <3>2, <3>3, <3>4
    <3>6. new.lamports + round_record'[r].lamports
            = old.lamports + round_record[r].lamports + d
      BY <3>1, <3>2, <3>3, <3>4
    <3> QED BY <2>2, <3>1, <3>5, <3>6
  <2>5. ASSUME NEW r \in Rounds, close_round_record(r)
        PROVE  Moved /\ UNCHANGED round_count
    <3>1. /\ round_locked_waln' = round_locked_waln
          /\ round_record' = [round_record EXCEPT ![r] = NoRecord]
          /\ treasury' = treasury + round_record[r].lamports /\ UNCHANGED round_count
      BY <2>5 DEF close_round_record, claimVars
    <3>2. /\ \A q \in Rounds : q # r => round_record'[q] = round_record[q]
          /\ round_record'[r] = NoRecord
      BY <1>1, <3>1 DEF TypeOK
    <3>3. NoRecord.lamports = 0
      BY DEF NoRecord
    <3>4. round_locked_waln[r].lamports \in Nat /\ round_record[r].lamports \in Nat
      BY <1>1, EntryNats
    <3>5. PICK d \in Int : d = 0 - round_record[r].lamports
      BY <3>4
    <3>6. treasury' = treasury - d
      BY <2>1, <3>1, <3>4, <3>5
    <3>7. round_locked_waln'[r].lamports + round_record'[r].lamports
            = round_locked_waln[r].lamports + round_record[r].lamports + d
      BY <3>1, <3>2, <3>3, <3>4, <3>5
    <3> QED BY <2>2, <3>1, <3>2, <3>6, <3>7
  <2>6. ASSUME NEW r \in Rounds, NEW amount \in U64, PrefundLocked(r, amount) PROVE Step
    BY <1>1, <2>6, PrefundEffect
  <2>7. ASSUME NEW r \in Rounds, NEW amount \in U64, PrefundRecord(r, amount) PROVE Step
    <3>1. /\ UNCHANGED <<round_count, paid_waln>>
          /\ round_record' = [round_record EXCEPT ![r].lamports = @ + amount]
      BY <2>7 DEF PrefundRecord, claimVars
    <3>2. \A q \in Rounds : q # r => round_record'[q] = round_record[q]
      BY <1>1, <3>1 DEF TypeOK
    <3>3. round_record'[r].exists = round_record[r].exists
      BY <1>1, <3>1, EntryNats DEF TypeOK, RoundRecordType
    <3> QED BY <3>1, <3>2, <3>3
  <2>8. ASSUME UNCHANGED <<round_locked_waln, round_record, paid_waln, round_count>> PROVE Step
    BY <2>8
  <2> HIDE DEF Moved, NoExcess
  <2> QED BY <1>1, <2>3, <2>4, <2>5, <2>6, <2>7, <2>8, AccountSteps
<1>2. TypeOK /\ Books /\ RoundCanFill /\ SlotsMatch /\ ClaimsCounted /\ [Next]_vars
        => [Step]_vars
  BY <1>1
<1> QED BY <1>2, TypeCorrect, BooksCorrect, CanFillCorrect, SlotsCorrect, ClaimsCorrect, PTL
        DEF Spec, LamportsConserved

-----------------------------------------------------------------------------
\* What an investor is owed

\* What key k can claim from one account, and from the account of round n - 1.
Amounts(rlw) == [i \in Slots |-> rlw.entries[i].waln_amount]
OwedTerms(rlw, k) == KeyTerms(rlw.entries, k, Amounts(rlw))
OwedIn(rlw, k) == Sum(OwedTerms(rlw, k), MAX_INVESTORS)
OwedBy(rlws, k) == [n \in 1 .. MaxRounds |-> OwedIn(rlws[n - 1], k)]

LEMMA OwedSum ==
  ASSUME NEW k
  PROVE  /\ UnclaimedBy(k) = Sum(OwedBy(round_locked_waln, k), MaxRounds)
         /\ UnclaimedBy(k)' = Sum(OwedBy(round_locked_waln', k'), MaxRounds)
<1>1. ASSUME NEW rlw, NEW h
      PROVE  SumOver({i \in Slots : rlw.entries[i].investor = h},
                     [i \in Slots |-> rlw.entries[i].waln_amount]) = OwedIn(rlw, h)
  BY KeyTermsSum DEF OwedIn, OwedTerms, Amounts
<1> QED BY <1>1 DEF UnclaimedBy, OwedBy

LEMMA OwedNat ==
  ASSUME TypeOK, NEW k \in Keys
  PROVE  /\ \A r \in Rounds : /\ OwedIn(round_locked_waln[r], k) \in Nat
                              /\ \A i \in Slots : OwedTerms(round_locked_waln[r], k)[i] \in Nat
         /\ \A n \in 1 .. MaxRounds : OwedBy(round_locked_waln, k)[n] \in Nat
         /\ UnclaimedBy(k) \in Nat
<1>1. ASSUME NEW r \in Rounds
      PROVE  /\ OwedIn(round_locked_waln[r], k) \in Nat
             /\ \A i \in Slots : OwedTerms(round_locked_waln[r], k)[i] \in Nat
  <2> DEFINE f == OwedTerms(round_locked_waln[r], k)
  <2>1. \A i \in Slots : f[i] \in Nat
    BY EntryNats DEF OwedTerms, KeyTerms, Amounts
  <2> HIDE DEF f
  <2>2. Sum(f, MAX_INVESTORS) \in Nat
    BY <2>1, SumNat, RoundMathAssumption DEF Slots
  <2> QED BY <2>1, <2>2 DEF OwedIn, f
<1>2. MaxRounds \in Nat /\ \A n \in 1 .. MaxRounds : n - 1 \in Rounds
  BY FloorProgramAssumption DEF Rounds
<1>3. \A n \in 1 .. MaxRounds : OwedBy(round_locked_waln, k)[n] \in Nat
  BY <1>1, <1>2 DEF OwedBy
<1>4. Sum(OwedBy(round_locked_waln, k), MaxRounds) \in Nat
  BY <1>2, <1>3, SumNat
<1> QED BY <1>1, <1>3, <1>4, OwedSum

\* What key k is owed changes in one account.
LEMMA OwedChange ==
  ASSUME TypeOK, NEW k \in Keys, NEW r \in Rounds, NEW d \in Int,
         \A q \in Rounds : q # r => round_locked_waln'[q] = round_locked_waln[q],
         OwedIn(round_locked_waln'[r], k) = OwedIn(round_locked_waln[r], k) + d
  PROVE  UnclaimedBy(k)' = UnclaimedBy(k) + d
<1> DEFINE f == OwedBy(round_locked_waln, k)
           g == OwedBy(round_locked_waln', k)
<1>1. MaxRounds \in Nat /\ r + 1 \in 1 .. MaxRounds
  BY FloorProgramAssumption DEF Rounds
<1>2. \A n \in 1 .. MaxRounds : n - 1 \in Rounds /\ (n - 1 = r <=> n = r + 1)
  BY FloorProgramAssumption DEF Rounds
<1>3. \A n \in 1 .. MaxRounds : /\ f[n] = OwedIn(round_locked_waln[n - 1], k)
                                /\ g[n] = OwedIn(round_locked_waln'[n - 1], k)
  BY DEF OwedBy
<1>4. \A n \in 1 .. MaxRounds : f[n] \in Int
  BY OwedNat
<1> HIDE DEF f, g
<1>5. \A n \in 1 .. MaxRounds : g[n] = IF n = r + 1 THEN f[n] + d ELSE f[n]
  BY <1>2, <1>3
<1>6. Sum(g, MaxRounds) = Sum(f, MaxRounds) + d
  BY <1>1, <1>4, <1>5, SumUpdate
<1> QED BY <1>6, OwedSum DEF f, g

\* What a settlement allocates to the slots of key k.
AllocatedTo(allocs, k) == Sum(KeyTerms(investors, k, allocs), MAX_INVESTORS)

\* A settlement owes each investor what its slot was allocated.
LEMMA OwedSettle ==
  ASSUME TypeOK, ClaimsCounted, NEW inv, NEW allocs, NEW spent, NEW participants, NEW unlock,
         IsSettlement(inv, allocs, spent, participants, unlock), NEW k \in Keys
  PROVE  /\ AllocatedTo(allocs, k) \in Nat
         /\ \A i \in Slots : investors[i].investor = k => allocs[i] =< AllocatedTo(allocs, k)
         /\ UnclaimedBy(k)' = UnclaimedBy(k) + AllocatedTo(allocs, k)
<1> DEFINE r   == round_count
           old == OwedTerms(round_locked_waln[r], k)
           new == OwedTerms(round_locked_waln'[r], k)
           add == KeyTerms(investors, k, allocs)
<1>1. /\ r \in Rounds
      /\ \A q \in Rounds : q # r => round_locked_waln'[q] = round_locked_waln[q]
      /\ \A i \in Slots :
           /\ round_locked_waln[r].entries[i].waln_amount = 0
           /\ round_locked_waln'[r].entries[i].waln_amount = allocs[i]
           /\ allocs[i] > 0 =>
                round_locked_waln'[r].entries[i].investor = investors[i].investor
  BY Settled
<1>2. MAX_INVESTORS \in Nat /\ Slots = 1 .. MAX_INVESTORS
  BY RoundMathAssumption DEF Slots
<1>3. \A i \in Slots : allocs[i] \in Nat
  BY DEF IsSettlement
<1>4. \A i \in Slots : /\ old[i] = 0
                       /\ new[i] = add[i]
                       /\ add[i] \in Nat
                       /\ investors[i].investor = k => add[i] = allocs[i]
  BY <1>1, <1>3 DEF OwedTerms, KeyTerms, Amounts
<1> HIDE DEF old, new, add, r
<1>5. Sum(old, MAX_INVESTORS) = 0
  BY <1>2, <1>4, SumZeros
<1>6. Sum(new, MAX_INVESTORS) = Sum(add, MAX_INVESTORS)
  BY <1>2, <1>4, SumEqual
<1>7. Sum(add, MAX_INVESTORS) \in Nat
  BY <1>2, <1>4, SumNat
<1>8. \A i \in Slots : investors[i].investor = k => allocs[i] =< Sum(add, MAX_INVESTORS)
  BY <1>2, <1>4, SumTerm
<1>9. OwedIn(round_locked_waln'[r], k)
        = OwedIn(round_locked_waln[r], k) + Sum(add, MAX_INVESTORS)
  BY <1>5, <1>6, <1>7 DEF OwedIn, old, new
<1>10. UnclaimedBy(k)' = UnclaimedBy(k) + Sum(add, MAX_INVESTORS)
  BY <1>1, <1>7, <1>9, OwedChange
<1> QED BY <1>7, <1>8, <1>10 DEF AllocatedTo, add

\* A claim pays its investor what it is owed less of, and nobody else anything.
LEMMA OwedClaim ==
  ASSUME TypeOK, ClaimsCounted, NEW k \in Keys, NEW r \in Rounds, claim_waln(k, r)
  PROVE  \E amount \in Nat :
           /\ amount > 0
           /\ paid_waln' = [paid_waln EXCEPT ![k] = @ + amount]
           /\ \A h \in Keys :
                UnclaimedBy(h)' = UnclaimedBy(h) - (IF h = k THEN amount ELSE 0)
<1> DEFINE was == round_locked_waln[r]
           is == round_locked_waln'[r]
<1>1. \A q \in Rounds : q # r => round_locked_waln'[q] = round_locked_waln[q]
  BY ClaimEffect
<1>2. PICK i \in Slots :
        LET amount == was.entries[i].waln_amount
        IN  /\ amount \in Nat /\ amount > 0 /\ was.entries[i].investor = k
            /\ paid_waln' = [paid_waln EXCEPT ![k] = @ + amount]
            /\ is.entries[i].waln_amount = 0
            /\ \A j \in Slots : j # i =>
                 \/ is.entries[j] = was.entries[j]
                 \/ /\ was.entries[j].waln_amount = 0
                    /\ is.entries[j].waln_amount = 0
  BY ClaimEffect
<1> DEFINE amount == was.entries[i].waln_amount
<1>3. MAX_INVESTORS \in Nat /\ Slots = 1 .. MAX_INVESTORS
  BY RoundMathAssumption DEF Slots
<1>4. ASSUME NEW h \in Keys
      PROVE  UnclaimedBy(h)' = UnclaimedBy(h) - (IF h = k THEN amount ELSE 0)
  <2> DEFINE old == OwedTerms(was, h)
             new == OwedTerms(is, h)
  <2>1. \A j \in Slots : old[j] \in Nat
    BY OwedNat
  <2>2. \A j \in Slots : new[j] = IF j = i THEN 0 ELSE old[j]
    BY <1>2 DEF OwedTerms, KeyTerms, Amounts
  <2>3. old[i] = IF h = k THEN amount ELSE 0
    BY <1>2 DEF OwedTerms, KeyTerms, Amounts
  <2> HIDE DEF old, new, was, is
  <2>4. Sum(new, MAX_INVESTORS) = Sum(old, MAX_INVESTORS) - old[i]
    BY <1>3, <2>1, <2>2, SumClear
  <2>5. Sum(old, MAX_INVESTORS) \in Int
    BY <1>3, <2>1, SumInt
  <2>6. PICK d \in Int : d = 0 - old[i]
    BY <2>1
  <2>7. OwedIn(is, h) = OwedIn(was, h) + d
    BY <2>1, <2>4, <2>5, <2>6 DEF OwedIn, old, new
  <2>8. UnclaimedBy(h)' = UnclaimedBy(h) + d
    BY <1>1, <2>7, OwedChange DEF was, is
  <2>9. UnclaimedBy(h) \in Nat
    BY OwedNat
  <2>10. UnclaimedBy(h)' = UnclaimedBy(h) - old[i]
    BY <2>1, <2>6, <2>8, <2>9
  <2> QED BY <2>3, <2>10
<1> HIDE DEF was, is
<1> QED BY <1>2, <1>4

\* Whatever else changes in the accounts, the amounts stay.
LEMMA OwedSame ==
  ASSUME \A r \in Rounds : round_locked_waln'[r].entries = round_locked_waln[r].entries,
         NEW k \in Keys
  PROVE  UnclaimedBy(k)' = UnclaimedBy(k)
<1>1. \A n \in 1 .. MaxRounds : n - 1 \in Rounds
  BY FloorProgramAssumption DEF Rounds
<1>2. OwedBy(round_locked_waln', k) = OwedBy(round_locked_waln, k)
  BY <1>1 DEF OwedBy, OwedIn, OwedTerms, Amounts
<1> QED BY <1>2, OwedSum

\* Only a settlement adds to what a slot has bought: a removal moves it with its
\* slot, and a new slot starts from nothing.
LEMMA PurchasedSteps ==
  ASSUME TypeOK, Books, RoundCanFill, SlotsMatch, [Next]_vars
  PROVE  \/ \E inv, allocs, spent, participants, unlock :
              IsSettlement(inv, allocs, spent, participants, unlock)
         \/ \A i \in Slots : i =< count' =>
              \/ investors'[i].waln_purchased_total = 0
              \/ \E j \in Slots :
                   /\ j =< count /\ investors'[i].investor = investors[j].investor
                   /\ investors'[i].waln_purchased_total = investors[j].waln_purchased_total
<1> DEFINE From(i) == \E j \in Slots :
             /\ j =< count /\ investors'[i].investor = investors[j].investor
             /\ investors'[i].waln_purchased_total = investors[j].waln_purchased_total
           Settlement == \E inv, allocs, spent, participants, unlock :
             IsSettlement(inv, allocs, spent, participants, unlock)
           Moved == \A i \in Slots : i =< count' =>
             investors'[i].waln_purchased_total = 0 \/ From(i)
<1>1. count \in Nat /\ \A i \in Slots : i \in Nat /\ investors[i] \in InvestorRecord
  BY RoundMathAssumption DEF TypeOK, Slots
<1>2. ASSUME count' = count,
             \A i \in Slots :
               /\ investors'[i].investor = investors[i].investor
               /\ investors'[i].waln_purchased_total = investors[i].waln_purchased_total
      PROVE  Moved
  BY <1>2
<1>3. ASSUME RoundStep PROVE Settlement \/ Moved
  <2>1. UNCHANGED count
    BY <1>3, RoundKeeps
  <2>2. ASSUME NEW max \in U64, sell_waln(max) PROVE Moved
    <3>1. Sale(max) /\ investors' = OpenPool
      BY <2>2 DEF sell_waln
    <3>2. \A i \in Slots :
            /\ investors'[i].investor = investors[i].investor
            /\ investors'[i].waln_purchased_total = investors[i].waln_purchased_total
      BY <3>1, OpenKeeps DEF Kept
    <3> HIDE DEF Moved
    <3> QED BY <1>2, <2>1, <3>2
  <2>3. ASSUME cancel_round PROVE Moved
    <3>1. \A i \in Slots :
            /\ investors'[i].investor = investors[i].investor
            /\ investors'[i].waln_purchased_total = investors[i].waln_purchased_total
      BY <1>1, <2>3 DEF cancel_round, InvestorRecord
    <3> HIDE DEF Moved
    <3> QED BY <1>2, <2>1, <3>1
  <2> HIDE DEF Moved
  <2> QED BY <1>3, <2>2, <2>3, CloseSettles, FillSettles DEF RoundStep
<1>4. ASSUME NEW k \in Keys, NEW amount \in U64, deposit_usdc(k, amount) PROVE Moved
  <2>1. PICK j \in Slots :
          /\ \A i \in Slots : i # j => investors'[i] = investors[i]
          /\ investors'[j].investor = k
          /\ investors'[j].waln_purchased_total = investors[j].waln_purchased_total
          /\ \/ j =< count /\ count' = count /\ investors[j].investor = k
             \/ j = count + 1 /\ count' = count + 1 /\ investors[j] = NewRecord(NoKey)
    BY <1>4, DepositEffect
  <2>2. NewRecord(NoKey).waln_purchased_total = 0
    BY DEF NewRecord
  <2> SUFFICES ASSUME NEW i \in Slots, i =< count'
               PROVE  investors'[i].waln_purchased_total = 0 \/ From(i)
    OBVIOUS
  <2>3. CASE i = j
    BY <2>1, <2>2, <2>3
  <2>4. CASE i # j
    <3>1. i =< count
      BY <1>1, <2>1, <2>4
    <3> QED BY <2>1, <2>4, <3>1
  <2> QED BY <2>3, <2>4
<1>5. ASSUME NEW k \in Keys, NEW amount \in U64, withdraw_usdc(k, amount) PROVE Moved
  <2>1. PICK j \in Slots :
          /\ count' = count
          /\ \A i \in Slots : i # j => investors'[i] = investors[i]
          /\ Kept(investors[j], investors'[j])
          /\ investors'[j].waln_purchased_total = investors[j].waln_purchased_total
    BY <1>5, WithdrawEffect
  <2>2. \A i \in Slots :
          /\ investors'[i].investor = investors[i].investor
          /\ investors'[i].waln_purchased_total = investors[i].waln_purchased_total
    BY <2>1 DEF Kept
  <2> HIDE DEF Moved
  <2> QED BY <1>2, <2>1, <2>2
<1>6. ASSUME NEW k \in Keys, remove_investor_from_pool(k) PROVE Moved
  <2>1. PICK j \in Slots :
          \A i \in Slots : investors'[i] = IF i = count THEN NewRecord(NoKey)
                                           ELSE IF i = j THEN investors[count]
                                           ELSE investors[i]
    BY <1>6, RemoveEffect
  <2>2. count \in Slots /\ count' = count - 1
    BY <1>6, RemoveEffect
  <2> SUFFICES ASSUME NEW i \in Slots, i =< count' PROVE From(i)
    OBVIOUS
  <2>3. i =< count /\ i # count /\ count =< count
    BY <1>1, <2>2
  <2>4. CASE i = j
    BY <2>1, <2>2, <2>3, <2>4
  <2>5. CASE i # j
    BY <2>1, <2>3, <2>5
  <2> QED BY <2>4, <2>5
<1> HIDE DEF Moved
<1>7. Settlement \/ Moved
  BY <1>2, <1>3, <1>4, <1>5, <1>6, SlotSteps
<1> QED BY <1>7 DEF Moved

\* Together, what was paid to a key and what it can still claim only grow, and by
\* what a settlement allocates to it.
LEMMA OwedGrows ==
  ASSUME TypeOK, Books, RoundCanFill, SlotsMatch, ClaimsCounted, [Next]_vars, NEW k \in Keys
  PROVE  /\ paid_waln[k] + UnclaimedBy(k) \in Nat
         /\ paid_waln'[k] + UnclaimedBy(k)' \in Nat
         /\ paid_waln'[k] + UnclaimedBy(k)' >= paid_waln[k] + UnclaimedBy(k)
         /\ \A inv, allocs, spent, participants, unlock :
              IsSettlement(inv, allocs, spent, participants, unlock) =>
                paid_waln'[k] + UnclaimedBy(k)'
                  = paid_waln[k] + UnclaimedBy(k) + AllocatedTo(allocs, k)
<1> DEFINE U == UnclaimedBy(k)
           P == paid_waln[k]
<1>1. U \in Nat /\ P \in Nat
  BY OwedNat DEF TypeOK
<1> HIDE DEF U, P
<1>2. ASSUME NEW inv, NEW allocs, NEW spent, NEW participants, NEW unlock,
             IsSettlement(inv, allocs, spent, participants, unlock)
      PROVE  /\ AllocatedTo(allocs, k) \in Nat
             /\ P' + U' = P + U + AllocatedTo(allocs, k)
  <2>1. U' = U + AllocatedTo(allocs, k) /\ AllocatedTo(allocs, k) \in Nat
    BY <1>2, OwedSettle DEF U
  <2>2. P' = P
    BY <1>2 DEF IsSettlement, P
  <2> QED BY <1>1, <2>1, <2>2
<1>3. ASSUME NEW h \in Keys, NEW r \in Rounds, claim_waln(h, r) PROVE P' + U' = P + U
  <2>1. PICK amount \in Nat :
          /\ paid_waln' = [paid_waln EXCEPT ![h] = @ + amount]
          /\ U' = U - (IF k = h THEN amount ELSE 0)
    BY <1>3, OwedClaim DEF U
  <2>2. P' = P + (IF k = h THEN amount ELSE 0)
    BY <1>1, <2>1 DEF P, TypeOK
  <2> QED BY <1>1, <2>1, <2>2
<1>4. ASSUME paid_waln' = paid_waln,
             \A r \in Rounds : round_locked_waln'[r].entries = round_locked_waln[r].entries
      PROVE  P' + U' = P + U
  BY <1>4, OwedSame DEF P, U
<1>5. P' + U' >= P + U /\ P' + U' \in Nat
  <2>1. CASE close_round \/ \E max \in U64 : sell_waln_filling(max)
    <3>1. PICK inv, allocs, spent, participants, unlock :
            IsSettlement(inv, allocs, spent, participants, unlock)
      BY <2>1, CloseSettles, FillSettles
    <3> QED BY <1>1, <1>2, <3>1
  <2>2. ASSUME P' + U' = P + U PROVE P' + U' >= P + U /\ P' + U' \in Nat
    BY <1>1, <2>2
  <2>3. ASSUME NEW max \in U64, sell_waln(max) PROVE P' + U' = P + U
    BY <1>4, <2>3 DEF sell_waln
  <2> QED BY <1>3, <1>4, <2>1, <2>2, <2>3, WalnSteps
<1> QED BY <1>1, <1>2, <1>5 DEF P, U

\* What is backed, in terms of the accounts.
BackedIn(rec, pays, rlws) ==
  rec.waln_purchased_total =< pays[rec.investor] + Sum(OwedBy(rlws, rec.investor), MaxRounds)

LEMMA BackedSlots ==
  /\ PurchasesBacked <=>
       \A i \in Slots : i =< count => BackedIn(investors[i], paid_waln, round_locked_waln)
  /\ PurchasesBacked' <=>
       \A i \in Slots : i =< count' => BackedIn(investors'[i], paid_waln', round_locked_waln')
<1>1. ASSUME NEW rlws, NEW h
      PROVE  Sum([n \in 1 .. MaxRounds |->
                    LET rlw == rlws[n - 1]
                    IN  SumOver({i \in Slots : rlw.entries[i].investor = h},
                                [i \in Slots |-> rlw.entries[i].waln_amount])], MaxRounds)
               = Sum(OwedBy(rlws, h), MaxRounds)
  <2>1. ASSUME NEW rlw
        PROVE  SumOver({i \in Slots : rlw.entries[i].investor = h},
                       [i \in Slots |-> rlw.entries[i].waln_amount]) = OwedIn(rlw, h)
    BY KeyTermsSum DEF OwedIn, OwedTerms, Amounts
  <2> QED BY <2>1 DEF OwedBy
<1>2. ASSUME NEW i \in Slots
      PROVE  BackedIn(investors[i], paid_waln, round_locked_waln) <=>
               investors[i].waln_purchased_total =<
                 paid_waln[investors[i].investor] + UnclaimedBy(investors[i].investor)
  BY <1>1 DEF BackedIn, UnclaimedBy
<1>3. ASSUME NEW i \in Slots
      PROVE  BackedIn(investors'[i], paid_waln', round_locked_waln') <=>
               (investors[i].waln_purchased_total =<
                  paid_waln[investors[i].investor] + UnclaimedBy(investors[i].investor))'
  BY <1>1 DEF BackedIn, UnclaimedBy
<1> QED BY <1>2, <1>3 DEF PurchasesBacked

LEMMA BackedNext ==
  TypeOK /\ Books /\ RoundCanFill /\ SlotsMatch /\ ClaimsCounted /\ PurchasesBacked /\ [Next]_vars
    => PurchasesBacked'
<1> SUFFICES ASSUME TypeOK, Books, RoundCanFill, SlotsMatch, ClaimsCounted, PurchasesBacked,
                    [Next]_vars, NEW i \in Slots, i =< count'
             PROVE  BackedIn(investors'[i], paid_waln', round_locked_waln')
  BY BackedSlots
<1>1. investors'[i].investor \in Keys
  <2>1. TypeOK' /\ SlotsMatch'
    BY TypeNext, SlotsNext
  <2> QED BY <2>1 DEF TypeOK, SlotsMatch, PoolMatchesNfts
<1>2. PICK k \in Keys : k = investors'[i].investor
  BY <1>1
<1> DEFINE W == investors'[i].waln_purchased_total
           B == paid_waln[k] + UnclaimedBy(k)
<1>3. B \in Nat /\ B' >= B
  BY OwedGrows
<1>4. ASSUME W =< B' PROVE BackedIn(investors'[i], paid_waln', round_locked_waln')
  BY <1>2, <1>4, OwedSum DEF BackedIn
<1>5. ASSUME NEW j \in Slots, j =< count, investors[j].investor = k
      PROVE  investors[j].waln_purchased_total =< B
  <2>1. BackedIn(investors[j], paid_waln, round_locked_waln)
    BY <1>5, BackedSlots
  <2> QED BY <1>5, <2>1, OwedSum DEF BackedIn
<1>6. B' \in Nat
  BY OwedGrows
<1>7. \A j \in Slots : investors[j].waln_purchased_total \in Nat
  BY U64Nats DEF TypeOK, InvestorRecord
<1>8. ASSUME NEW inv, NEW allocs, NEW spent, NEW participants, NEW unlock,
             IsSettlement(inv, allocs, spent, participants, unlock)
      PROVE  W =< B'
  <2>1. /\ B' = B + AllocatedTo(allocs, k) /\ AllocatedTo(allocs, k) \in Nat
        /\ investors[i].investor = k => allocs[i] =< AllocatedTo(allocs, k)
    BY <1>8, OwedGrows, OwedSettle
  <2>2. /\ count' = count /\ allocs[i] \in Nat
        /\ investors'[i].investor = investors[i].investor
        /\ W = investors[i].waln_purchased_total + allocs[i]
    BY <1>8 DEF IsSettlement
  <2>3. investors[i].waln_purchased_total =< B
    BY <1>2, <1>5, <2>2
  <2> HIDE DEF B, W
  <2> QED BY <1>2, <1>3, <1>7, <2>1, <2>2, <2>3
<1>9. CASE W = 0
  BY <1>4, <1>6, <1>9
<1>10. ASSUME NEW j \in Slots, j =< count, investors'[i].investor = investors[j].investor,
              W = investors[j].waln_purchased_total
       PROVE  W =< B'
  <2>1. investors[j].waln_purchased_total =< B
    BY <1>2, <1>5, <1>10
  <2> HIDE DEF B, W
  <2> QED BY <1>3, <1>6, <1>7, <1>10, <2>1
<1> HIDE DEF B
<1> QED BY <1>4, <1>8, <1>9, <1>10, PurchasedSteps

\* What the pool says an investor bought was paid to it or can still be claimed by
\* it, across settlements, claims, removals and slots that are taken again.
THEOREM BackedCorrect == Spec => []PurchasesBacked
<1>1. Init => PurchasesBacked
  <2> SUFFICES ASSUME Init PROVE PurchasesBacked
    OBVIOUS
  <2>1. count = 0 /\ \A i \in Slots : ~ (i =< 0)
    BY DEF Init, Slots
  <2> QED BY <2>1 DEF PurchasesBacked
<1> QED BY <1>1, BackedNext, TypeCorrect, BooksCorrect, CanFillCorrect, SlotsCorrect,
        ClaimsCorrect, PTL DEF Spec
=============================================================================
