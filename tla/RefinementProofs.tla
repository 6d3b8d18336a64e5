--------------------------- MODULE RefinementProofs --------------------------
(***************************************************************************)
(* The floor program implements the ledger of module FloorLedger, for      *)
(* every value of the constants: its initial state maps to the empty       *)
(* ledger, and every instruction is one step of the ledger or leaves it    *)
(* alone.                                                                  *)
(*                                                                         *)
(* The program driven by the clients of module FloorClients implements the *)
(* program, so what is proved of the program holds of the composition; and *)
(* a late transaction of the admin closes no other round than the one that *)
(* its sender saw.                                                         *)
(***************************************************************************)
EXTENDS ClaimProofs, FloorRefinement, FloorClients

LEMMA LedgerKeys == Ledger!Investors = Keys
BY DEF Ledger!Investors, Keys

LEMMA LedgerSum ==
  ASSUME NEW f, NEW n
  PROVE  Ledger!Sum(f, n) = Sum(f, n)
BY DEF Ledger!Sum, Ledger!PrefixSum, Sum, PrefixSum

LEMMA LedgerInit == Init => Ledger!Init
<1> SUFFICES ASSUME Init PROVE Ledger!Init
  OBVIOUS
<1>1. /\ round.waln = 0 /\ waln_dust_carryover = 0 /\ round.usdc_spent = 0
      /\ paid_waln = [k \in Keys |-> 0]
  BY DEF Init
<1>2. ASSUME NEW k \in Keys PROVE OwnedBy(k, investors) = 0
  <2> DEFINE f == KeyTerms(investors, k, PositionsOf(investors))
  <2>1. \A i \in 1 .. MAX_INVESTORS : f[i] = 0
    BY DEF Init, NewRecord, KeyTerms, PositionsOf, Slots
  <2> HIDE DEF f
  <2>2. Sum(f, MAX_INVESTORS) = 0
    BY <2>1, SumZeros, RoundMathAssumption
  <2> QED BY <2>2, OwnedSum, KeyTermsSum DEF f
<1>3. ASSUME NEW k \in Keys PROVE UnclaimedBy(k) = 0
  <2> DEFINE f == OwedTerms(NoLockedWaln, k)
             g == OwedBy(round_locked_waln, k)
  <2>1. \A i \in 1 .. MAX_INVESTORS : f[i] = 0
    BY DEF OwedTerms, KeyTerms, Amounts, NoLockedWaln, NoEntries, Slots
  <2>2. \A n \in 1 .. MaxRounds : g[n] = OwedIn(NoLockedWaln, k)
    <3>1. \A n \in 1 .. MaxRounds : n - 1 \in Rounds
      BY FloorProgramAssumption DEF Rounds
    <3> QED BY <3>1 DEF Init, OwedBy
  <2> HIDE DEF f, g
  <2>3. OwedIn(NoLockedWaln, k) = 0
    BY <2>1, SumZeros, RoundMathAssumption DEF OwedIn, f
  <2>4. Sum(g, MaxRounds) = 0
    BY <2>2, <2>3, SumZeros, FloorProgramAssumption
  <2> QED BY <2>4, OwedSum DEF g
<1> QED BY <1>1, <1>2, <1>3, LedgerKeys DEF Ledger!Init

-----------------------------------------------------------------------------
\* Steps that leave the ledger alone, and steps that concern one investor's USDC

LEMMA LedgerSame ==
  ASSUME \A k \in Keys : OwnedBy(k, investors') = OwnedBy(k, investors),
         \A k \in Keys : UnclaimedBy(k)' = UnclaimedBy(k),
         paid_waln' = paid_waln,
         round'.waln + waln_dust_carryover' = round.waln + waln_dust_carryover,
         round'.usdc_spent = round.usdc_spent
  PROVE  UNCHANGED Ledger!ledger
BY DEF Ledger!ledger

LEMMA OwnedNat ==
  ASSUME NEW inv \in PoolType, NEW k
  PROVE  /\ OwnedBy(k, inv) \in Nat
         /\ \A i \in Slots : /\ PositionsOf(inv)[i] \in Nat
                             /\ KeyTerms(inv, k, PositionsOf(inv))[i] \in Nat
                             /\ inv[i].investor = k => PositionsOf(inv)[i] =< OwnedBy(k, inv)
<1> DEFINE f == KeyTerms(inv, k, PositionsOf(inv))
<1>1. \A i \in Slots : PositionsOf(inv)[i] \in Nat
  <2>1. \A i \in Slots : /\ inv[i].usdc_deposited \in Nat
                         /\ inv[i].usdc_locked_current_round \in Nat
    BY PoolTypeNats DEF PoolOfNats
  <2> QED BY <2>1 DEF PositionsOf
<1>2. \A i \in Slots : /\ f[i] \in Nat
                       /\ inv[i].investor = k => f[i] = PositionsOf(inv)[i]
  BY <1>1 DEF KeyTerms
<1>3. MAX_INVESTORS \in Nat /\ Slots = 1 .. MAX_INVESTORS
  BY RoundMathAssumption DEF Slots
<1>4. OwnedBy(k, inv) = Sum(f, MAX_INVESTORS)
  BY OwnedSum, KeyTermsSum
<1> HIDE DEF f
<1>5. Sum(f, MAX_INVESTORS) \in Nat
  BY <1>2, <1>3, SumNat
<1>6. \A i \in Slots : f[i] =< Sum(f, MAX_INVESTORS)
  BY <1>2, <1>3, SumTerm
<1> QED BY <1>1, <1>2, <1>4, <1>5, <1>6 DEF f

\* An instruction that changes what one investor owns, and nothing else of the
\* ledger, is a deposit or a withdrawal.
LEMMA LedgerOwner ==
  ASSUME TypeOK, TypeOK', NEW k \in Keys,
         \A h \in Keys : h # k => OwnedBy(h, investors') = OwnedBy(h, investors),
         UNCHANGED <<round, waln_dust_carryover, claimVars>>
  PROVE  [Ledger!Next]_(Ledger!ledger)
<1>1. \A h \in Keys : UnclaimedBy(h)' = UnclaimedBy(h)
  BY OwedSame DEF claimVars
<1>2. UNCHANGED paid_waln
  BY DEF claimVars
<1>3. OwnedBy(k, investors) \in Nat /\ OwnedBy(k, investors') \in Nat
  <2>1. investors \in PoolType /\ investors' \in PoolType
    BY DEF TypeOK, PoolType
  <2> QED BY <2>1, OwnedNat
<1>4. CASE OwnedBy(k, investors') = OwnedBy(k, investors)
  BY <1>1, <1>2, <1>4, LedgerSame
<1>5. CASE OwnedBy(k, investors') > OwnedBy(k, investors)
  <2>1. Ledger!Deposit(k)
    BY <1>1, <1>2, <1>5, LedgerKeys DEF Ledger!Deposit, Ledger!OnlyFor
  <2> QED BY <2>1, LedgerKeys DEF Ledger!Next
<1>6. CASE OwnedBy(k, investors') < OwnedBy(k, investors)
  <2>1. Ledger!Withdraw(k)
    BY <1>1, <1>2, <1>6, LedgerKeys DEF Ledger!Withdraw, Ledger!OnlyFor
  <2> QED BY <2>1, LedgerKeys DEF Ledger!Next
<1> QED BY <1>3, <1>4, <1>5, <1>6

LEMMA LedgerDeposit ==
  ASSUME TypeOK, TypeOK', SlotsMatch, NEW k \in Keys, NEW amount \in U64,
         deposit_usdc(k, amount)
  PROVE  [Ledger!Next]_(Ledger!ledger)
<1>1. PICK j \in Slots :
        /\ \A s \in Slots : s # j => investors'[s] = investors[s]
        /\ investors'[j].investor = k
        /\ investors[j].investor = k \/ investors[j] = NewRecord(NoKey)
  BY DepositEffect
<1>2. ASSUME NEW h \in Keys, h # k PROVE OwnedBy(h, investors') = OwnedBy(h, investors)
  <2>1. investors[j].investor # h
    BY <1>1, <1>2 DEF NewRecord, NoKey, Keys
  <2>2. \A s \in Slots : KeyTerms(investors', h, PositionsOf(investors'))[s]
                           = KeyTerms(investors, h, PositionsOf(investors))[s]
    BY <1>1, <1>2, <2>1 DEF KeyTerms, PositionsOf
  <2> QED BY <2>2, OwnedSame
<1>3. UNCHANGED <<round, waln_dust_carryover, claimVars>>
  BY DEF deposit_usdc
<1> QED BY <1>2, <1>3, LedgerOwner

LEMMA LedgerWithdraw ==
  ASSUME TypeOK, TypeOK', NEW k \in Keys, NEW amount \in U64, withdraw_usdc(k, amount)
  PROVE  [Ledger!Next]_(Ledger!ledger)
<1>1. PICK j \in Slots :
        /\ investors[j].investor = k
        /\ \A s \in Slots : s # j => investors'[s] = investors[s]
        /\ Kept(investors[j], investors'[j])
  BY WithdrawEffect
<1>2. ASSUME NEW h \in Keys, h # k PROVE OwnedBy(h, investors') = OwnedBy(h, investors)
  <2>1. \A s \in Slots : KeyTerms(investors', h, PositionsOf(investors'))[s]
                           = KeyTerms(investors, h, PositionsOf(investors))[s]
    BY <1>1, <1>2 DEF KeyTerms, PositionsOf, Kept
  <2> QED BY <2>1, OwnedSame
<1>3. UNCHANGED <<round, waln_dust_carryover, claimVars>>
  BY DEF withdraw_usdc
<1> QED BY <1>2, <1>3, LedgerOwner

\* A removal moves the last slot, which changes nothing for the investor in it.
LEMMA LedgerRemove ==
  ASSUME TypeOK, TypeOK', NEW k \in Keys, remove_investor_from_pool(k)
  PROVE  [Ledger!Next]_(Ledger!ledger)
<1> DEFINE f == PositionsOf(investors)
           g == PositionsOf(investors')
<1>1. PICK j \in Slots :
        /\ investors[j].investor = k
        /\ \A s \in Slots : investors'[s] = IF s = count THEN NewRecord(NoKey)
                                            ELSE IF s = j THEN investors[count]
                                            ELSE investors[s]
  BY RemoveEffect
<1>2. count \in Slots /\ investors \in PoolType
  BY RemoveEffect DEF TypeOK, PoolType
<1>3. \A s \in Slots : f[s] \in Int
  BY <1>2, OwnedNat
<1>4. SlotMoved(investors, investors', f, g, j, count)
  BY <1>1, <1>2, <1>3 DEF PositionsOf, SlotMoved, NewRecord
<1> HIDE DEF f, g
<1>5. ASSUME NEW h \in Keys, h # k PROVE OwnedBy(h, investors') = OwnedBy(h, investors)
  <2>1. investors[j].investor # h
    BY <1>1, <1>5
  <2>2. SumOver({s \in Slots : investors'[s].investor = h}, g)
          = SumOver({s \in Slots : investors[s].investor = h}, f)
    BY <1>2, <1>4, <2>1, KeySumMoved
  <2> QED BY <2>2, OwnedSum DEF f, g
<1>6. UNCHANGED <<round, waln_dust_carryover, claimVars>>
  BY DEF remove_investor_from_pool
<1> QED BY <1>5, <1>6, LedgerOwner

-----------------------------------------------------------------------------
\* Claims and sales

LEMMA LedgerClaim ==
  ASSUME TypeOK, ClaimsCounted, NEW k \in Keys, NEW r \in Rounds, claim_waln(k, r)
  PROVE  [Ledger!Next]_(Ledger!ledger)
<1>1. PICK amount \in Nat :
        /\ amount > 0
        /\ paid_waln' = [paid_waln EXCEPT ![k] = @ + amount]
        /\ \A h \in Keys :
             UnclaimedBy(h)' = UnclaimedBy(h) - (IF h = k THEN amount ELSE 0)
  BY OwedClaim
<1>2. UNCHANGED <<round, waln_dust_carryover, investors>>
  BY ClaimEffect
<1>3. \A h \in Keys : UnclaimedBy(h) \in Nat /\ paid_waln[h] \in Nat
  BY OwedNat DEF TypeOK
<1>4. /\ UnclaimedBy(k)' < UnclaimedBy(k)
      /\ UnclaimedBy(k) - UnclaimedBy(k)' = amount
      /\ \A h \in Keys \ {k} : UnclaimedBy(h)' = UnclaimedBy(h)
  BY <1>1, <1>3
<1>5. /\ paid_waln'[k] = paid_waln[k] + amount
      /\ \A h \in Keys \ {k} : paid_waln'[h] = paid_waln[h]
  BY <1>1 DEF TypeOK
<1>6. Ledger!Claim(k)
  BY <1>2, <1>4, <1>5, LedgerKeys DEF Ledger!Claim, Ledger!OnlyFor
<1> QED BY <1>6, LedgerKeys DEF Ledger!Next

\* A slot keeps its investor and its position.
LEMMA OwnedKept ==
  ASSUME \A i \in Slots : /\ investors'[i].investor = investors[i].investor
                          /\ PositionsOf(investors')[i] = PositionsOf(investors)[i],
         NEW k
  PROVE  OwnedBy(k, investors') = OwnedBy(k, investors)
BY OwnedSame DEF KeyTerms

LEMMA LedgerSell ==
  ASSUME TypeOK, Books, RoundCanFill, NEW max \in U64, sell_waln(max)
  PROVE  [Ledger!Next]_(Ledger!ledger)
<1>1. \A k \in Keys : OwnedBy(k, investors') = OwnedBy(k, investors)
  BY PositionsStart, OwnedKept
<1>2. /\ Sale(max)
      /\ round'.waln = RoundWaln + waln_amount(max)
      /\ round'.usdc_spent = round.usdc_spent + usdc_out(max)
  BY SoldRound
<1>3. UNCHANGED <<waln_dust_carryover, round_locked_waln, paid_waln>>
  BY DEF sell_waln
<1>4. \A k \in Keys : UnclaimedBy(k)' = UnclaimedBy(k)
  BY <1>3, OwedSame
<1>5. RoundWaln = round.waln
  BY DEF RoundWaln, Books, LocksMatchRound
<1>6. waln_amount(max) > 0 /\ usdc_out(max) > 0
  BY <1>2 DEF Sale, SaleAllowed
<1>7. waln_amount(max) \in Nat /\ usdc_out(max) \in Nat
  BY <1>2, OpenFields
<1>8. round.waln \in Nat /\ round.usdc_spent \in Nat /\ waln_dust_carryover \in Nat
  BY BalanceNats
<1>9. /\ round'.waln + waln_dust_carryover' > round.waln + waln_dust_carryover
      /\ round'.usdc_spent > round.usdc_spent
  BY <1>2, <1>3, <1>5, <1>6, <1>7, <1>8
<1>10. Ledger!Sell
  BY <1>1, <1>3, <1>4, <1>9 DEF Ledger!Sell
<1> QED BY <1>10 DEF Ledger!Next

\* Nobody was paid in a round that is cancelled.
LEMMA LedgerCancel ==
  ASSUME TypeOK, Books, RoundCanFill, PaidFits, cancel_round
  PROVE  UNCHANGED Ledger!ledger
<1>1. \A k \in Keys : OwnedBy(k, investors') = OwnedBy(k, investors)
  BY PositionsStart, OwnedKept
<1>2. UNCHANGED <<waln_dust_carryover, round_locked_waln, paid_waln>>
  BY DEF cancel_round, claimVars
<1>3. \A k \in Keys : UnclaimedBy(k)' = UnclaimedBy(k)
  BY <1>2, OwedSame
<1>4. round.started /\ round.waln = 0 /\ round'.waln = 0 /\ round'.usdc_spent = 0
  BY EndedRound DEF cancel_round
<1>5. round.usdc_spent = 0
  <2>1. round.usdc_spent =< UsdcFor(0, round.floor_price)
    BY <1>4 DEF PaidFits
  <2>2. round.floor_price \in Nat /\ round.usdc_spent \in Nat
    <3>1. round.floor_price \in U64
      BY DEF TypeOK, RoundType
    <3> QED BY <3>1, BalanceNats, U64Nats
  <2>3. UsdcFor(0, round.floor_price) = 0
    BY <2>2, UsdcForZero
  <2> QED BY <2>1, <2>2, <2>3
<1> QED BY <1>1, <1>2, <1>3, <1>4, <1>5, LedgerSame

-----------------------------------------------------------------------------
\* Settlements

\* What the investors own together is what the slots hold together.
LEMMA OwnedTotal ==
  ASSUME NEW inv \in PoolType,
         \A i \in Slots : inv[i].investor \in Keys \/ PositionsOf(inv)[i] = 0
  PROVE  Sum([k \in Keys |-> OwnedBy(k, inv)], NUM_KEYS) = Sum(PositionsOf(inv), MAX_INVESTORS)
<1> DEFINE f == PositionsOf(inv)
           g == [k \in Keys |-> OwnedBy(k, inv)]
           h == [k \in Keys |-> KeyTerms(inv, k, f)]
           own == [i \in Slots |-> inv[i].investor]
<1>1. /\ NUM_KEYS \in Nat /\ Keys = 1 .. NUM_KEYS
      /\ MAX_INVESTORS \in Nat /\ Slots = 1 .. MAX_INVESTORS
  BY FloorProgramAssumption, RoundMathAssumption DEF Keys, Slots
<1>2. \A i \in Slots : f[i] \in Int
  BY OwnedNat
<1>3. \A i \in Slots : own[i] \in Keys \/ f[i] = 0
  OBVIOUS
<1>4. \A k \in Keys, i \in Slots : h[k][i] = IF own[i] = k THEN f[i] ELSE 0
  BY DEF KeyTerms
<1>5. \A k \in Keys : g[k] = Sum(h[k], MAX_INVESTORS)
  BY OwnedSum, KeyTermsSum
<1> HIDE DEF f, g, h, own
<1>6. Sum(g, NUM_KEYS) = Sum(f, MAX_INVESTORS)
  <2>1. ByOwner(f, g, h, own, NUM_KEYS, MAX_INVESTORS)
    BY <1>1, <1>2, <1>3, <1>4, <1>5 DEF ByOwner
  <2> QED BY <2>1, SumByOwner
<1> QED BY <1>6 DEF f, g

\* The running total of the program is the total of the ledger.
LEMMA LobbyTotal ==
  ASSUME TypeOK, Books, SlotsMatch
  PROVE  Sum([k \in Keys |-> OwnedBy(k, investors)], NUM_KEYS) = total_usdc_in_lobby
<1>1. investors \in PoolType /\ count \in Nat /\ \A i \in Slots : i \in Nat
  BY RoundMathAssumption DEF TypeOK, PoolType, Slots
<1>2. ASSUME NEW i \in Slots
      PROVE  investors[i].investor \in Keys \/ PositionsOf(investors)[i] = 0
  <2>1. CASE i =< count
    BY <2>1, OneSlot
  <2>2. CASE i > count
    BY <2>2 DEF Books, EmptySlots, PositionsOf
  <2> QED BY <1>1, <2>1, <2>2
<1>3. total_usdc_in_lobby = Sum(PositionsOf(investors), MAX_INVESTORS)
  BY DEF Books, LobbyAccounting, Positions, PositionsOf
<1> QED BY <1>1, <1>2, <1>3, OwnedTotal

\* What a settlement allocates to the investors is what it allocates to the slots.
LEMMA AllocatedTotal ==
  ASSUME TypeOK, SlotsMatch, ClaimsCounted,
         NEW inv, NEW allocs, NEW spent, NEW participants, NEW unlock,
         IsSettlement(inv, allocs, spent, participants, unlock)
  PROVE  Sum([k \in Keys |-> UnclaimedBy(k)'], NUM_KEYS)
           = Sum([k \in Keys |-> UnclaimedBy(k)], NUM_KEYS) + Sum(allocs, MAX_INVESTORS)
<1> DEFINE g == [k \in Keys |-> AllocatedTo(allocs, k)]
           h == [k \in Keys |-> KeyTerms(investors, k, allocs)]
           own == [i \in Slots |-> investors[i].investor]
           U == [k \in Keys |-> UnclaimedBy(k)]
           V == [k \in Keys |-> UnclaimedBy(k)']
<1>1. /\ NUM_KEYS \in Nat /\ Keys = 1 .. NUM_KEYS
      /\ MAX_INVESTORS \in Nat /\ Slots = 1 .. MAX_INVESTORS
  BY FloorProgramAssumption, RoundMathAssumption DEF Keys, Slots
<1>2. \A i \in Slots : allocs[i] \in Int
  BY DEF IsSettlement
<1>3. \A i \in Slots : own[i] \in Keys \/ allocs[i] = 0
  <2>1. \A i \in Slots : allocs[i] \in Nat /\ (allocs[i] > 0 => i =< count)
    BY DEF IsSettlement
  <2> QED BY <2>1, OneSlot
<1>4. \A k \in Keys, i \in Slots : h[k][i] = IF own[i] = k THEN allocs[i] ELSE 0
  BY DEF KeyTerms
<1>5. \A k \in Keys : g[k] = Sum(h[k], MAX_INVESTORS)
  BY DEF AllocatedTo
<1>6. \A k \in Keys : U[k] \in Int /\ g[k] \in Int /\ V[k] = U[k] + g[k]
  BY OwedNat, OwedSettle
<1> HIDE DEF g, h, own, U, V
<1>7. Sum(g, NUM_KEYS) = Sum(allocs, MAX_INVESTORS)
  <2>1. ByOwner(allocs, g, h, own, NUM_KEYS, MAX_INVESTORS)
    BY <1>1, <1>2, <1>3, <1>4, <1>5 DEF ByOwner
  <2> QED BY <2>1, SumByOwner
<1>8. Sum(V, NUM_KEYS) = Sum(U, NUM_KEYS) + Sum(g, NUM_KEYS)
  BY <1>1, <1>6, SumAdd
<1> QED BY <1>7, <1>8 DEF U, V

\* A settlement charges investors and allocates to investors who had USDC.
LEMMA LedgerAllocate ==
  ASSUME TypeOK, TypeOK', ClaimsCounted, round'.usdc_spent = 0,
         NEW inv, NEW allocs, NEW spent, NEW participants, NEW unlock,
         IsSettlement(inv, allocs, spent, participants, unlock)
  PROVE  Ledger!Allocate
<1>1. investors \in PoolType /\ investors' \in PoolType
  BY DEF TypeOK, PoolType
<1>2. \A i \in Slots : /\ investors'[i].investor = investors[i].investor
                       /\ PositionsOf(investors')[i] =< PositionsOf(investors)[i]
                       /\ allocs[i] \in Nat
                       /\ allocs[i] > 0 => PositionsOf(investors)[i] > 0
  BY DEF IsSettlement
<1>3. ASSUME NEW k \in Keys
      PROVE  /\ OwnedBy(k, investors') =< OwnedBy(k, investors)
             /\ UnclaimedBy(k)' >= UnclaimedBy(k)
             /\ UnclaimedBy(k)' > UnclaimedBy(k) => OwnedBy(k, investors) > 0
  <2>1. /\ OwnedBy(k, investors) \in Nat /\ OwnedBy(k, investors') \in Nat
        /\ \A i \in Slots : PositionsOf(investors)[i] \in Nat
    BY <1>1, OwnedNat
  <2>2. \A i \in Slots : KeyTerms(investors', k, PositionsOf(investors'))[i]
                           =< KeyTerms(investors, k, PositionsOf(investors))[i]
    BY <1>2 DEF KeyTerms
  <2>3. OwnedBy(k, investors') =< OwnedBy(k, investors)
    <3>1. ~ (OwnedBy(k, investors) < OwnedBy(k, investors'))
      BY <1>1, <2>2, OwnedGrows
    <3> QED BY <2>1, <3>1
  <2>4. /\ AllocatedTo(allocs, k) \in Nat /\ UnclaimedBy(k) \in Nat
        /\ UnclaimedBy(k)' = UnclaimedBy(k) + AllocatedTo(allocs, k)
    BY OwedSettle, OwedNat
  <2>5. ASSUME AllocatedTo(allocs, k) > 0 PROVE OwnedBy(k, investors) > 0
    <3> DEFINE f == KeyTerms(investors, k, allocs)
    <3>1. \E i \in Slots : f[i] # 0
      <4> SUFFICES ASSUME \A i \in Slots : f[i] = 0 PROVE FALSE
        OBVIOUS
      <4> HIDE DEF f
      <4>1. MAX_INVESTORS \in Nat /\ Slots = 1 .. MAX_INVESTORS
        BY RoundMathAssumption DEF Slots
      <4>2. Sum(f, MAX_INVESTORS) = 0
        BY <4>1, SumZeros
      <4> QED BY <2>5, <4>2 DEF AllocatedTo, f
    <3>2. PICK i \in Slots : investors[i].investor = k /\ allocs[i] # 0
      BY <3>1 DEF KeyTerms
    <3>3. PositionsOf(investors)[i] > 0
      BY <1>2, <3>2
    <3>4. PositionsOf(investors)[i] =< OwnedBy(k, investors)
      BY <1>1, <3>2, OwnedNat
    <3> QED BY <2>1, <3>3, <3>4
  <2> QED BY <2>3, <2>4, <2>5
<1>4. UNCHANGED paid_waln
  BY DEF IsSettlement
<1> QED BY <1>3, <1>4, LedgerKeys DEF Ledger!Allocate

\* The totals of a settlement: USDC is charged as the running total says, and wALN
\* comes from the vault.
LEMMA LedgerTotals ==
  ASSUME TypeOK, TypeOK', Books, Books', SlotsMatch, SlotsMatch', ClaimsCounted,
         NEW inv, NEW allocs, NEW spent, NEW participants, NEW unlock,
         IsSettlement(inv, allocs, spent, participants, unlock)
  PROVE  LET U == Sum([k \in Keys |-> UnclaimedBy(k)], NUM_KEYS)
             V == Sum([k \in Keys |-> UnclaimedBy(k)'], NUM_KEYS)
             pot == round.waln + waln_dust_carryover
         IN  /\ Ledger!Charged = total_usdc_in_lobby - total_usdc_in_lobby'
             /\ U \in Int /\ pot \in Int
             /\ pot' + V = pot + U + (waln_vault' - waln_vault)
<1> DEFINE U == Sum([k \in Keys |-> UnclaimedBy(k)], NUM_KEYS)
           V == Sum([k \in Keys |-> UnclaimedBy(k)'], NUM_KEYS)
           A == Sum(allocs, MAX_INVESTORS)
<1>1. Sum([k \in Keys |-> OwnedBy(k, investors)], NUM_KEYS) = total_usdc_in_lobby
  BY LobbyTotal
<1>2. Sum([k \in Keys |-> OwnedBy(k, investors')], NUM_KEYS) = total_usdc_in_lobby'
  <2>1. (TypeOK /\ Books /\ SlotsMatch
           => Sum([k \in Keys |-> OwnedBy(k, investors)], NUM_KEYS) = total_usdc_in_lobby)'
    BY LobbyTotal, PTL
  <2> QED BY <2>1
<1>3. Ledger!Charged = total_usdc_in_lobby - total_usdc_in_lobby'
  BY <1>1, <1>2, LedgerSum DEF Ledger!Charged
<1>4. V = U + A
  BY AllocatedTotal
<1>5. A \in Nat
  BY U64Nats DEF IsSettlement, SettleAccounts
<1>6. U \in Int
  <2> DEFINE f == [k \in Keys |-> UnclaimedBy(k)]
  <2>1. \A k \in 1 .. NUM_KEYS : f[k] \in Int
    BY OwedNat DEF Keys
  <2> HIDE DEF f
  <2>2. Sum(f, NUM_KEYS) \in Int
    BY <2>1, SumInt, FloorProgramAssumption
  <2> QED BY <2>2 DEF f
<1>7. /\ waln_vault \in Nat /\ round.waln \in Nat /\ waln_dust_carryover \in Nat
      /\ waln_vault' \in Int /\ round'.waln \in Int /\ waln_dust_carryover' \in Int
  <2>1. waln_vault' \in Int
    BY DEF TypeOK
  <2>2. waln_dust_carryover' \in U64
    BY DEF TypeOK
  <2>3. round'.waln \in U64
    BY DEF TypeOK, RoundType
  <2>4. \A x \in U64 : x \in Int
    BY U64Nats
  <2> QED BY <2>1, <2>2, <2>3, <2>4, BalanceNats
<1>8. waln_vault' - (round'.waln + waln_dust_carryover')
        = (waln_vault - (round.waln + waln_dust_carryover)) + A
  BY DEF IsSettlement
<1> HIDE DEF U, V, A
<1>9. round'.waln + waln_dust_carryover' + V
        = round.waln + waln_dust_carryover + U + (waln_vault' - waln_vault)
  BY <1>4, <1>5, <1>6, <1>7, <1>8
<1>10. round.waln + waln_dust_carryover \in Int
  BY <1>7
<1> QED BY <1>3, <1>6, <1>9, <1>10 DEF U, V

\* A forced close charges what the sellers were paid and allocates what they sold.
LEMMA LedgerClose ==
  ASSUME TypeOK, TypeOK', Books, Books', RoundCanFill, SlotsMatch, SlotsMatch', ClaimsCounted,
         close_round
  PROVE  [Ledger!Next]_(Ledger!ledger)
<1> DEFINE U == Sum([k \in Keys |-> UnclaimedBy(k)], NUM_KEYS)
           V == Sum([k \in Keys |-> UnclaimedBy(k)'], NUM_KEYS)
<1>1. PICK inv, allocs, spent, participants, unlock :
        IsSettlement(inv, allocs, spent, participants, unlock)
  BY CloseSettles
<1>2. round'.usdc_spent = 0
  BY EndedRound
<1>3. Ledger!Allocate
  BY <1>1, <1>2, LedgerAllocate
<1>4. /\ Ledger!Charged = total_usdc_in_lobby - total_usdc_in_lobby'
      /\ U \in Int /\ round.waln + waln_dust_carryover \in Int
      /\ round'.waln + waln_dust_carryover' + V
           = round.waln + waln_dust_carryover + U + (waln_vault' - waln_vault)
  BY <1>1, LedgerTotals
<1>5. /\ total_usdc_in_lobby' = total_usdc_in_lobby - round.usdc_spent
      /\ waln_vault' = waln_vault
  BY CloseFacts
<1>6. Ledger!Charged = round.usdc_spent
  BY <1>4, <1>5, BalanceNats
<1> HIDE DEF U, V
<1>7. round'.waln + waln_dust_carryover' + V = round.waln + waln_dust_carryover + U
  BY <1>4, <1>5, BalanceNats
<1>8. Ledger!Close
  BY <1>3, <1>6, <1>7, LedgerSum DEF Ledger!Close, Ledger!Bought, U, V
<1> QED BY <1>8 DEF Ledger!Next

\* The sale that fills a round charges every lock and brings in wALN.
LEMMA LedgerFill ==
  ASSUME TypeOK, TypeOK', Books, Books', SlotsMatch, SlotsMatch', ClaimsCounted, ProRata,
         NEW max \in U64, sell_waln_filling(max)
  PROVE  [Ledger!Next]_(Ledger!ledger)
<1> DEFINE U == Sum([k \in Keys |-> UnclaimedBy(k)], NUM_KEYS)
           V == Sum([k \in Keys |-> UnclaimedBy(k)'], NUM_KEYS)
           L == Sum(Locks(OpenPool), MAX_INVESTORS)
<1>1. PICK inv, allocs, spent, participants, unlock :
        IsSettlement(inv, allocs, spent, participants, unlock)
  BY FillSettles
<1>2. Sale(max) /\ round'.usdc_spent = 0 /\ OpenPool \in PoolType
  BY NextRound
<1>3. Ledger!Allocate
  BY <1>1, <1>2, LedgerAllocate
<1>4. /\ Ledger!Charged = total_usdc_in_lobby - total_usdc_in_lobby'
      /\ U \in Int /\ round.waln + waln_dust_carryover \in Int
      /\ round'.waln + waln_dust_carryover' + V
           = round.waln + waln_dust_carryover + U + (waln_vault' - waln_vault)
  BY <1>1, LedgerTotals
<1>5. /\ total_usdc_in_lobby' = total_usdc_in_lobby - L
      /\ waln_vault' = waln_vault + waln_amount(max)
  BY DEF sell_waln_filling, FinishRound, Sale
<1>6. waln_amount(max) \in Nat /\ waln_amount(max) > 0
  BY <1>2, OpenFields DEF Sale, SaleAllowed
<1>7. L \in Nat /\ L > 0
  <2> DEFINE f == Locks(OpenPool)
  <2>1. \A i \in Slots : f[i] = OpenPool[i].usdc_locked_current_round /\ f[i] \in Nat
    BY <1>2, PoolTypeNats DEF Locks, PoolOfNats
  <2>2. PICK i \in Slots : IsParticipant(OpenPool, i)
    BY <1>2, OpenShare DEF LocksShare
  <2>3. f[i] > 0
    BY <2>1, <2>2 DEF IsParticipant
  <2>4. MAX_INVESTORS \in Nat /\ Slots = 1 .. MAX_INVESTORS
    BY RoundMathAssumption DEF Slots
  <2> HIDE DEF f
  <2>5. Sum(f, MAX_INVESTORS) \in Nat
    BY <2>1, <2>4, SumNat
  <2>6. f[i] =< Sum(f, MAX_INVESTORS)
    BY <2>1, <2>4, SumTerm
  <2> QED BY <2>1, <2>3, <2>5, <2>6 DEF f
<1> HIDE DEF U, V, L
<1>8. Ledger!Charged > 0
  BY <1>4, <1>5, <1>7, BalanceNats
<1>9. round'.waln + waln_dust_carryover' + V > round.waln + waln_dust_carryover + U
  BY <1>4, <1>5, <1>6, BalanceNats
<1>10. Ledger!Fill
  BY <1>3, <1>8, <1>9, LedgerSum DEF Ledger!Fill, Ledger!Bought, U, V
<1> QED BY <1>10 DEF Ledger!Next

-----------------------------------------------------------------------------
\* The refinement

LEMMA LedgerNext ==
  ASSUME TypeOK, TypeOK', Books, Books', RoundCanFill, SlotsMatch, SlotsMatch', ClaimsCounted,
         ProRata, PaidFits, [Next]_vars
  PROVE  [Ledger!Next]_(Ledger!ledger)
<1>1. CASE RoundStep
  BY <1>1, LedgerClose, LedgerFill, LedgerSell, LedgerCancel DEF RoundStep
<1>2. CASE \E k \in Keys, r \in Rounds : claim_waln(k, r)
  BY <1>2, LedgerClaim
<1>3. ASSUME UNCHANGED <<round, waln_dust_carryover, paid_waln>>,
             \A i \in Slots :
               /\ investors'[i].investor = investors[i].investor
               /\ investors'[i].usdc_deposited = investors[i].usdc_deposited
               /\ investors'[i].usdc_locked_current_round
                    = investors[i].usdc_locked_current_round,
             \A r \in Rounds : round_locked_waln'[r].entries = round_locked_waln[r].entries
      PROVE  UNCHANGED Ledger!ledger
  <2>1. \A k \in Keys : OwnedBy(k, investors') = OwnedBy(k, investors)
    BY <1>3, OwnedKept DEF PositionsOf
  <2>2. \A k \in Keys : UnclaimedBy(k)' = UnclaimedBy(k)
    BY <1>3, OwedSame
  <2> QED BY <1>3, <2>1, <2>2, LedgerSame
<1>4. \/ RoundStep
      \/ \E k \in Keys, r \in Rounds : claim_waln(k, r)
      \/ UNCHANGED <<waln_dust_carryover, paid_waln>>
         /\ \A r \in Rounds : round_locked_waln'[r].entries = round_locked_waln[r].entries
  BY WalnSteps DEF RoundStep
<1> QED BY <1>1, <1>2, <1>3, <1>4, SlotSteps, LedgerDeposit, LedgerWithdraw, LedgerRemove

\* The program implements the ledger: every instruction is a deposit, a
\* withdrawal, a sale, a settlement or a claim of the ledger, or changes nobody's
\* balance; a settlement charges and allocates in one step, a forced close charges
\* exactly what the sellers were paid, and a claim pays what was owed.
THEOREM LedgerCorrect == Spec => ImplementsLedger
<1> DEFINE Inv == /\ TypeOK /\ Books /\ RoundCanFill /\ SlotsMatch /\ ClaimsCounted
                  /\ ProRata /\ PaidFits
<1>1. Inv /\ Inv' /\ [Next]_vars => [Ledger!Next]_(Ledger!ledger)
  BY LedgerNext
<1>2. Spec => []Inv
  BY TypeCorrect, BooksCorrect, CanFillCorrect, SlotsCorrect, ClaimsCorrect, ProRataCorrect,
     PaidCorrect, PTL
<1> HIDE DEF Inv
<1> QED BY <1>1, <1>2, LedgerInit, PTL DEF Spec, ImplementsLedger, Ledger!LedgerSpec
-----------------------------------------------------------------------------
\* The program and its clients

\* Every step of the clients and the program is an instruction or leaves the
\* accounts alone.
LEMMA ClientSteps == [ClientNext]_clientVars => [Next]_vars
<1>1. ASSUME NEW max \in Holders, LandSale(max) PROVE Next
  BY <1>1 DEF LandSale, Holders, Next, UserNext
<1>2. ASSUME NEW id \in AdminTxs, LandOrder(id) PROVE Next
  BY <1>2 DEF LandOrder, Next, AdminNext
<1>3. CASE Others
  <2>1. CASE SettingsCommand
    BY <2>1 DEF SettingsCommand, Next, AdminNext
  <2>2. CASE TreasuryCommand
    BY <2>2 DEF TreasuryCommand, Next, AdminNext
  <2>3. CASE InvestorCommand
    BY <2>3 DEF InvestorCommand, Next, AdminNext
  <2>4. CASE InvestorTx
    BY <2>4 DEF InvestorTx, Next, UserNext
  <2> QED BY <1>3, <2>1, <2>2, <2>3, <2>4 DEF Others
<1>4. ASSUME NEW max \in Holders, SendSale(max) PROVE UNCHANGED vars
  BY <1>4 DEF SendSale
<1>5. ASSUME NEW id \in AdminTxs, closeRound(id) \/ cancelRound(id) PROVE UNCHANGED vars
  BY <1>5 DEF closeRound, cancelRound
<1>6. CASE Expire
  BY <1>6 DEF Expire
<1>7. CASE UNCHANGED clientVars
  BY <1>7 DEF clientVars
<1> QED BY <1>1, <1>2, <1>3, <1>4, <1>5, <1>6, <1>7 DEF ClientNext, Admin

\* A step of a client runs one instruction of the program or none, so the invariants
\* of the program are at hand in the proofs about its clients.
LEMMA ClientsRunProgram == ClientSpec => Spec
<1>1. ClientInit => Init
  BY DEF ClientInit
<1> QED BY <1>1, ClientSteps, PTL DEF ClientSpec, Spec

\* The accounts of round r, as clients name them.
AccountsOf(r) == <<roundRecordPda(r), roundLockedWalnPda(r)>>

Orders ==
  [kind : {"none", "close", "cancel"},
   accounts : {<<>>} \cup {AccountsOf(r) : r \in Nat},
   saw : {"none", "current", "over"}]

\* A forced close whose sender saw sales in the round names that round: it is the
\* current one, still with sales, or it has been settled.
Names(t, rd, cnt) ==
  /\ t.saw = "current" => /\ rd.started /\ rd.waln > 0
                          /\ t.kind = "close" => t.accounts = AccountsOf(cnt)
  /\ t.saw = "over" /\ t.kind = "close" =>
       \E r \in Nat : r < cnt /\ t.accounts = AccountsOf(r)

OrdersNameRounds ==
  /\ order \in [AdminTxs -> Orders]
  /\ \A id \in AdminTxs : Names(order[id], round, round_count)

\* A round with sales ends by a settlement only, which counts it.
LEMMA RoundEffect ==
  ASSUME TypeOK, TypeOK', Books, RoundCanFill, [Next]_vars
  PROVE  /\ round_count \in Nat /\ round_count' \in Nat /\ round_count' >= round_count
         /\ round.started /\ round.waln > 0 =>
              \/ round_count' > round_count
              \/ round'.started /\ round'.waln > 0 /\ round_count' = round_count
<1>1. round_count \in Nat /\ round_count' \in Nat
  BY FloorProgramAssumption DEF TypeOK
<1>2. CASE cancel_round
  <2>1. round.waln = 0 /\ round_count' = round_count
    BY <1>2 DEF cancel_round
  <2> QED BY <1>1, <2>1
<1>3. CASE close_round
  <2>1. round_count' = round_count + 1
    BY <1>3, CloseFacts
  <2> QED BY <1>1, <2>1
<1>4. ASSUME NEW max \in U64, sell_waln(max)
      PROVE  round'.started /\ round'.waln > 0 /\ round_count' = round_count
  <2>1. /\ Sale(max) /\ round'.started
        /\ round'.waln = RoundWaln + waln_amount(max)
    BY <1>4, SoldRound
  <2>2. RoundWaln \in Nat /\ waln_amount(max) \in Nat /\ waln_amount(max) > 0
    BY <2>1, OpenFields DEF Sale, SaleAllowed
  <2> QED BY <1>4, <2>1, <2>2 DEF sell_waln
<1>5. ASSUME NEW max \in U64, sell_waln_filling(max)
      PROVE  round_count' = round_count + 1
  BY <1>5 DEF sell_waln_filling, FinishRound, SettleAccounts
<1>6. CASE UNCHANGED <<round, round_count>>
  BY <1>1, <1>6
<1> QED BY <1>1, <1>2, <1>3, <1>4, <1>5, <1>6, RoundSteps

\* An order in flight goes on naming its round.
LEMMA NamesKept ==
  ASSUME TypeOK, TypeOK', Books, RoundCanFill, [Next]_vars,
         NEW id \in AdminTxs, OrdersNameRounds
  PROVE  /\ Seen(order)[id] \in Orders /\ Seen(order)[id].kind = order[id].kind
         /\ Names(Seen(order)[id], round', round_count')
<1> DEFINE t == order[id]
<1>1. t \in Orders /\ Names(t, round, round_count)
  BY DEF OrdersNameRounds
<1>2. Seen(order)[id] = IF RoundOver /\ t.saw = "current" THEN [t EXCEPT !.saw = "over"] ELSE t
  BY DEF Seen, OrdersNameRounds
<1> HIDE DEF t
<1>3. CASE t.saw = "current" /\ RoundOver
  <2>1. Seen(order)[id] = [t EXCEPT !.saw = "over"]
    BY <1>2, <1>3
  <2>2. /\ Seen(order)[id] \in Orders /\ Seen(order)[id].saw = "over"
        /\ Seen(order)[id].kind = t.kind /\ Seen(order)[id].accounts = t.accounts
    BY <1>1, <2>1 DEF Orders
  <2>3. round_count \in Nat /\ round_count' \in Nat /\ round_count' > round_count
    BY <1>1, <1>3, RoundEffect DEF RoundOver, Names
  <2>4. t.kind = "close" => t.accounts = AccountsOf(round_count)
    BY <1>1, <1>3 DEF Names
  <2> QED BY <2>2, <2>3, <2>4 DEF Names, t
<1>4. CASE t.saw = "current" /\ ~ RoundOver
  <2>1. Seen(order)[id] = t
    BY <1>2, <1>4
  <2>2. round'.started /\ round'.waln > 0 /\ round_count' = round_count
    BY <1>1, <1>4, RoundEffect DEF RoundOver, Names
  <2> QED BY <1>1, <1>4, <2>1, <2>2 DEF Names, t
<1>5. CASE t.saw # "current"
  <2>1. Seen(order)[id] = t
    BY <1>2, <1>5
  <2>2. \A r \in Nat : r < round_count => r < round_count'
    BY RoundEffect
  <2> QED BY <1>1, <1>5, <2>1, <2>2 DEF Names, t
<1> QED BY <1>3, <1>4, <1>5

\* A new order names the current round, and an empty one names none.
LEMMA NewOrders ==
  ASSUME TypeOK
  PROVE  /\ NoTx \in Orders /\ Names(NoTx, round, round_count)
         /\ Built("close", RoundAccountsNow) \in Orders
         /\ Names(Built("close", RoundAccountsNow), round, round_count)
         /\ Built("cancel", <<>>) \in Orders
         /\ Names(Built("cancel", <<>>), round, round_count)
<1>1. round_count \in Nat /\ RoundAccountsNow = AccountsOf(round_count)
  BY FloorProgramAssumption DEF TypeOK, RoundAccountsNow, AccountsOf
<1>2. AccountsOf(round_count) \in {AccountsOf(r) : r \in Nat}
  BY <1>1
<1> QED BY <1>1, <1>2 DEF NoTx, Built, Orders, Names

LEMMA OrdersNext ==
  TypeOK /\ TypeOK' /\ Books /\ RoundCanFill /\ OrdersNameRounds /\ [ClientNext]_clientVars
    => OrdersNameRounds'
<1> SUFFICES ASSUME TypeOK, TypeOK', Books, RoundCanFill, OrdersNameRounds,
                    [ClientNext]_clientVars
             PROVE  OrdersNameRounds'
  OBVIOUS
<1>1. [Next]_vars
  BY ClientSteps
<1>2. order \in [AdminTxs -> Orders] /\ \A id \in AdminTxs : Names(order[id], round, round_count)
  BY DEF OrdersNameRounds
<1>3. ASSUME order' = Seen(order) \/ \E x \in AdminTxs : order' = [Seen(order) EXCEPT ![x] = NoTx]
      PROVE  OrdersNameRounds'
  <2>1. Seen(order) \in [AdminTxs -> Orders]
    <3>1. \A id \in AdminTxs : Seen(order)[id] \in Orders
      BY <1>1, NamesKept
    <3>2. Seen(order) = [id \in AdminTxs |-> Seen(order)[id]]
      BY <1>2 DEF Seen
    <3> QED BY <3>1, <3>2
  <2>2. NoTx \in Orders /\ Names(NoTx, round', round_count')
    BY NewOrders DEF Names, NoTx
  <2>3. order' \in [AdminTxs -> Orders]
    BY <1>3, <2>1, <2>2
  <2>4. \A id \in AdminTxs : order'[id] = Seen(order)[id] \/ order'[id] = NoTx
    BY <1>3, <2>1
  <2>5. \A id \in AdminTxs : Names(order'[id], round', round_count')
    BY <1>1, <2>2, <2>4, NamesKept
  <2> QED BY <2>3, <2>5 DEF OrdersNameRounds
<1>4. ASSUME UNCHANGED <<round, round_count>>,
             \/ order' = order
             \/ \E id \in AdminTxs, t \in Orders : /\ Names(t, round, round_count)
                                                   /\ order' = [order EXCEPT ![id] = t]
      PROVE  OrdersNameRounds'
  <2>1. order' \in [AdminTxs -> Orders]
    BY <1>2, <1>4
  <2>2. \A id \in AdminTxs : Names(order'[id], round, round_count)
    BY <1>2, <1>4
  <2> QED BY <1>4, <2>1, <2>2 DEF OrdersNameRounds
<1>5. ASSUME NEW max \in Holders, LandSale(max) PROVE OrdersNameRounds'
  BY <1>3, <1>5 DEF LandSale
<1>6. ASSUME NEW id \in AdminTxs, LandOrder(id) PROVE OrdersNameRounds'
  BY <1>3, <1>6 DEF LandOrder
<1>7. ASSUME NEW max \in Holders, SendSale(max) PROVE OrdersNameRounds'
  BY <1>4, <1>7 DEF SendSale, vars
<1>8. ASSUME NEW id \in AdminTxs, closeRound(id) PROVE OrdersNameRounds'
  BY <1>4, <1>8, NewOrders DEF closeRound, vars
<1>9. ASSUME NEW id \in AdminTxs, cancelRound(id) PROVE OrdersNameRounds'
  BY <1>4, <1>9, NewOrders DEF cancelRound, vars
<1>10. CASE Expire
  BY <1>4, <1>10, NewOrders DEF Expire, vars
<1>11. CASE Others
  <2>1. UNCHANGED <<round, round_count>>
    BY <1>11 DEF Others, SettingsCommand, TreasuryCommand, InvestorCommand, InvestorTx,
       set_floor_price, set_round_size, set_lock_period, set_sell_paused, set_frozen,
       SetConfig, mint_aat_nft, update_aat_volume, remove_investor_from_pool,
       fund_treasury, withdraw_treasury, deposit_usdc, withdraw_usdc, claim_waln
  <2> QED BY <1>4, <1>11, <2>1 DEF Others
<1>12. CASE UNCHANGED clientVars
  BY <1>4, <1>12 DEF clientVars, vars
<1> QED BY <1>5, <1>6, <1>7, <1>8, <1>9, <1>10, <1>11, <1>12 DEF ClientNext, Admin

\* A forced close that the admin built seeing sales in a round settles this round or
\* fails: when the round was filled or closed in the meantime, the accounts of the
\* transaction are those of a settled round, and close_round refuses them.  For any
\* number of transactions in flight, in any order.
THEOREM SeenRoundCorrect == ClientSpec => CloseSettlesSeenRound
<1> DEFINE Inv == TypeOK /\ Books /\ RoundCanFill
           A == \A id \in AdminTxs :
                  /\ order[id].kind = "close" /\ order'[id] = NoTx
                  /\ round_count' # round_count
                  => order[id].saw # "over"
<1>1. ASSUME Inv, Inv', OrdersNameRounds, ClientNext
      PROVE  A
  <2> SUFFICES ASSUME NEW id \in AdminTxs, order[id].kind = "close", order'[id] = NoTx,
                      round_count' # round_count, order[id].saw = "over"
               PROVE  FALSE
    OBVIOUS
  <2>1. order \in [AdminTxs -> Orders] /\ Names(order[id], round, round_count)
    BY <1>1 DEF OrdersNameRounds
  <2>2. PICK r \in Nat : r < round_count /\ order[id].accounts = AccountsOf(r)
    BY <2>1 DEF Names
  <2>3. Seen(order)[id].kind = "close" /\ NoTx.kind = "none"
    BY <1>1, ClientSteps, NamesKept DEF NoTx
  <2>4. order' # Seen(order)
    BY <2>3
  <2>5. ~ \E max \in Holders : LandSale(max)
    BY <2>4 DEF LandSale
  <2>6. ~ UNCHANGED vars
    BY DEF vars
  <2>7. \E x \in AdminTxs : LandOrder(x)
    <3>1. ~ Others
      BY <2>3 DEF Others
    <3> QED BY <1>1, <2>5, <2>6, <3>1 DEF ClientNext, Admin, SendSale, closeRound, cancelRound, Expire
  <2>8. PICK x \in AdminTxs : LandOrder(x)
    BY <2>7
  <2>9. Seen(order) = [y \in AdminTxs |-> Seen(order)[y]]
    BY <2>1 DEF Seen
  <2>10. x = id
    <3> SUFFICES ASSUME x # id PROVE FALSE
      OBVIOUS
    <3>1. order' = [Seen(order) EXCEPT ![x] = NoTx]
      BY <2>8 DEF LandOrder
    <3>2. order'[id] = Seen(order)[id]
      BY <2>9, <3>1
    <3> QED BY <2>3, <3>2
  <2>11. AccountsMatch(order[id].accounts)
    BY <2>8, <2>10 DEF LandOrder
  <2>12. roundRecordPda(r) = roundRecordPda(round_count)
    BY <2>2, <2>11 DEF AccountsMatch, AccountsOf
  <2>13. r = round_count
    BY <2>12 DEF roundRecordPda
  <2> QED BY <2>2, <2>13
<1>2. ClientInit => OrdersNameRounds
  BY DEF ClientInit, OrdersNameRounds, NoTx, Orders, Names
<1>3. Spec => []Inv
  BY TypeCorrect, BooksCorrect, CanFillCorrect, PTL
<1>4. Inv /\ Inv' /\ OrdersNameRounds /\ [ClientNext]_clientVars => OrdersNameRounds'
  BY OrdersNext
<1>5. Inv /\ Inv' /\ OrdersNameRounds /\ [ClientNext]_clientVars => [A]_clientVars
  BY <1>1
<1> HIDE DEF Inv
<1> QED BY <1>2, <1>3, <1>4, <1>5, ClientsRunProgram, PTL DEF ClientSpec, CloseSettlesSeenRound
=============================================================================
