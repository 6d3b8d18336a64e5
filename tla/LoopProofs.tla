----------------------------- MODULE LoopProofs -----------------------------
(***************************************************************************)
(* The loops of a round compute what module RoundMath says, for pools of   *)
(* every size: the selection and the locks of execute_round_start, the     *)
(* charges and allocations of close_round, and the credits of a filled     *)
(* round.                                                                  *)
(*                                                                         *)
(* Each loop has an invariant about the slots that it has passed: they     *)
(* are as RoundMath says, the slots ahead are untouched, and the running   *)
(* totals are sums and counts over the slots passed.                       *)
(***************************************************************************)
EXTENDS RoundLoops, RoundProofs

SlotRecord ==
  [investor : Slots, usdc_deposited : Nat, aat_volume : Nat,
   usdc_locked_current_round : Nat, usdc_committed : Nat, waln_purchased_total : Nat]

\* A pool without locks and purchases.
IsFresh(inv) ==
  /\ inv \in [Slots -> SlotRecord]
  /\ \A s \in Slots : /\ inv[s].usdc_locked_current_round = 0
                      /\ inv[s].usdc_committed = 0
                      /\ inv[s].waln_purchased_total = 0

\* The round and its pool, which no loop changes.
Given ==
  /\ size \in Nat /\ price \in Nat /\ cap > 0
  /\ IsFresh(before)

LEMMA FreshNats == ASSUME NEW inv, IsFresh(inv) PROVE PoolOfNats(inv)
BY DEF IsFresh, PoolOfNats, SlotRecord

LEMMA CapNat == ASSUME Given PROVE cap \in Nat /\ cap > 0 /\ price > 0
<1>1. cap \in Nat /\ cap > 0
  BY UsdcForNat DEF Given, cap, round_cap_usdc
<1>2. price # 0
  <2> SUFFICES ASSUME price = 0 PROVE FALSE
    OBVIOUS
  <2>1. size * price = 0
    BY DEF Given
  <2>2. 0 \div waln_scale = 0
    BY RoundMathAssumption
  <2> QED BY <1>1, <2>1, <2>2 DEF cap, round_cap_usdc, UsdcFor
<1> QED BY <1>1, <1>2 DEF Given

LEMMA GivenInit == LoopInit => Given
<1> SUFFICES ASSUME LoopInit PROVE Given
  OBVIOUS
<1>1. size \in Nat /\ price \in Nat
  BY LoopAssumption DEF LoopInit
<1>2. PICK d \in [Slots -> DepositRange], v \in [Slots -> VolumeRange] :
        before = [s \in Slots |-> Slot(s, d[s], v[s])]
  BY DEF LoopInit
<1>3. \A s \in Slots : d[s] \in Nat /\ v[s] \in Nat
  BY LoopAssumption
<1>4. \A s \in Slots : /\ before[s] \in SlotRecord
                       /\ before[s].usdc_locked_current_round = 0
                       /\ before[s].usdc_committed = 0
                       /\ before[s].waln_purchased_total = 0
  BY <1>2, <1>3 DEF Slot, SlotRecord
<1>5. before \in [Slots -> SlotRecord]
  BY <1>2, <1>4
<1>6. cap > 0
  BY DEF LoopInit, cap, require_viable_round_params
<1> QED BY <1>1, <1>4, <1>5, <1>6 DEF Given, IsFresh

\* No step changes the round and the pool that it started with.
LEMMA GivenSteps ==
  ASSUME [LoopNext]_loopVars
  PROVE  UNCHANGED <<size, price, before>>
BY DEF LoopNext, SelectTurn, SelectNobody, LockSlot, GapSlot, LoopSale, BeginClose, CloseSlot,
   BeginFill, FillSlot, GiveDust, Finished, loopVars

LEMMA GivenNext == Given /\ [LoopNext]_loopVars => Given'
BY GivenSteps DEF Given, cap

-----------------------------------------------------------------------------
\* The selection

\* The slots that the selection starts from.
All == eligible(before, MAX_INVESTORS, cap)

\* Every group of investors in NonZero that can pay together is still selected, and
\* after the first turn nobody else is.
Selection ==
  /\ E \subseteq All
  /\ E = All \/ E \subseteq NonZero
  /\ \A S \in SUBSET NonZero : CanPayTogether(S) => S \subseteq E
  /\ pc # "select" => E \subseteq NonZero /\ CanPayTogether(E)

LEMMA NonZeroIs == NonZero = {s \in All : required_lock(before, All, cap, s) > 0}
BY DEF NonZero, All

\* The round and its pool decide who can pay.
LEMMA SameGroups ==
  ASSUME UNCHANGED <<size, price, before>>
  PROVE  /\ All' = All /\ cap' = cap /\ NonZero' = NonZero
         /\ \A S : CanPayTogether(S)' <=> CanPayTogether(S)
<1>1. cap' = cap
  BY DEF cap
<1> QED BY <1>1 DEF All, NonZero, CanPayTogether

LEMMA AllSlots ==
  ASSUME Given
  PROVE  /\ All \in SUBSET Slots /\ PoolOfNats(before) /\ cap \in Nat
         /\ \A s \in All : before[s].aat_volume > 0
BY CapNat, FreshNats DEF All, eligible, Given

LEMMA CanPay ==
  ASSUME NEW S
  PROVE  CanPayTogether(S) <=>
           \A s \in S : required_lock(before, S, cap, s) \in 1 .. before[s].usdc_deposited
BY DEF CanPayTogether, required_lock

\* A group without volume is empty.
LEMMA NoVolume ==
  ASSUME Given, NEW S \in SUBSET All, ~ SumOver(S, Volumes(before)) > 0
  PROVE  S = {}
<1> SUFFICES ASSUME NEW s \in S PROVE FALSE
  OBVIOUS
<1>1. S \in SUBSET Slots /\ \A j \in S : before[j].aat_volume > 0
  BY AllSlots
<1> QED BY <1>1, AllSlots, ShareGrows

LEMMA SelectionNext == Given /\ Selection /\ pool = before /\ SelectTurn => Selection'
<1> SUFFICES ASSUME Given, Selection, pool = before, SelectTurn PROVE Selection'
  OBVIOUS
<1>1. /\ E' = Affording(before, E, cap)
      /\ pc' # "select" => E' = E
      /\ UNCHANGED <<size, price, before>>
  BY DEF SelectTurn
<1>2. All' = All /\ cap' = cap /\ NonZero' = NonZero
  BY <1>1, SameGroups
<1>0. E \in SUBSET Slots /\ E \in SUBSET All
  BY AllSlots DEF Selection
<1>3. E' \subseteq E /\ E' \subseteq NonZero
  <2>1. E' \subseteq E /\ \A s \in E' : required_lock(before, E, cap, s) # 0
    BY <1>1 DEF Affording
  <2>2. CASE E = All
    <3> SUFFICES ASSUME NEW s \in E' PROVE s \in NonZero
      BY <2>1
    <3>1. s \in All /\ required_lock(before, All, cap, s) # 0
      BY <2>1, <2>2
    <3>2. required_lock(before, All, cap, s) \in Nat
      BY <3>1, AllSlots, ShareGrows
    <3> QED BY <3>1, <3>2, NonZeroIs
  <2> QED BY <2>1, <2>2 DEF Selection
<1>4. ASSUME NEW S \in SUBSET NonZero, CanPayTogether(S)
      PROVE  S \subseteq E'
  <2> SUFFICES ASSUME NEW s \in S PROVE s \in Affording(before, E, cap)
    BY <1>1
  <2>1. S \in SUBSET E /\ s \in E /\ s \in All /\ required_lock(before, All, cap, s) > 0
    BY <1>4, NonZeroIs DEF Selection
  <2>2. /\ required_lock(before, All, cap, s) \in Nat /\ required_lock(before, E, cap, s) \in Nat
        /\ required_lock(before, All, cap, s) =< required_lock(before, E, cap, s)
    BY <1>0, <2>1, AllSlots, ShareGrows
  <2>3. \A j \in E : before[j].aat_volume > 0
    BY <1>0, AllSlots
  <2>4. /\ required_lock(before, S, cap, s) \in Nat
        /\ required_lock(before, E, cap, s) =< required_lock(before, S, cap, s)
    BY <1>0, <2>1, <2>3, AllSlots, ShareGrows
  <2>5. before[s].usdc_deposited \in Nat
    BY <2>1, AllSlots DEF PoolOfNats
  <2>6. required_lock(before, S, cap, s) =< before[s].usdc_deposited
    BY <1>4, <2>5, CanPay
  <2> QED BY <2>1, <2>2, <2>4, <2>5, <2>6 DEF Affording
<1>5. ASSUME E' = E PROVE CanPayTogether(E)
  <2> SUFFICES ASSUME NEW s \in E
               PROVE  required_lock(before, E, cap, s) \in 1 .. before[s].usdc_deposited
    BY CanPay
  <2>1. s \in Affording(before, E, cap)
    BY <1>1, <1>5
  <2>2. required_lock(before, E, cap, s) \in Nat /\ before[s].usdc_deposited \in Nat
    BY <1>0, AllSlots, ShareGrows DEF PoolOfNats
  <2> QED BY <2>1, <2>2 DEF Affording
<1>6. \A S : CanPayTogether(S)' <=> CanPayTogether(S)
  BY <1>1, SameGroups
<1>7. CanPayTogether(E)' <=> \A s \in E' : required_lock(before, E', cap, s) \in 1 .. before[s].usdc_deposited
  BY <1>1 DEF CanPayTogether, required_lock, cap
<1>8. pc' # "select" => CanPayTogether(E)'
  BY <1>1, <1>5, <1>7, CanPay
<1> HIDE DEF SelectTurn
<1> QED BY <1>0, <1>2, <1>3, <1>4, <1>6, <1>8 DEF Selection

\* X is what some number of turns leaves.
Turning(inv, c, X) ==
  \E n \in Nat : \E g : IsTurns(inv, MAX_INVESTORS, c, g, n) /\ X = g[n]

LEMMA TurningStart ==
  ASSUME NEW inv, NEW c
  PROVE  Turning(inv, c, eligible(inv, MAX_INVESTORS, c))
<1> DEFINE g == [k \in Nat |-> eligible(inv, MAX_INVESTORS, c)]
<1>1. IsTurns(inv, MAX_INVESTORS, c, g, 0) /\ g[0] = eligible(inv, MAX_INVESTORS, c)
  BY DEF IsTurns
<1> QED BY <1>1 DEF Turning

LEMMA TurningAgain ==
  ASSUME NEW inv, NEW c, NEW X, Turning(inv, c, X)
  PROVE  Turning(inv, c, Affording(inv, X, c))
<1>0. PICK n \in Nat : \E g : IsTurns(inv, MAX_INVESTORS, c, g, n) /\ X = g[n]
  BY DEF Turning
<1>1. PICK g : IsTurns(inv, MAX_INVESTORS, c, g, n) /\ X = g[n]
  BY <1>0
<1> DEFINE h == [k \in Nat |-> IF k =< n THEN g[k] ELSE Affording(inv, X, c)]
<1>2. h[0] = g[0] /\ h[n + 1] = Affording(inv, X, c)
  OBVIOUS
<1>3. ASSUME NEW k \in Nat, 0 < k, k =< n + 1
      PROVE  h[k] = Affording(inv, h[k - 1], c)
  <2>1. CASE k = n + 1
    BY <1>1, <2>1
  <2>2. CASE k =< n
    <3>1. h[k] = g[k] /\ h[k - 1] = g[k - 1]
      BY <1>3, <2>2
    <3> QED BY <1>1, <1>3, <2>2, <3>1 DEF IsTurns
  <2> QED BY <1>3, <2>1, <2>2
<1> HIDE DEF h
<1>4. IsTurns(inv, MAX_INVESTORS, c, h, n + 1)
  BY <1>1, <1>2, <1>3 DEF IsTurns
<1> QED BY <1>2, <1>4 DEF Turning

LEMMA TurningFixed ==
  ASSUME NEW inv, NEW c, NEW X, Turning(inv, c, X), Affording(inv, X, c) = X
  PROVE  X = Participants(inv, MAX_INVESTORS, c)
BY TurnsFixed DEF Turning

-----------------------------------------------------------------------------
\* Slots and their updates

\* A slot with the key and the volume of r.
SlotOf(r, d, l, c, w) ==
  [investor |-> r.investor, usdc_deposited |-> d, aat_volume |-> r.aat_volume,
   usdc_locked_current_round |-> l, usdc_committed |-> c, waln_purchased_total |-> w]

LEMMA SlotSame ==
  ASSUME NEW r \in SlotRecord
  PROVE  r = SlotOf(r, r.usdc_deposited, r.usdc_locked_current_round,
                    r.usdc_committed, r.waln_purchased_total)
BY DEF SlotRecord, SlotOf

LEMMA SlotIs ==
  ASSUME NEW r, NEW q \in SlotRecord, q.investor = r.investor, q.aat_volume = r.aat_volume
  PROVE  q = SlotOf(r, q.usdc_deposited, q.usdc_locked_current_round,
                    q.usdc_committed, q.waln_purchased_total)
BY SlotSame DEF SlotOf

LEMMA SlotFields ==
  ASSUME NEW r \in SlotRecord, NEW d, NEW l, NEW c, NEW w
  PROVE  LET q == SlotOf(r, d, l, c, w)
         IN  /\ q.investor = r.investor /\ q.usdc_deposited = d /\ q.aat_volume = r.aat_volume
             /\ q.usdc_locked_current_round = l /\ q.usdc_committed = c
             /\ q.waln_purchased_total = w
             /\ d \in Nat /\ l \in Nat /\ c \in Nat /\ w \in Nat => q \in SlotRecord
BY DEF SlotRecord, SlotOf

\* The slot q has the key and the volume of r, and the other fields as given.
Reads(r, q, d, l, c, w) ==
  /\ q \in SlotRecord /\ q.investor = r.investor /\ q.aat_volume = r.aat_volume
  /\ q.usdc_deposited = d /\ q.usdc_locked_current_round = l
  /\ q.usdc_committed = c /\ q.waln_purchased_total = w

LEMMA ReadsIs ==
  ASSUME NEW r, NEW q, NEW d, NEW l, NEW c, NEW w, Reads(r, q, d, l, c, w)
  PROVE  q = SlotOf(r, d, l, c, w)
BY SlotIs DEF Reads

\* A slot that locks x.
LEMMA LockPut ==
  ASSUME NEW r \in SlotRecord, NEW x \in Nat, r.usdc_deposited - x \in Nat
  PROVE  [r EXCEPT !.usdc_deposited = @ - x, !.usdc_locked_current_round = x]
           = SlotOf(r, r.usdc_deposited - x, x, r.usdc_committed, r.waln_purchased_total)
<1>1. PICK d \in Nat : d = r.usdc_deposited - x
  OBVIOUS
<1> DEFINE q == [r EXCEPT !.usdc_deposited = d, !.usdc_locked_current_round = x]
<1>2. Reads(r, q, d, x, r.usdc_committed, r.waln_purchased_total)
  BY DEF Reads, SlotRecord
<1> HIDE DEF q
<1>3. q = SlotOf(r, d, x, r.usdc_committed, r.waln_purchased_total)
  BY <1>2, ReadsIs
<1> QED BY <1>1, <1>3 DEF q

\* A slot that locks x more.
LEMMA GapPut ==
  ASSUME NEW r \in SlotRecord, NEW x \in Nat, r.usdc_deposited - x \in Nat
  PROVE  [r EXCEPT !.usdc_deposited = @ - x, !.usdc_locked_current_round = @ + x]
           = SlotOf(r, r.usdc_deposited - x, r.usdc_locked_current_round + x,
                    r.usdc_committed, r.waln_purchased_total)
<1>1. PICK d \in Nat, l \in Nat : d = r.usdc_deposited - x /\ l = r.usdc_locked_current_round + x
  BY DEF SlotRecord
<1> DEFINE q == [r EXCEPT !.usdc_deposited = d, !.usdc_locked_current_round = l]
<1>2. Reads(r, q, d, l, r.usdc_committed, r.waln_purchased_total)
  BY DEF Reads, SlotRecord
<1> HIDE DEF q
<1>3. q = SlotOf(r, d, l, r.usdc_committed, r.waln_purchased_total)
  BY <1>2, ReadsIs
<1> QED BY <1>1, <1>3 DEF q

-----------------------------------------------------------------------------
\* The locks

\* What slot s has locked when the loop has passed the slots before k.
LockedAt(inv, X, c, k, s) == IF s < k THEN BaseLocks(inv, X, c)[s] ELSE 0

LockTotals(inv, X, c, k) == [usdc |-> Sum(BaseLocks(inv, X, c), k - 1), waln |-> 0, n |-> 0]

LockAt(inv, X, c, k, pl, ac) ==
  /\ pl \in [Slots -> SlotRecord]
  /\ \A s \in Slots :
       pl[s] = SlotOf(inv[s], inv[s].usdc_deposited - LockedAt(inv, X, c, k, s),
                      LockedAt(inv, X, c, k, s), 0, 0)
  /\ ac = LockTotals(inv, X, c, k)

LEMMA FreshSlot ==
  ASSUME NEW inv, IsFresh(inv), NEW s \in Slots
  PROVE  /\ inv[s] \in SlotRecord /\ inv[s].usdc_deposited \in Nat
         /\ inv[s] = SlotOf(inv[s], inv[s].usdc_deposited, 0, 0, 0)
<1>1. inv[s] \in SlotRecord
  BY DEF IsFresh
<1> QED BY <1>1, SlotSame DEF IsFresh, SlotRecord

LEMMA LockStart ==
  ASSUME NEW inv, IsFresh(inv), NEW X, NEW c
  PROVE  LockAt(inv, X, c, 1, inv, NoTotals)
<1>1. ASSUME NEW s \in Slots PROVE LockedAt(inv, X, c, 1, s) = 0
  BY RoundMathAssumption DEF Slots, LockedAt
<1>2. Sum(BaseLocks(inv, X, c), 1 - 1) = 0
  BY SumZero
<1>3. ASSUME NEW s \in Slots
      PROVE  inv[s] = SlotOf(inv[s], inv[s].usdc_deposited - LockedAt(inv, X, c, 1, s),
                             LockedAt(inv, X, c, 1, s), 0, 0)
  <2>1. inv[s].usdc_deposited - 0 = inv[s].usdc_deposited
    BY FreshSlot
  <2> QED BY <1>1, <2>1, FreshSlot
<1> QED BY <1>2, <1>3 DEF LockAt, LockTotals, NoTotals, IsFresh

LEMMA LockStep ==
  ASSUME NEW inv, IsFresh(inv), NEW X \in SUBSET Slots, NEW c \in Nat,
         SumOver(X, Volumes(inv)) > 0,
         NEW k \in Slots, NEW pl, NEW ac, LockAt(inv, X, c, k, pl, ac),
         NEW lock, lock = Least(required_lock(pl, X, c, k), pl[k].usdc_deposited),
         NEW pl2, NEW ac2,
         IF k \in X /\ lock > 0
         THEN /\ pl2 = [pl EXCEPT ![k].usdc_deposited = @ - lock,
                                  ![k].usdc_locked_current_round = lock]
              /\ ac2 = [ac EXCEPT !.usdc = @ + lock]
         ELSE pl2 = pl /\ ac2 = ac
  PROVE  LockAt(inv, X, c, k + 1, pl2, ac2)
<1> DEFINE base == BaseLocks(inv, X, c)
<1>1. PoolOfNats(inv)
  BY FreshNats
<1>2. \A s \in Slots : base[s] \in 0 .. inv[s].usdc_deposited
  BY <1>1, BaseLocksBound
<1>3. \A s \in Slots : base[s] \in Nat /\ inv[s].usdc_deposited - base[s] \in Nat
                       /\ inv[s].usdc_deposited \in Nat
  <2> HIDE DEF base
  <2> QED BY <1>1, <1>2 DEF PoolOfNats
<1>4. k \in Nat /\ k # 0 /\ ~ k < k /\ k < k + 1
  BY RoundMathAssumption DEF Slots
<1>5. \A s \in Slots : pl[s].aat_volume = inv[s].aat_volume
  BY SlotFields, FreshSlot DEF LockAt
<1>6. Volumes(pl) = Volumes(inv)
  BY <1>5 DEF Volumes
<1>7. pl[k] = inv[k] /\ pl[k] \in SlotRecord
  <2>1. LockedAt(inv, X, c, k, k) = 0
    BY <1>4 DEF LockedAt
  <2>2. inv[k].usdc_deposited - 0 = inv[k].usdc_deposited
    BY FreshSlot
  <2> QED BY <2>1, <2>2, FreshSlot DEF LockAt
<1>8. base[k] = IF k \in X THEN lock ELSE 0
  BY <1>6, <1>7 DEF BaseLocks, required_lock
<1>9. ASSUME NEW s \in Slots
      PROVE  LockedAt(inv, X, c, k + 1, s) = IF s = k THEN base[k] ELSE LockedAt(inv, X, c, k, s)
  <2>1. s \in Int /\ k \in Int
    BY RoundMathAssumption DEF Slots
  <2> QED BY <2>1 DEF LockedAt
<1> HIDE DEF base
<1>10. Sum(base, (k + 1) - 1) = Sum(base, k - 1) + base[k] /\ Sum(base, k - 1) \in Int
  <2>1. (k + 1) - 1 = k /\ k - 1 \in Nat
    BY <1>4
  <2>2. \A s \in 1 .. (k - 1) : base[s] \in Int
    BY <1>3, RoundMathAssumption DEF Slots
  <2> QED BY <1>4, <2>1, <2>2, SumStep, SumInt
<1>11. ac = [usdc |-> Sum(base, k - 1), waln |-> 0, n |-> 0] /\ pl \in [Slots -> SlotRecord]
  BY DEF LockAt, LockTotals, base
<1>12. /\ pl2 \in [Slots -> SlotRecord]
       /\ pl2[k] = SlotOf(inv[k], inv[k].usdc_deposited - base[k], base[k], 0, 0)
       /\ \A s \in Slots : s # k => pl2[s] = pl[s]
       /\ ac2 = [usdc |-> Sum(base, k - 1) + base[k], waln |-> 0, n |-> 0]
  <2>1. CASE base[k] > 0
    <3>1. k \in X /\ lock = base[k] /\ lock > 0
      BY <1>8, <2>1
    <3>2. /\ pl2 = [pl EXCEPT ![k].usdc_deposited = @ - base[k],
                              ![k].usdc_locked_current_round = base[k]]
          /\ ac2 = [ac EXCEPT !.usdc = @ + base[k]]
      BY <3>1
    <3>3. \A s \in Slots : pl2[s] =
            IF s = k THEN [pl[k] EXCEPT !.usdc_deposited = @ - base[k],
                                        !.usdc_locked_current_round = base[k]]
            ELSE pl[s]
      BY <1>11, <3>2
    <3>4. [inv[k] EXCEPT !.usdc_deposited = @ - base[k], !.usdc_locked_current_round = base[k]]
            = SlotOf(inv[k], inv[k].usdc_deposited - base[k], base[k], 0, 0)
      <4>1. inv[k].usdc_committed = 0 /\ inv[k].waln_purchased_total = 0
        BY DEF IsFresh
      <4>2. inv[k] \in SlotRecord
        BY FreshSlot
      <4>3. [inv[k] EXCEPT !.usdc_deposited = @ - base[k], !.usdc_locked_current_round = base[k]]
              = SlotOf(inv[k], inv[k].usdc_deposited - base[k], base[k],
                       inv[k].usdc_committed, inv[k].waln_purchased_total)
        BY <1>3, <4>2, LockPut
      <4> QED BY <4>1, <4>3
    <3>5. SlotOf(inv[k], inv[k].usdc_deposited - base[k], base[k], 0, 0) \in SlotRecord
      BY <1>3, FreshSlot, SlotFields
    <3>6. pl2[k] = SlotOf(inv[k], inv[k].usdc_deposited - base[k], base[k], 0, 0)
      BY <1>7, <3>3, <3>4
    <3>7. pl2 = [s \in Slots |-> pl2[s]]
      BY <1>11, <3>2
    <3>8. pl2 \in [Slots -> SlotRecord]
      BY <1>11, <3>3, <3>5, <3>6, <3>7
    <3>9. ac2 = [usdc |-> Sum(base, k - 1) + base[k], waln |-> 0, n |-> 0]
      BY <1>11, <3>2
    <3> QED BY <3>3, <3>6, <3>8, <3>9
  <2>2. CASE base[k] = 0
    <3>1. pl2 = pl /\ ac2 = ac
      BY <1>8, <2>2
    <3>2. Sum(base, k - 1) + 0 = Sum(base, k - 1) /\ inv[k].usdc_deposited - 0 = inv[k].usdc_deposited
      BY <1>3, <1>10
    <3> QED BY <1>7, <1>11, <2>2, <3>1, <3>2, FreshSlot
  <2> QED BY <1>3, <2>1, <2>2
<1>13. ASSUME NEW s \in Slots
       PROVE  pl2[s] = SlotOf(inv[s], inv[s].usdc_deposited - LockedAt(inv, X, c, k + 1, s),
                              LockedAt(inv, X, c, k + 1, s), 0, 0)
  <2>1. CASE s = k
    BY <1>9, <1>12, <2>1
  <2>2. CASE s # k
    <3>1. pl[s] = SlotOf(inv[s], inv[s].usdc_deposited - LockedAt(inv, X, c, k, s),
                         LockedAt(inv, X, c, k, s), 0, 0)
      BY DEF LockAt
    <3> QED BY <1>9, <1>12, <2>2, <3>1
  <2> QED BY <2>1, <2>2
<1>14. ac2 = [usdc |-> Sum(base, (k + 1) - 1), waln |-> 0, n |-> 0]
  BY <1>10, <1>12
<1>15. ac2 = LockTotals(inv, X, c, k + 1)
  BY <1>14 DEF base, LockTotals
<1>16. \A s \in Slots :
         pl2[s] = SlotOf(inv[s], inv[s].usdc_deposited - LockedAt(inv, X, c, k + 1, s),
                         LockedAt(inv, X, c, k + 1, s), 0, 0)
  BY <1>13
<1> QED BY <1>12, <1>15, <1>16, Zenon DEF LockAt

-----------------------------------------------------------------------------
\* The gap

GapOf(inv, X, c) == Greatest(0, c - Sum(BaseLocks(inv, X, c), MAX_INVESTORS))

\* Slot s can take the gap.
TakesGap(inv, X, c, s) ==
  /\ GapOf(inv, X, c) > 0
  /\ s \in X /\ inv[s].usdc_deposited - BaseLocks(inv, X, c)[s] >= GapOf(inv, X, c)

FirstTakes(inv, X, c, s) ==
  TakesGap(inv, X, c, s) /\ \A j \in Slots : j < s => ~ TakesGap(inv, X, c, j)

LEMMA GapLocksIs ==
  ASSUME NEW inv, NEW X, NEW c, NEW s \in Slots
  PROVE  GapLocks(inv, X, c)[s] = IF FirstTakes(inv, X, c, s) THEN GapOf(inv, X, c) ELSE 0
<1> DEFINE gap == GapOf(inv, X, c)
           Has(j) == j \in X /\ inv[j].usdc_deposited - BaseLocks(inv, X, c)[j] >= gap
<1>1. GapLocks(inv, X, c)[s] = IF gap > 0 /\ Has(s) /\ \A j \in Slots : j < s => ~ Has(j)
                               THEN gap ELSE 0
  BY DEF GapLocks, GapOf
<1>2. \A j : TakesGap(inv, X, c, j) <=> gap > 0 /\ Has(j)
  BY DEF TakesGap
<1> HIDE DEF gap, Has
<1>3. FirstTakes(inv, X, c, s) <=> gap > 0 /\ Has(s) /\ \A j \in Slots : j < s => ~ Has(j)
  BY <1>2 DEF FirstTakes
<1> QED BY <1>1, <1>3 DEF gap

LEMMA GapNat ==
  ASSUME NEW inv, IsFresh(inv), NEW X \in SUBSET Slots, NEW c \in Nat,
         SumOver(X, Volumes(inv)) > 0
  PROVE  /\ GapOf(inv, X, c) \in Nat
         /\ \A s \in Slots : /\ inv[s].usdc_deposited \in Nat
                             /\ BaseLocks(inv, X, c)[s] \in 0 .. inv[s].usdc_deposited
<1> DEFINE base == BaseLocks(inv, X, c)
<1>1. \A s \in Slots : base[s] \in 0 .. inv[s].usdc_deposited /\ inv[s].usdc_deposited \in Nat
  BY FreshNats, BaseLocksBound DEF PoolOfNats
<1>2. Sum(base, MAX_INVESTORS) \in Int
  <2> HIDE DEF base
  <2>1. MAX_INVESTORS \in Nat /\ \A s \in 1 .. MAX_INVESTORS : base[s] \in Int
    BY <1>1, RoundMathAssumption DEF Slots
  <2> QED BY <2>1, SumInt
<1> QED BY <1>1, <1>2 DEF GapOf, Greatest

\* After the locks, the first slot that can takes the gap: the pool is the one of
\* execute_round_start.
LEMMA GapPlaced ==
  ASSUME NEW inv, IsFresh(inv), NEW sz, NEW pr,
         NEW c \in Nat, c = round_cap_usdc(sz, pr),
         NEW X \in SUBSET Slots, X = Participants(inv, MAX_INVESTORS, c),
         SumOver(X, Volumes(inv)) > 0,
         NEW pl, pl = [s \in Slots |-> pl[s]],
         \A s \in Slots :
           LET l == BaseLocks(inv, X, c)[s] + GapLocks(inv, X, c)[s]
           IN  pl[s] = SlotOf(inv[s], inv[s].usdc_deposited - l, l, 0, 0)
  PROVE  pl = execute_round_start(inv, MAX_INVESTORS, sz, pr)
<1> DEFINE locks == NewLocks(inv, MAX_INVESTORS, sz, pr)
           Put(s) == [inv[s] EXCEPT
                        !.usdc_deposited = @ - locks[s],
                        !.usdc_locked_current_round = IF locks[s] > 0 THEN locks[s] ELSE @]
<1>1. \A s \in Slots : locks[s] = BaseLocks(inv, X, c)[s] + GapLocks(inv, X, c)[s]
  BY DEF NewLocks
<1>2. ASSUME NEW s \in Slots PROVE locks[s] \in Nat /\ inv[s].usdc_deposited - locks[s] \in Nat
  <2>1. /\ GapLocks(inv, X, c)[s] = IF FirstTakes(inv, X, c, s) THEN GapOf(inv, X, c) ELSE 0
        /\ locks[s] = BaseLocks(inv, X, c)[s] + GapLocks(inv, X, c)[s]
    BY <1>1, GapLocksIs
  <2>2. /\ inv[s].usdc_deposited \in Nat /\ GapOf(inv, X, c) \in Nat
        /\ BaseLocks(inv, X, c)[s] \in 0 .. inv[s].usdc_deposited
    BY GapNat
  <2> HIDE DEF locks
  <2>3. CASE FirstTakes(inv, X, c, s)
    <3>1. inv[s].usdc_deposited - BaseLocks(inv, X, c)[s] >= GapOf(inv, X, c)
      BY <2>3 DEF FirstTakes, TakesGap
    <3> QED BY <2>1, <2>2, <2>3, <3>1
  <2>4. CASE ~ FirstTakes(inv, X, c, s)
    BY <2>1, <2>2, <2>4
  <2> QED BY <2>3, <2>4
<1>3. execute_round_start(inv, MAX_INVESTORS, sz, pr) = [s \in Slots |-> Put(s)]
  BY DEF execute_round_start
<1> HIDE DEF locks
<1>4. ASSUME NEW s \in Slots PROVE pl[s] = Put(s)
  <2>1. inv[s] \in SlotRecord /\ inv[s].usdc_committed = 0 /\ inv[s].waln_purchased_total = 0
        /\ inv[s].usdc_locked_current_round = 0
    BY FreshSlot DEF IsFresh
  <2>2. (IF locks[s] > 0 THEN locks[s] ELSE inv[s].usdc_locked_current_round) = locks[s]
    BY <1>2, <2>1
  <2>3. [inv[s] EXCEPT !.usdc_deposited = @ - locks[s], !.usdc_locked_current_round = locks[s]]
          = SlotOf(inv[s], inv[s].usdc_deposited - locks[s], locks[s],
                   inv[s].usdc_committed, inv[s].waln_purchased_total)
    <3>1. PICK x \in Nat : x = locks[s]
      BY <1>2
    <3>2. inv[s].usdc_deposited - x \in Nat
      BY <1>2, <2>1, <3>1 DEF SlotRecord
    <3>3. [inv[s] EXCEPT !.usdc_deposited = @ - x, !.usdc_locked_current_round = x]
            = SlotOf(inv[s], inv[s].usdc_deposited - x, x,
                     inv[s].usdc_committed, inv[s].waln_purchased_total)
      BY <2>1, <3>2, LockPut
    <3> QED BY <3>1, <3>3
  <2>4. pl[s] = SlotOf(inv[s], inv[s].usdc_deposited - locks[s], locks[s], 0, 0)
    BY <1>1
  <2>5. Put(s) = [inv[s] EXCEPT !.usdc_deposited = @ - locks[s],
                                !.usdc_locked_current_round = locks[s]]
    BY <2>2
  <2> QED BY <2>1, <2>3, <2>4, <2>5
<1> HIDE DEF Put
<1>5. [s \in Slots |-> pl[s]] = [s \in Slots |-> Put(s)]
  BY <1>4
<1> QED BY <1>3, <1>5

\* What the loop over the gap does at slot k, when no slot before it took the gap.
LEMMA GapStep ==
  ASSUME NEW inv, IsFresh(inv), NEW X \in SUBSET Slots, NEW c \in Nat,
         SumOver(X, Volumes(inv)) > 0,
         NEW k \in Slots, \A j \in Slots : j < k => ~ TakesGap(inv, X, c, j),
         NEW pl, NEW ac, LockAt(inv, X, c, MAX_INVESTORS + 1, pl, ac),
         NEW gap, gap = Greatest(0, c - ac.usdc)
  PROVE  /\ gap = GapOf(inv, X, c)
         /\ gap > 0 /\ k \in X /\ pl[k].usdc_deposited >= gap <=> FirstTakes(inv, X, c, k)
         /\ FirstTakes(inv, X, c, k) =>
              \A pl2 : pl2 = [pl EXCEPT ![k].usdc_deposited = @ - gap,
                                        ![k].usdc_locked_current_round = @ + gap] =>
                /\ pl2 = [s \in Slots |-> pl2[s]]
                /\ \A s \in Slots :
                     LET l == BaseLocks(inv, X, c)[s] + GapLocks(inv, X, c)[s]
                     IN  pl2[s] = SlotOf(inv[s], inv[s].usdc_deposited - l, l, 0, 0)
         /\ k = MAX_INVESTORS /\ ~ FirstTakes(inv, X, c, k) =>
              /\ pl = [s \in Slots |-> pl[s]]
              /\ \A s \in Slots :
                   LET l == BaseLocks(inv, X, c)[s] + GapLocks(inv, X, c)[s]
                   IN  pl[s] = SlotOf(inv[s], inv[s].usdc_deposited - l, l, 0, 0)
<1> DEFINE base == BaseLocks(inv, X, c)
           place == GapLocks(inv, X, c)
<1>1. /\ GapOf(inv, X, c) \in Nat
      /\ \A s \in Slots : base[s] \in Nat /\ inv[s].usdc_deposited \in Nat
                          /\ inv[s].usdc_deposited - base[s] \in Nat
  <2>1. \A s \in Slots : base[s] \in 0 .. inv[s].usdc_deposited /\ inv[s].usdc_deposited \in Nat
    BY GapNat
  <2> HIDE DEF base
  <2> QED BY <2>1, GapNat
<1>2. \A s \in Slots : LockedAt(inv, X, c, MAX_INVESTORS + 1, s) = base[s]
  BY RoundMathAssumption DEF LockedAt, Slots
<1>3. \A s \in Slots : pl[s] = SlotOf(inv[s], inv[s].usdc_deposited - base[s], base[s], 0, 0)
  BY <1>2 DEF LockAt
<1>4. gap = GapOf(inv, X, c)
  <2>1. (MAX_INVESTORS + 1) - 1 = MAX_INVESTORS
    BY RoundMathAssumption
  <2>2. ac.usdc = Sum(base, MAX_INVESTORS)
    BY <2>1 DEF LockAt, LockTotals
  <2> QED BY <2>2 DEF GapOf
<1>5. pl[k].usdc_deposited = inv[k].usdc_deposited - base[k]
  BY <1>3, FreshSlot, SlotFields
<1>6. gap > 0 /\ k \in X /\ pl[k].usdc_deposited >= gap <=> FirstTakes(inv, X, c, k)
  BY <1>4, <1>5 DEF TakesGap, FirstTakes
<1>7. \A s \in Slots : place[s] = IF FirstTakes(inv, X, c, s) THEN gap ELSE 0
  BY <1>4, GapLocksIs
<1>8. pl \in [Slots -> SlotRecord] /\ pl = [s \in Slots |-> pl[s]]
  BY DEF LockAt
<1> HIDE DEF base, place
<1>9. ASSUME NEW s \in Slots, place[s] = 0
      PROVE  pl[s] = SlotOf(inv[s], inv[s].usdc_deposited - (base[s] + place[s]),
                            base[s] + place[s], 0, 0)
  <2>1. base[s] + 0 = base[s]
    BY <1>1
  <2> QED BY <1>3, <1>9, <2>1
<1>10. ASSUME FirstTakes(inv, X, c, k),
              NEW pl2, pl2 = [pl EXCEPT ![k].usdc_deposited = @ - gap,
                                        ![k].usdc_locked_current_round = @ + gap]
       PROVE  /\ pl2 = [s \in Slots |-> pl2[s]]
              /\ \A s \in Slots : pl2[s] = SlotOf(inv[s], inv[s].usdc_deposited - (base[s] + place[s]),
                                                  base[s] + place[s], 0, 0)
  <2>1. pl2 = [s \in Slots |-> pl2[s]]
    BY <1>8, <1>10
  <2>2. \A s \in Slots : pl2[s] =
          IF s = k THEN [pl[k] EXCEPT !.usdc_deposited = @ - gap,
                                      !.usdc_locked_current_round = @ + gap]
          ELSE pl[s]
    BY <1>8, <1>10
  <2>3. ASSUME NEW s \in Slots, s # k PROVE place[s] = 0
    <3>1. s \in Int /\ k \in Int
      BY RoundMathAssumption DEF Slots
    <3>2. ~ FirstTakes(inv, X, c, s)
      BY <1>10, <2>3, <3>1 DEF FirstTakes
    <3> QED BY <1>7, <3>2
  <2>4. place[k] = gap
    BY <1>7, <1>10
  <2>5. pl2[k] = SlotOf(inv[k], inv[k].usdc_deposited - (base[k] + place[k]),
                        base[k] + place[k], 0, 0)
    <3>1. /\ pl[k] \in SlotRecord /\ gap \in Nat /\ inv[k] \in SlotRecord
          /\ inv[k].usdc_deposited - base[k] >= gap
      BY <1>1, <1>4, <1>8, <1>10, FreshSlot DEF FirstTakes, TakesGap, base
    <3>2. /\ pl[k].usdc_deposited = inv[k].usdc_deposited - base[k]
          /\ pl[k].usdc_locked_current_round = base[k] /\ pl[k].aat_volume = inv[k].aat_volume
          /\ pl[k].investor = inv[k].investor
          /\ pl[k].usdc_committed = 0 /\ pl[k].waln_purchased_total = 0
      BY <1>3, <3>1, SlotFields
    <3>3. pl[k].usdc_deposited - gap \in Nat
      BY <1>1, <3>1, <3>2
    <3>4. [pl[k] EXCEPT !.usdc_deposited = @ - gap, !.usdc_locked_current_round = @ + gap]
            = SlotOf(pl[k], pl[k].usdc_deposited - gap, pl[k].usdc_locked_current_round + gap,
                     pl[k].usdc_committed, pl[k].waln_purchased_total)
      BY <3>1, <3>3, GapPut
    <3>5. (inv[k].usdc_deposited - base[k]) - gap = inv[k].usdc_deposited - (base[k] + gap)
      BY <1>1, <3>1
    <3>6. SlotOf(pl[k], pl[k].usdc_deposited - gap, pl[k].usdc_locked_current_round + gap,
                 pl[k].usdc_committed, pl[k].waln_purchased_total)
            = SlotOf(inv[k], inv[k].usdc_deposited - (base[k] + gap), base[k] + gap, 0, 0)
      BY <3>2, <3>5 DEF SlotOf
    <3> QED BY <2>2, <2>4, <3>4, <3>6
  <2>6. \A s \in Slots : s # k =>
          pl2[s] = SlotOf(inv[s], inv[s].usdc_deposited - (base[s] + place[s]),
                          base[s] + place[s], 0, 0)
    BY <1>9, <2>2, <2>3
  <2> QED BY <2>1, <2>5, <2>6
<1>11. ASSUME k = MAX_INVESTORS, ~ FirstTakes(inv, X, c, k), NEW s \in Slots
       PROVE  pl[s] = SlotOf(inv[s], inv[s].usdc_deposited - (base[s] + place[s]),
                             base[s] + place[s], 0, 0)
  <2>1. s < k \/ s = k
    BY <1>11, RoundMathAssumption DEF Slots
  <2>2. ~ FirstTakes(inv, X, c, s)
    BY <1>11, <2>1 DEF FirstTakes
  <2> QED BY <1>7, <1>9, <2>2
<1> QED BY <1>4, <1>6, <1>8, <1>10, <1>11 DEF base, place

-----------------------------------------------------------------------------
\* From the selection to the open round

\* Where the start of the round is.
Starting ==
  /\ pc \in {"select", "refused"} =>
       /\ pool = before /\ i = 1 /\ acc = NoTotals
       /\ Turning(before, cap, E)
  /\ pc = "refused" => ~ SumOver(E, Volumes(before)) > 0
  /\ pc \in {"lock", "gap"} =>
       /\ E = Participants(before, MAX_INVESTORS, cap)
       /\ SumOver(E, Volumes(before)) > 0
       /\ i \in Slots
  /\ pc = "lock" => LockAt(before, E, cap, i, pool, acc)
  /\ pc = "gap" => /\ LockAt(before, E, cap, MAX_INVESTORS + 1, pool, acc)
                   /\ \A j \in Slots : j < i => ~ TakesGap(before, E, cap, j)
  /\ pc \in {"select", "lock", "gap"} => sold = 0 /\ paid = 0

\* The round is open, with the locks of execute_round_start.
Opened ==
  /\ pc \in {"open", "close", "closed", "fill", "dust", "filled"} =>
       /\ RoundCanStart(before, MAX_INVESTORS, size, price)
       /\ sold \in Nat /\ paid \in Nat /\ (sold > 0 => paid > 0)
  /\ pc = "open" => i = 1 /\ pool = execute_round_start(before, MAX_INVESTORS, size, price)
  /\ pc \in {"close", "closed", "fill", "dust", "filled"} =>
       locked = execute_round_start(before, MAX_INVESTORS, size, price)

LEMMA OneSlot == 1 \in Slots
BY RoundMathAssumption DEF Slots

LEMMA StartInit == LoopInit => Starting /\ Opened
BY TurningStart DEF LoopInit, Starting, Opened

\* The participants, and what the locks need to know of them.
LEMMA GroupFacts ==
  ASSUME Given, E = Participants(before, MAX_INVESTORS, cap),
         SumOver(E, Volumes(before)) > 0
  PROVE  /\ IsFresh(before) /\ E \in SUBSET Slots /\ cap \in Nat
         /\ RoundCanStart(before, MAX_INVESTORS, size, price)
<1>1. E \in SUBSET Slots /\ cap \in Nat /\ cap > 0
  BY ParticipantsFixed, CapNat
<1> QED BY <1>1 DEF Given, RoundCanStart, cap

LEMMA SelectTurnStarts == Given /\ Starting /\ SelectTurn => Starting' /\ Opened'
<1> SUFFICES ASSUME Given, Starting, SelectTurn PROVE Starting' /\ Opened'
  OBVIOUS
<1>1. /\ pc = "select" /\ E' = Affording(before, E, cap)
      /\ pc' = IF E' = E THEN "lock" ELSE "select"
      /\ SumOver(E, Volumes(before)) > 0
      /\ UNCHANGED <<size, price, before, pool, i, sold, paid, locked, acc>>
  BY DEF SelectTurn, Starting
<1>2. /\ pool = before /\ i = 1 /\ acc = NoTotals /\ Turning(before, cap, E)
      /\ sold = 0 /\ paid = 0
  BY <1>1 DEF Starting
<1>3. cap' = cap
  BY <1>1 DEF cap
<1>4. Turning(before, cap, E')
  BY <1>1, <1>2, TurningAgain
<1>5. CASE E' = E
  <2>1. E' = Participants(before, MAX_INVESTORS, cap)
    BY <1>1, <1>2, <1>5, TurningFixed
  <2>2. LockAt(before, E', cap, i, pool, acc)
    BY <1>2, LockStart DEF Given
  <2> QED BY <1>1, <1>2, <1>3, <1>5, <2>1, <2>2, OneSlot DEF Starting, Opened
<1>6. CASE E' # E
  BY <1>1, <1>2, <1>3, <1>4, <1>6 DEF Starting, Opened
<1> QED BY <1>5, <1>6

LEMMA SelectNobodyStarts == Starting /\ SelectNobody => Starting' /\ Opened'
<1> SUFFICES ASSUME Starting, SelectNobody PROVE Starting' /\ Opened'
  OBVIOUS
<1>1. /\ pc = "select" /\ pc' = "refused" /\ SumOver(E, Volumes(before)) = 0
      /\ UNCHANGED <<size, price, before, pool, E, i, sold, paid, locked, acc>>
  BY DEF SelectNobody, Starting
<1>2. /\ pool = before /\ i = 1 /\ acc = NoTotals /\ Turning(before, cap, E)
  BY <1>1 DEF Starting
<1>3. cap' = cap
  BY <1>1 DEF cap
<1> QED BY <1>1, <1>2, <1>3 DEF Starting, Opened

LEMMA LockSlotStarts == Given /\ Starting /\ LockSlot => Starting' /\ Opened'
<1> SUFFICES ASSUME Given, Starting, LockSlot PROVE Starting' /\ Opened'
  OBVIOUS
<1> DEFINE lock == Least(required_lock(pool, E, cap, i), pool[i].usdc_deposited)
<1>1. /\ pc = "lock"
      /\ IF i \in E /\ lock > 0
         THEN /\ pool' = [pool EXCEPT ![i].usdc_deposited = @ - lock,
                                      ![i].usdc_locked_current_round = lock]
              /\ acc' = [acc EXCEPT !.usdc = @ + lock]
         ELSE pool' = pool /\ acc' = acc
      /\ NextSlot("gap")
      /\ UNCHANGED <<size, price, before, E, sold, paid, locked>>
  BY DEF LockSlot
<1>2. /\ E = Participants(before, MAX_INVESTORS, cap) /\ SumOver(E, Volumes(before)) > 0
      /\ i \in Slots /\ LockAt(before, E, cap, i, pool, acc)
      /\ sold = 0 /\ paid = 0
  BY <1>1 DEF Starting
<1>3. cap' = cap
  BY <1>1 DEF cap
<1> HIDE DEF lock
<1>4. IsFresh(before) /\ E \in SUBSET Slots /\ cap \in Nat
  BY <1>2, GroupFacts
<1>5. LockAt(before, E, cap, i + 1, pool', acc')
  BY <1>1, <1>2, <1>4, LockStep DEF lock
<1>6. CASE i = MAX_INVESTORS
  <2>1. i' = 1 /\ pc' = "gap"
    BY <1>1, <1>6 DEF NextSlot
  <2>2. \A j \in Slots : ~ j < 1
    BY RoundMathAssumption DEF Slots
  <2> QED BY <1>1, <1>2, <1>3, <1>5, <1>6, <2>1, <2>2, OneSlot DEF Starting, Opened
<1>7. CASE i # MAX_INVESTORS
  <2>1. i' = i + 1 /\ pc' = "lock"
    BY <1>1, <1>7 DEF NextSlot
  <2>2. i + 1 \in Slots
    BY <1>2, <1>7, RoundMathAssumption DEF Slots
  <2> QED BY <1>1, <1>2, <1>3, <1>5, <2>1, <2>2 DEF Starting, Opened
<1> QED BY <1>6, <1>7

LEMMA GapSlotStarts == Given /\ Starting /\ GapSlot => Starting' /\ Opened'
<1> SUFFICES ASSUME Given, Starting, GapSlot PROVE Starting' /\ Opened'
  OBVIOUS
<1> DEFINE gap == Greatest(0, cap - acc.usdc)
           Takes == gap > 0 /\ i \in E /\ pool[i].usdc_deposited >= gap
           Placed(pl) ==
             /\ pl = [s \in Slots |-> pl[s]]
             /\ \A s \in Slots :
                  LET l == BaseLocks(before, E, cap)[s] + GapLocks(before, E, cap)[s]
                  IN  pl[s] = SlotOf(before[s], before[s].usdc_deposited - l, l, 0, 0)
<1>1. /\ pc = "gap"
      /\ IF Takes
         THEN /\ pool' = [pool EXCEPT ![i].usdc_deposited = @ - gap,
                                      ![i].usdc_locked_current_round = @ + gap]
              /\ i' = 1 /\ pc' = "open"
         ELSE pool' = pool /\ NextSlot("open")
      /\ UNCHANGED <<size, price, before, E, sold, paid, locked, acc>>
  BY DEF GapSlot
<1>2. /\ E = Participants(before, MAX_INVESTORS, cap) /\ SumOver(E, Volumes(before)) > 0
      /\ i \in Slots /\ LockAt(before, E, cap, MAX_INVESTORS + 1, pool, acc)
      /\ \A j \in Slots : j < i => ~ TakesGap(before, E, cap, j)
      /\ sold = 0 /\ paid = 0
  BY <1>1 DEF Starting
<1>3. cap' = cap
  BY <1>1 DEF cap
<1>4. /\ IsFresh(before) /\ E \in SUBSET Slots /\ cap \in Nat
      /\ RoundCanStart(before, MAX_INVESTORS, size, price)
  BY <1>2, GroupFacts
<1> HIDE DEF gap
<1>5. /\ Takes <=> FirstTakes(before, E, cap, i)
      /\ FirstTakes(before, E, cap, i) =>
           \A pl2 : pl2 = [pool EXCEPT ![i].usdc_deposited = @ - gap,
                                       ![i].usdc_locked_current_round = @ + gap] => Placed(pl2)
      /\ i = MAX_INVESTORS /\ ~ FirstTakes(before, E, cap, i) => Placed(pool)
  BY <1>2, <1>4, GapStep DEF gap
<1>6. ASSUME NEW pl, Placed(pl)
      PROVE  pl = execute_round_start(before, MAX_INVESTORS, size, price)
  BY <1>2, <1>4, <1>6, GapPlaced DEF cap
<1> HIDE DEF Takes, Placed
<1>7. ASSUME i' = 1, pc' = "open", Placed(pool') PROVE Starting' /\ Opened'
  <2>1. pool' = execute_round_start(before, MAX_INVESTORS, size, price)
    BY <1>6, <1>7
  <2> QED BY <1>1, <1>2, <1>4, <1>7, <2>1 DEF Starting, Opened
<1>8. CASE Takes
  BY <1>1, <1>5, <1>7, <1>8
<1>9. CASE ~ Takes /\ i = MAX_INVESTORS
  BY <1>1, <1>5, <1>7, <1>9 DEF NextSlot
<1>10. CASE ~ Takes /\ i # MAX_INVESTORS
  <2>1. i' = i + 1 /\ pc' = "gap" /\ pool' = pool
    BY <1>1, <1>10 DEF NextSlot
  <2>2. i + 1 \in Slots /\ \A j \in Slots : j < i + 1 => j < i \/ j = i
    BY <1>2, <1>10, RoundMathAssumption DEF Slots
  <2>3. ~ TakesGap(before, E, cap, i)
    BY <1>2, <1>5, <1>10 DEF FirstTakes
  <2>4. \A j \in Slots : j < i + 1 => ~ TakesGap(before, E, cap, j)
    BY <1>2, <2>2, <2>3
  <2> QED BY <1>1, <1>2, <1>3, <2>1, <2>2, <2>4 DEF Starting, Opened
<1> QED BY <1>8, <1>9, <1>10

LEMMA SaleStarts ==
  ASSUME Given, Opened, NEW waln \in 1 .. size, LoopSale(waln)
  PROVE  Starting' /\ Opened'
<1>1. /\ pc = "open" /\ pc' = "open" /\ sold' = sold + waln
      /\ paid' = paid + UsdcFor(waln, price) /\ UsdcFor(waln, price) > 0
      /\ UNCHANGED <<size, price, before, pool, E, i, locked>>
  BY DEF LoopSale
<1>2. /\ sold \in Nat /\ paid \in Nat /\ i = 1
      /\ RoundCanStart(before, MAX_INVESTORS, size, price)
      /\ pool = execute_round_start(before, MAX_INVESTORS, size, price)
  BY <1>1 DEF Opened
<1>3. UsdcFor(waln, price) \in Nat /\ waln \in Nat
  <2>1. size \in Nat /\ price \in Nat
    BY DEF Given
  <2>2. waln \in Nat
    BY <2>1
  <2> QED BY <2>1, <2>2, UsdcForNat
<1>4. sold' \in Nat /\ paid' \in Nat /\ paid' > 0
  BY <1>1, <1>2, <1>3
<1> QED BY <1>1, <1>2, <1>4 DEF Starting, Opened

\* The later steps leave the round, its sales and the pool to settle alone.
LEMMA SettlesStart ==
  ASSUME Opened,
         \/ /\ pc = "open" /\ pc' \in {"close", "fill"} /\ locked' = pool
         \/ /\ pc \in {"close", "closed", "fill", "dust", "filled"}
            /\ pc' \in {"close", "closed", "fill", "dust", "filled"} /\ locked' = locked,
         UNCHANGED <<size, price, before, sold, paid>>
  PROVE  Starting' /\ Opened'
<1>1. /\ RoundCanStart(before, MAX_INVESTORS, size, price)
      /\ sold \in Nat /\ paid \in Nat /\ (sold > 0 => paid > 0)
      /\ locked' = execute_round_start(before, MAX_INVESTORS, size, price)
  BY DEF Opened
<1> QED BY <1>1 DEF Starting, Opened

LEMMA StartNext == Given /\ Starting /\ Opened /\ [LoopNext]_loopVars => Starting' /\ Opened'
<1> SUFFICES ASSUME Given, Starting, Opened, [LoopNext]_loopVars PROVE Starting' /\ Opened'
  OBVIOUS
<1>1. CASE SelectTurn
  BY <1>1, SelectTurnStarts
<1>2. CASE SelectNobody
  BY <1>2, SelectNobodyStarts
<1>3. CASE LockSlot
  BY <1>3, LockSlotStarts
<1>4. CASE GapSlot
  BY <1>4, GapSlotStarts
<1>5. CASE \E waln \in 1 .. size : LoopSale(waln)
  BY <1>5, SaleStarts
<1>6. CASE BeginClose
  BY <1>6, SettlesStart DEF BeginClose
<1>7. CASE CloseSlot
  <2>1. pc = "close" /\ pc' \in {"close", "closed"} /\ UNCHANGED <<size, price, before, sold, paid, locked>>
    BY <1>7 DEF CloseSlot, NextSlot
  <2> QED BY <2>1, SettlesStart
<1>8. CASE BeginFill
  BY <1>8, SettlesStart DEF BeginFill
<1>9. CASE FillSlot
  <2>1. pc = "fill" /\ pc' \in {"fill", "dust"} /\ UNCHANGED <<size, price, before, sold, paid, locked>>
    BY <1>9 DEF FillSlot, NextSlot
  <2> QED BY <2>1, SettlesStart
<1>10. CASE \E dust \in Dusts, time \in Times : GiveDust(dust, time)
  <2>1. pc = "dust" /\ pc' = "filled" /\ UNCHANGED <<size, price, before, sold, paid, locked>>
    BY <1>10 DEF GiveDust
  <2> QED BY <2>1, SettlesStart
<1>11. CASE UNCHANGED loopVars
  BY <1>11 DEF Starting, Opened, loopVars, cap
<1> QED BY <1>1, <1>2, <1>3, <1>4, <1>5, <1>6, <1>7, <1>8, <1>9, <1>10, <1>11
        DEF LoopNext, Finished

-----------------------------------------------------------------------------
\* The selection is the greatest group that can pay

\* Once the selection is over nobody enters or leaves the group.
LEMMA SelectedStays ==
  ASSUME Selection, pc # "select", pc' # "select", E' = E, UNCHANGED <<size, price, before>>
  PROVE  Selection'
<1>1. /\ All' = All /\ cap' = cap /\ NonZero' = NonZero
      /\ \A S : CanPayTogether(S)' <=> CanPayTogether(S)
  BY SameGroups
<1>2. CanPayTogether(E)' <=> CanPayTogether(E)
  BY <1>1 DEF CanPayTogether
<1> QED BY <1>1, <1>2 DEF Selection

LEMMA SelectedNext ==
  Given /\ Selection /\ Starting /\ [LoopNext]_loopVars => Selection'
<1> SUFFICES ASSUME Given, Selection, Starting, [LoopNext]_loopVars PROVE Selection'
  OBVIOUS
<1>1. UNCHANGED <<size, price, before>>
  BY GivenSteps
<1>2. CASE SelectTurn
  <2>1. pool = before
    BY <1>2 DEF SelectTurn, Starting
  <2> QED BY <1>2, <2>1, SelectionNext
<1>3. CASE SelectNobody
  <2>1. /\ pool = before /\ SumOver(E, Volumes(before)) = 0 /\ E' = E /\ pc' = "refused"
    BY <1>3 DEF SelectNobody, Starting
  <2>2. E = {}
    BY <2>1, NoVolume DEF Selection
  <2>3. /\ All' = All /\ NonZero' = NonZero
        /\ \A S : CanPayTogether(S)' <=> CanPayTogether(S)
    BY <1>1, SameGroups
  <2>4. CanPayTogether(E)' /\ E' \subseteq NonZero'
    BY <2>1, <2>2 DEF CanPayTogether
  <2> QED BY <2>1, <2>3, <2>4 DEF Selection
<1>4. CASE UNCHANGED loopVars
  <2>1. UNCHANGED <<size, price, before, E, pc>>
    BY <1>4 DEF loopVars
  <2>2. /\ All' = All /\ cap' = cap /\ NonZero' = NonZero
        /\ \A S : CanPayTogether(S)' <=> CanPayTogether(S)
    BY <2>1, SameGroups
  <2>3. CanPayTogether(E)' <=> CanPayTogether(E)
    BY <2>1, <2>2 DEF CanPayTogether
  <2> QED BY <2>1, <2>2, <2>3 DEF Selection
<1>5. CASE \/ LockSlot \/ GapSlot \/ BeginClose \/ CloseSlot \/ BeginFill \/ FillSlot
           \/ \E waln \in 1 .. size : LoopSale(waln)
           \/ \E dust \in Dusts, time \in Times : GiveDust(dust, time)
  <2>1. pc # "select" /\ pc' # "select" /\ E' = E
    BY <1>5 DEF LockSlot, GapSlot, BeginClose, CloseSlot, BeginFill, FillSlot, LoopSale,
       GiveDust, NextSlot
  <2> QED BY <1>1, <2>1, SelectedStays
<1> QED BY <1>2, <1>3, <1>4, <1>5 DEF LoopNext, Finished

LEMMA SelectedInit == LoopInit => Selection
<1> SUFFICES ASSUME LoopInit PROVE Selection
  OBVIOUS
<1>1. E = All /\ pc = "select"
  BY DEF LoopInit, All
<1>2. NonZero \subseteq All
  BY NonZeroIs
<1> QED BY <1>1, <1>2 DEF Selection

\* Among the investors whose share of the cap is not zero when all eligible investors
\* take part, the participants are the greatest group that can pay together: the
\* turns of execute_round_start drop none of them who could have paid in such a
\* group, for pools of every size.  Who has a zero share in the first turn is
\* dropped for good, and no claim is made that it could not have paid later.
THEOREM SelectionCorrect == LoopSpec => []SelectionIsGreatest
<1>1. LoopInit => Given /\ Selection /\ Starting /\ Opened
  BY GivenInit, SelectedInit, StartInit
<1>2. Given /\ Selection /\ Starting /\ Opened /\ [LoopNext]_loopVars
        => (Given /\ Selection /\ Starting /\ Opened)'
  BY GivenNext, SelectedNext, StartNext
<1>3. Selection => SelectionIsGreatest
  BY DEF Selection, SelectionIsGreatest
<1> QED BY <1>1, <1>2, <1>3, PTL DEF LoopSpec

-----------------------------------------------------------------------------
\* Loops that settle

\* The pool with locks and without purchases that a settlement starts from.
IsLocked(inv) ==
  /\ inv \in [Slots -> SlotRecord]
  /\ \A s \in Slots : inv[s].usdc_committed = 0 /\ inv[s].waln_purchased_total = 0

LEMMA StartedPool ==
  ASSUME NEW inv, IsFresh(inv), NEW sz \in Nat, NEW pr \in Nat,
         RoundCanStart(inv, MAX_INVESTORS, sz, pr)
  PROVE  IsLocked(execute_round_start(inv, MAX_INVESTORS, sz, pr))
<1> DEFINE locks == NewLocks(inv, MAX_INVESTORS, sz, pr)
           Put(s) == [inv[s] EXCEPT
                        !.usdc_deposited = @ - locks[s],
                        !.usdc_locked_current_round = IF locks[s] > 0 THEN locks[s] ELSE @]
<1>1. \A s \in Slots : locks[s] \in 0 .. inv[s].usdc_deposited
  BY FreshNats, NewLocksBound
<1>2. execute_round_start(inv, MAX_INVESTORS, sz, pr) = [s \in Slots |-> Put(s)]
  BY DEF execute_round_start
<1> HIDE DEF locks
<1>3. ASSUME NEW s \in Slots
      PROVE  /\ Put(s) \in SlotRecord
             /\ Put(s).usdc_committed = 0 /\ Put(s).waln_purchased_total = 0
  <2>1. inv[s] \in SlotRecord /\ inv[s].usdc_committed = 0 /\ inv[s].waln_purchased_total = 0
        /\ inv[s].usdc_locked_current_round = 0 /\ inv[s].usdc_deposited \in Nat
    BY FreshSlot DEF IsFresh
  <2>2. locks[s] \in Nat /\ inv[s].usdc_deposited - locks[s] \in Nat
    BY <1>1, <2>1
  <2>3. (IF locks[s] > 0 THEN locks[s] ELSE inv[s].usdc_locked_current_round) = locks[s]
    BY <2>1, <2>2
  <2>4. [inv[s] EXCEPT !.usdc_deposited = @ - locks[s], !.usdc_locked_current_round = locks[s]]
          = SlotOf(inv[s], inv[s].usdc_deposited - locks[s], locks[s],
                   inv[s].usdc_committed, inv[s].waln_purchased_total)
    BY <2>1, <2>2, LockPut
  <2>5. Put(s) = SlotOf(inv[s], inv[s].usdc_deposited - locks[s], locks[s], 0, 0)
    BY <2>1, <2>3, <2>4
  <2> QED BY <2>1, <2>2, <2>5, SlotFields
<1> HIDE DEF Put
<1> QED BY <1>2, <1>3 DEF IsLocked

\* The loop has passed the slots before k, which are now as in T.
PassAt(L, T, k, pl) ==
  /\ pl \in [Slots -> SlotRecord]
  /\ \A s \in Slots : pl[s] = IF s < k THEN T[s] ELSE L[s]

LEMMA PassStart ==
  ASSUME NEW L \in [Slots -> SlotRecord], NEW T
  PROVE  PassAt(L, T, 1, L)
<1>1. \A s \in Slots : ~ s < 1
  BY RoundMathAssumption DEF Slots
<1> QED BY <1>1 DEF PassAt

LEMMA PassStep ==
  ASSUME NEW L, NEW T \in [Slots -> SlotRecord], NEW k \in Slots, NEW pl, PassAt(L, T, k, pl),
         NEW pl2, pl2 = [s \in Slots |-> pl2[s]], pl2[k] = T[k],
         \A s \in Slots : s # k => pl2[s] = pl[s]
  PROVE  PassAt(L, T, k + 1, pl2)
<1>1. \A s \in Slots : s # k => (s < k + 1 <=> s < k)
  BY RoundMathAssumption DEF Slots
<1>2. k < k + 1
  BY RoundMathAssumption DEF Slots
<1>3. \A s \in Slots : pl2[s] = IF s < k + 1 THEN T[s] ELSE L[s]
  BY <1>1, <1>2 DEF PassAt
<1>4. \A s \in Slots : pl2[s] \in SlotRecord
  BY DEF PassAt
<1> QED BY <1>3, <1>4 DEF PassAt

LEMMA PassEnd ==
  ASSUME NEW L, NEW T \in [Slots -> SlotRecord], NEW pl, PassAt(L, T, MAX_INVESTORS + 1, pl)
  PROVE  pl = T
<1>1. \A s \in Slots : s < MAX_INVESTORS + 1
  BY RoundMathAssumption DEF Slots
<1>2. \A s \in Slots : pl[s] = T[s]
  BY <1>1 DEF PassAt
<1> QED BY <1>2 DEF PassAt

-----------------------------------------------------------------------------
\* The forced close

Part(L) == {s \in Slots : IsParticipant(L, s)}

\* Slots that can be charged one unit more.
More(L, pd) == {s \in Slots : base_usdc_spent(L, pd)[s] < L[s].usdc_locked_current_round}

Rest(L, pd) == pd - Sum(base_usdc_spent(L, pd), MAX_INVESTORS)

Shares(L, pr, wn) ==
  [s \in Slots |-> (wn * base_waln(L, pr)[s]) \div Sum(base_waln(L, pr), MAX_INVESTORS)]

\* What close_round has checked when it starts to charge.
CanClose(L, pd, pr, wn) ==
  /\ IsLocked(L) /\ pd \in Nat /\ wn \in Nat /\ pr \in Nat /\ pr > 0
  /\ Sum(Locks(L), MAX_INVESTORS) > 0 /\ pd =< Sum(Locks(L), MAX_INVESTORS)
  /\ Sum(base_waln(L, pr), MAX_INVESTORS) > 0

LEMMA LockedSlot ==
  ASSUME NEW L, IsLocked(L), NEW s \in Slots
  PROVE  /\ L[s] \in SlotRecord
         /\ L[s].usdc_deposited \in Nat /\ L[s].usdc_locked_current_round \in Nat
         /\ L[s].usdc_committed = 0 /\ L[s].waln_purchased_total = 0
         /\ s \in Part(L) <=> L[s].usdc_locked_current_round > 0
BY DEF IsLocked, SlotRecord, Part, IsParticipant

LEMMA LockedNats == ASSUME NEW L, IsLocked(L) PROVE PoolOfNats(L)
BY DEF IsLocked, PoolOfNats, SlotRecord

LEMMA SpentIs ==
  ASSUME NEW L, NEW pd, NEW s \in Slots
  PROVE  close_round_usdc_spent(L, pd)[s] =
           base_usdc_spent(L, pd)[s]
             + IF s \in More(L, pd) /\ Passed(More(L, pd), s) < Rest(L, pd)
               THEN 1 ELSE 0
<1> DEFINE base == base_usdc_spent(L, pd)
           CanPayMore(j) == base[j] < L[j].usdc_locked_current_round
<1>1. Passed(More(L, pd), s) = Cardinality({j \in Slots : j < s /\ CanPayMore(j)})
  <2>1. {j \in More(L, pd) : j < s} = {j \in Slots : j < s /\ CanPayMore(j)}
    BY DEF More
  <2> QED BY <2>1 DEF Passed
<1>2. s \in More(L, pd) <=> CanPayMore(s)
  BY DEF More
<1>3. close_round_usdc_spent(L, pd)[s] =
        base[s] + IF CanPayMore(s) /\ Cardinality({j \in Slots : j < s /\ CanPayMore(j)}) < Rest(L, pd)
                  THEN 1 ELSE 0
  BY DEF close_round_usdc_spent, Rest
<1> HIDE DEF CanPayMore, base
<1> QED BY <1>1, <1>2, <1>3 DEF base

LEMMA AllocIs ==
  ASSUME NEW L, NEW pr, NEW wn, NEW s \in Slots
  PROVE  ClosedAllocs(L, pr, wn)[s] =
           IF s \in Part(L) /\ \A j \in Slots : j > s => j \notin Part(L)
           THEN wn - SumOver({j \in Slots : j < s}, Shares(L, pr, wn))
           ELSE Shares(L, pr, wn)[s]
BY DEF ClosedAllocs, Shares, Part

\* No charge exceeds its lock, no allocation is negative, and a slot without a lock
\* is charged and allocated nothing.
LEMMA CloseNumbers ==
  ASSUME NEW L, NEW pd, NEW pr, NEW wn, CanClose(L, pd, pr, wn)
  PROVE  /\ Rest(L, pd) \in 0 .. Cardinality(More(L, pd))
         /\ Sum(Shares(L, pr, wn), MAX_INVESTORS) \in 0 .. wn
         /\ \A s \in Slots :
              /\ base_usdc_spent(L, pd)[s] \in 0 .. L[s].usdc_locked_current_round
              /\ Shares(L, pr, wn)[s] \in Nat
              /\ close_round_usdc_spent(L, pd)[s] \in 0 .. L[s].usdc_locked_current_round
              /\ ClosedAllocs(L, pr, wn)[s] \in Nat
              /\ s \notin Part(L) => /\ Shares(L, pr, wn)[s] = 0 /\ s \notin More(L, pd)
                                     /\ close_round_usdc_spent(L, pd)[s] = 0
                                     /\ ClosedAllocs(L, pr, wn)[s] = 0
<1> DEFINE base == base_usdc_spent(L, pd)
           full == base_waln(L, pr)
           share == Shares(L, pr, wn)
<1>1. /\ IsLocked(L) /\ pd \in Nat /\ wn \in Nat /\ pr \in Nat /\ pr > 0
      /\ Sum(Locks(L), MAX_INVESTORS) > 0 /\ pd =< Sum(Locks(L), MAX_INVESTORS)
      /\ Sum(full, MAX_INVESTORS) > 0
  BY DEF CanClose
<1>2. /\ \A s \in Slots : base[s] \in Nat /\ base[s] =< L[s].usdc_locked_current_round
      /\ Rest(L, pd) \in 0 .. Cardinality(More(L, pd))
  BY <1>1, LockedNats, SpentFits DEF Rest, More
<1>3. \A s \in Slots : full[s] = WalnFor(L[s].usdc_locked_current_round, pr) /\ full[s] \in Nat
  BY <1>1, LockedSlot, WalnForNat DEF base_waln
<1>4. \A s \in Slots : share[s] = (wn * full[s]) \div Sum(full, MAX_INVESTORS)
  BY DEF Shares
<1> HIDE DEF full, share, base
<1>5. /\ \A s \in Slots : share[s] \in Nat /\ (full[s] = 0 => share[s] = 0)
      /\ Sum(share, MAX_INVESTORS) \in Nat
      /\ wn - Sum(share, MAX_INVESTORS) \in 0 .. (Cardinality({j \in Slots : full[j] > 0}) - 1)
  BY <1>1, <1>3, <1>4, PartsFit
<1>6. Sum(share, MAX_INVESTORS) \in 0 .. wn
  BY <1>1, <1>5
<1>7. ASSUME NEW s \in Slots
      PROVE  /\ base[s] \in 0 .. L[s].usdc_locked_current_round
             /\ share[s] \in Nat
             /\ close_round_usdc_spent(L, pd)[s] \in 0 .. L[s].usdc_locked_current_round
             /\ ClosedAllocs(L, pr, wn)[s] \in Nat
             /\ s \notin Part(L) => /\ share[s] = 0 /\ s \notin More(L, pd)
                                    /\ close_round_usdc_spent(L, pd)[s] = 0
                                    /\ ClosedAllocs(L, pr, wn)[s] = 0
  <2>1. L[s].usdc_locked_current_round \in Nat
    BY <1>1, LockedSlot
  <2>2. base[s] \in 0 .. L[s].usdc_locked_current_round
    BY <1>2, <2>1
  <2>3. /\ s \in More(L, pd) <=> base[s] < L[s].usdc_locked_current_round
        /\ \/ close_round_usdc_spent(L, pd)[s] = base[s] + 1 /\ s \in More(L, pd)
           \/ close_round_usdc_spent(L, pd)[s] = base[s] + 0
    BY SpentIs DEF More, base
  <2>4. close_round_usdc_spent(L, pd)[s] \in 0 .. L[s].usdc_locked_current_round
    BY <2>1, <2>2, <2>3
  <2>5. /\ SumOver({j \in Slots : j < s}, share) \in Nat
        /\ SumOver({j \in Slots : j < s}, share) =< Sum(share, MAX_INVESTORS)
    BY <1>5, TotalSteps
  <2>6. wn - SumOver({j \in Slots : j < s}, share) \in Nat
    BY <1>1, <1>6, <2>5
  <2>7. ClosedAllocs(L, pr, wn)[s] =
          IF s \in Part(L) /\ \A j \in Slots : j > s => j \notin Part(L)
          THEN wn - SumOver({j \in Slots : j < s}, share) ELSE share[s]
    BY AllocIs DEF share
  <2>8. ClosedAllocs(L, pr, wn)[s] \in Nat
    BY <1>5, <2>6, <2>7
  <2>9. ASSUME s \notin Part(L) PROVE share[s] = 0 /\ s \notin More(L, pd)
                                       /\ close_round_usdc_spent(L, pd)[s] = 0
                                       /\ ClosedAllocs(L, pr, wn)[s] = 0
    <3>1. L[s].usdc_locked_current_round = 0
      BY <1>1, <2>1, <2>9, LockedSlot
    <3>2. WalnFor(0, pr) = 0
      <4>1. 0 * waln_scale = 0 /\ 0 \div pr = 0
        BY <1>1, RoundMathAssumption
      <4> QED BY <4>1 DEF WalnFor
    <3>3. share[s] = 0
      BY <1>3, <1>5, <3>1, <3>2
    <3> QED BY <2>2, <2>3, <2>4, <2>7, <2>9, <3>1, <3>3
  <2> QED BY <1>5, <2>2, <2>4, <2>8, <2>9
<1> QED BY <1>2, <1>6, <1>7 DEF base, share

Closed(L, pd, pr, wn) == ClosedPool(L, close_round_usdc_spent(L, pd), ClosedAllocs(L, pr, wn))

\* The slot r after it is charged sp and allotted al.
ChargedSlot(r, sp, al) ==
  [r EXCEPT !.usdc_deposited = @ + (r.usdc_locked_current_round - sp),
            !.usdc_committed = @ + sp,
            !.waln_purchased_total = @ + al,
            !.usdc_locked_current_round = 0]

LEMMA ClosedPut ==
  ASSUME NEW L, NEW pd, NEW pr, NEW wn, NEW s \in Slots
  PROVE  Closed(L, pd, pr, wn)[s]
           = ChargedSlot(L[s], close_round_usdc_spent(L, pd)[s], ClosedAllocs(L, pr, wn)[s])
BY DEF Closed, ClosedPool, ChargedSlot

LEMMA ClosedSlots ==
  ASSUME NEW L, NEW pd, NEW pr, NEW wn, CanClose(L, pd, pr, wn)
  PROVE  /\ Closed(L, pd, pr, wn) \in [Slots -> SlotRecord]
         /\ \A s \in Slots :
              /\ Closed(L, pd, pr, wn)[s].usdc_committed = close_round_usdc_spent(L, pd)[s]
              /\ s \notin Part(L) => Closed(L, pd, pr, wn)[s] = L[s]
<1> DEFINE Spent(j) == close_round_usdc_spent(L, pd)[j]
           Alloc(j) == ClosedAllocs(L, pr, wn)[j]
           T == Closed(L, pd, pr, wn)
           Put(j) == [L[j] EXCEPT
                        !.usdc_deposited = @ + (L[j].usdc_locked_current_round - Spent(j)),
                        !.usdc_committed = @ + Spent(j),
                        !.waln_purchased_total = @ + Alloc(j),
                        !.usdc_locked_current_round = 0]
<1>1. T = [j \in Slots |-> Put(j)]
  BY DEF Closed, ClosedPool
<1>2. IsLocked(L)
  BY DEF CanClose
<1>3. ASSUME NEW j \in Slots
      PROVE  /\ Put(j) \in SlotRecord /\ Put(j).usdc_committed = Spent(j)
             /\ j \notin Part(L) => Put(j) = L[j]
  <2>1. /\ L[j] \in SlotRecord /\ L[j].usdc_deposited \in Nat
        /\ L[j].usdc_locked_current_round \in Nat
        /\ L[j].usdc_committed = 0 /\ L[j].waln_purchased_total = 0
        /\ j \in Part(L) <=> L[j].usdc_locked_current_round > 0
    BY <1>2, LockedSlot
  <2>2. /\ Spent(j) \in 0 .. L[j].usdc_locked_current_round /\ Alloc(j) \in Nat
        /\ j \notin Part(L) => Spent(j) = 0 /\ Alloc(j) = 0
    BY CloseNumbers
  <2> HIDE DEF Spent, Alloc
  <2>3. PICK x \in Nat, y \in Nat, z \in Nat :
          /\ x = L[j].usdc_deposited + (L[j].usdc_locked_current_round - Spent(j))
          /\ y = L[j].usdc_committed + Spent(j) /\ z = L[j].waln_purchased_total + Alloc(j)
          /\ y = Spent(j) /\ z = Alloc(j)
    <3>1. L[j].usdc_deposited + (L[j].usdc_locked_current_round - Spent(j)) \in Nat
          /\ Spent(j) \in Nat /\ Alloc(j) \in Nat
      BY <2>1, <2>2
    <3>2. L[j].usdc_committed + Spent(j) = Spent(j) /\ L[j].waln_purchased_total + Alloc(j) = Alloc(j)
      BY <2>1, <3>1
    <3> QED BY <3>1, <3>2
  <2>4. [L[j] EXCEPT !.usdc_deposited = x, !.usdc_committed = y,
                     !.waln_purchased_total = z, !.usdc_locked_current_round = 0]
          = SlotOf(L[j], x, 0, y, z)
    <3> DEFINE q == [L[j] EXCEPT !.usdc_deposited = x, !.usdc_committed = y,
                                 !.waln_purchased_total = z, !.usdc_locked_current_round = 0]
    <3>1. L[j] \in SlotRecord
      BY <2>1
    <3>2. Reads(L[j], q, x, 0, y, z)
      BY <3>1 DEF Reads, SlotRecord
    <3> HIDE DEF q
    <3>3. q = SlotOf(L[j], x, 0, y, z)
      BY <3>2, ReadsIs
    <3> QED BY <3>3 DEF q
  <2>5. Put(j) = SlotOf(L[j], x, 0, y, z)
    BY <2>3, <2>4
  <2> HIDE DEF Put
  <2>6. Put(j) \in SlotRecord /\ Put(j).usdc_committed = Spent(j)
    <3>1. L[j] \in SlotRecord /\ 0 \in Nat
      BY <2>1
    <3>2. /\ SlotOf(L[j], x, 0, y, z) \in SlotRecord
          /\ SlotOf(L[j], x, 0, y, z).usdc_committed = y
      BY <3>1, SlotFields
    <3> QED BY <2>3, <2>5, <3>2
  <2>7. ASSUME j \notin Part(L) PROVE Put(j) = L[j]
    <3>1. x = L[j].usdc_deposited /\ y = 0 /\ z = 0 /\ L[j].usdc_locked_current_round = 0
      BY <2>1, <2>2, <2>3, <2>7
    <3> QED BY <2>1, <2>5, <3>1, SlotSame
  <2> QED BY <2>6, <2>7
<1> HIDE DEF Put, T
<1>4. \A s \in Slots : T[s] = Put(s)
  BY <1>1
<1>5. T \in [Slots -> SlotRecord]
  BY <1>1, <1>3
<1>6. \A s \in Slots : T[s].usdc_committed = Spent(s) /\ (s \notin Part(L) => T[s] = L[s])
  BY <1>3, <1>4
<1> QED BY <1>5, <1>6 DEF T

\* The running totals when the loop is at slot k.
CloseTotals(L, pd, pr, wn, k) ==
  [usdc |-> Greatest(0, Rest(L, pd) - Passed(More(L, pd), k)),
   waln |-> IF \E j \in Part(L) : j >= k
            THEN wn - SumOver({j \in Slots : j < k}, Shares(L, pr, wn)) ELSE 0,
   n    |-> Passed(Part(L), k)]

\* What the loop charges and allots at slot k.
ChargeAt(L, pd, ac, k) ==
  base_usdc_spent(L, pd)[k]
    + IF ac.usdc > 0 /\ base_usdc_spent(L, pd)[k] < L[k].usdc_locked_current_round
      THEN 1 ELSE 0

AllotAt(L, pr, wn, ac, k) ==
  IF ac.n + 1 = participant_count(L) THEN ac.waln
  ELSE (wn * base_waln(L, pr)[k]) \div Sum(base_waln(L, pr), MAX_INVESTORS)

NextTotals(L, pd, pr, wn, ac, k) ==
  [usdc |-> ac.usdc - (ChargeAt(L, pd, ac, k) - base_usdc_spent(L, pd)[k]),
   waln |-> ac.waln - AllotAt(L, pr, wn, ac, k),
   n    |-> ac.n + 1]

\* At a participant that is what RoundMath says, and the totals move on; at the
\* other slots the totals stay.
LEMMA CloseCharge ==
  ASSUME NEW L, NEW pd, NEW pr, NEW wn, CanClose(L, pd, pr, wn), NEW k \in Slots,
         NEW ac, ac = CloseTotals(L, pd, pr, wn, k)
  PROVE  /\ k \in Part(L) =>
              /\ ChargeAt(L, pd, ac, k) = close_round_usdc_spent(L, pd)[k]
              /\ AllotAt(L, pr, wn, ac, k) = ClosedAllocs(L, pr, wn)[k]
              /\ NextTotals(L, pd, pr, wn, ac, k) = CloseTotals(L, pd, pr, wn, k + 1)
         /\ k \notin Part(L) => ac = CloseTotals(L, pd, pr, wn, k + 1)
<1> DEFINE P == Part(L)
           M == More(L, pd)
           rest == Rest(L, pd)
           share == Shares(L, pr, wn)
           base == base_usdc_spent(L, pd)
           cp(m) == Passed(P, m)
           cm(m) == Passed(M, m)
           tot(m) == SumOver({j \in Slots : j < m}, share)
           sp == ChargeAt(L, pd, ac, k)
           al == AllotAt(L, pr, wn, ac, k)
<1>1. P \in SUBSET Slots /\ M \in SUBSET Slots /\ wn \in Nat
  BY DEF Part, More, CanClose
<1>2. /\ rest \in Nat /\ base[k] \in Nat /\ \A s \in Slots : share[s] \in Nat
      /\ k \notin P => share[k] = 0 /\ k \notin M
  <2>1. Cardinality(M) \in Nat
    BY <1>1, CountEnds
  <2>2. rest \in 0 .. Cardinality(M) /\ base[k] \in 0 .. L[k].usdc_locked_current_round
    BY CloseNumbers
  <2>3. L[k].usdc_locked_current_round \in Nat
    BY LockedSlot DEF CanClose
  <2>4. (\A s \in Slots : share[s] \in Nat) /\ (k \notin P => share[k] = 0 /\ k \notin M)
    BY CloseNumbers
  <2> HIDE DEF rest, base, M
  <2> QED BY <2>1, <2>2, <2>3, <2>4
<1>3. /\ cp(k) \in Nat /\ cp(k + 1) = cp(k) + IF k \in P THEN 1 ELSE 0
      /\ cm(k) \in Nat /\ cm(k + 1) = cm(k) + IF k \in M THEN 1 ELSE 0
  BY <1>1, CountSteps
<1>4. tot(k) \in Nat /\ tot(k + 1) = tot(k) + share[k]
  BY <1>2, TotalSteps
<1>5. /\ ac.usdc = Greatest(0, rest - cm(k))
      /\ ac.waln = IF \E j \in P : j >= k THEN wn - tot(k) ELSE 0
      /\ ac.n = cp(k)
      /\ ac = [usdc |-> ac.usdc, waln |-> ac.waln, n |-> ac.n]
  BY DEF CloseTotals
<1>6. k \in M <=> base[k] < L[k].usdc_locked_current_round
  BY DEF More
<1>7. participant_count(L) = Cardinality(P) /\ Cardinality(P) \in Nat
  BY <1>1, CountEnds DEF participant_count, Part
<1>8. share[k] = (wn * base_waln(L, pr)[k]) \div Sum(base_waln(L, pr), MAX_INVESTORS)
  BY DEF Shares
<1>9. close_round_usdc_spent(L, pd)[k] = base[k] + IF k \in M /\ cm(k) < rest THEN 1 ELSE 0
  BY SpentIs
<1>10. ClosedAllocs(L, pr, wn)[k] =
         IF k \in P /\ \A j \in Slots : j > k => j \notin P THEN wn - tot(k) ELSE share[k]
  BY AllocIs
<1>11. CloseTotals(L, pd, pr, wn, k + 1) =
         [usdc |-> Greatest(0, rest - cm(k + 1)),
          waln |-> IF \E j \in P : j >= k + 1 THEN wn - tot(k + 1) ELSE 0,
          n |-> cp(k + 1)]
  BY DEF CloseTotals
<1>12. k \in P => (cp(k) + 1 = Cardinality(P) <=> \A j \in Slots : j > k => j \notin P)
  BY <1>1, CountLast
<1>13. \A j \in P : j \in Int /\ k \in Int /\ (j >= k + 1 <=> j > k) /\ (j >= k <=> j > k \/ j = k)
  BY <1>1, RoundMathAssumption DEF Slots
<1> HIDE DEF P, M, rest, share, base, cp, cm, tot, sp, al
<1>14. (\A j \in Slots : j > k => j \notin P) <=> ~ \E j \in P : j >= k + 1
  BY <1>1, <1>13
<1>15. ASSUME k \in P
       PROVE  /\ sp = close_round_usdc_spent(L, pd)[k] /\ al = ClosedAllocs(L, pr, wn)[k]
              /\ [usdc |-> ac.usdc - (sp - base[k]), waln |-> ac.waln - al, n |-> ac.n + 1]
                   = CloseTotals(L, pd, pr, wn, k + 1)
  <2>1. ac.waln = wn - tot(k)
    BY <1>5, <1>13, <1>15
  <2>2. ac.usdc > 0 <=> cm(k) < rest
    BY <1>2, <1>3, <1>5 DEF Greatest
  <2>3. sp = close_round_usdc_spent(L, pd)[k]
    BY <1>6, <1>9, <2>2 DEF base, sp, ChargeAt
  <2>4. al = ClosedAllocs(L, pr, wn)[k]
    BY <1>5, <1>7, <1>8, <1>10, <1>12, <1>15, <2>1 DEF al, AllotAt
  <2>5. ac.usdc - (sp - base[k]) = Greatest(0, rest - cm(k + 1))
    BY <1>2, <1>3, <1>5, <1>9, <2>3 DEF Greatest
  <2>6. ac.waln - al = IF \E j \in P : j >= k + 1 THEN wn - tot(k + 1) ELSE 0
    <3>1. CASE \E j \in P : j >= k + 1
      <4>1. al = share[k]
        BY <1>10, <1>14, <2>4, <3>1
      <4>2. share[k] \in Nat
        BY <1>2
      <4> QED BY <1>1, <1>4, <2>1, <3>1, <4>1, <4>2
    <3>2. CASE ~ \E j \in P : j >= k + 1
      <4>1. al = wn - tot(k)
        BY <1>10, <1>14, <1>15, <2>4, <3>2
      <4> QED BY <1>1, <1>4, <2>1, <3>2, <4>1
    <3> QED BY <3>1, <3>2
  <2>7. ac.n + 1 = cp(k + 1)
    BY <1>3, <1>5, <1>15
  <2> QED BY <1>11, <2>3, <2>4, <2>5, <2>6, <2>7
<1>16. ASSUME k \notin P PROVE ac = CloseTotals(L, pd, pr, wn, k + 1)
  <2>1. cp(k + 1) = cp(k) /\ cm(k + 1) = cm(k) /\ tot(k + 1) = tot(k)
    BY <1>2, <1>3, <1>4, <1>16
  <2>2. (\E j \in P : j >= k) <=> \E j \in P : j >= k + 1
    BY <1>13, <1>16
  <2> QED BY <1>5, <1>11, <2>1, <2>2
<1> QED BY <1>15, <1>16 DEF P, base, sp, al, NextTotals

LEMMA CloseBegin ==
  ASSUME NEW L, NEW pd, NEW pr, NEW wn, CanClose(L, pd, pr, wn)
  PROVE  [usdc |-> pd - Sum(base_usdc_spent(L, pd), MAX_INVESTORS), waln |-> wn, n |-> 0]
           = CloseTotals(L, pd, pr, wn, 1)
<1>1. Part(L) \in SUBSET Slots /\ More(L, pd) \in SUBSET Slots /\ wn \in Nat /\ pr \in Nat /\ pr > 0
  BY DEF Part, More, CanClose
<1>2. Passed(Part(L), 1) = 0 /\ Passed(More(L, pd), 1) = 0 /\ Cardinality(More(L, pd)) \in Nat
  BY <1>1, CountEnds
<1>3. Greatest(0, Rest(L, pd) - 0) = Rest(L, pd)
  <2>1. Rest(L, pd) \in 0 .. Cardinality(More(L, pd))
    BY CloseNumbers
  <2> QED BY <1>2, <2>1 DEF Greatest
<1>4. wn - SumOver({j \in Slots : j < 1}, Shares(L, pr, wn)) = wn
  BY <1>1, TotalEnds
<1>5. \E j \in Part(L) : j >= 1
  <2> SUFFICES ASSUME Part(L) = {} PROVE FALSE
    BY <1>1, RoundMathAssumption DEF Slots
  <2> DEFINE full == base_waln(L, pr)
  <2>1. \A s \in Slots : full[s] = 0
    <3>1. ASSUME NEW s \in Slots PROVE L[s].usdc_locked_current_round = 0
      BY LockedSlot DEF CanClose
    <3>2. WalnFor(0, pr) = 0
      <4>1. 0 * waln_scale = 0 /\ 0 \div pr = 0
        BY <1>1, RoundMathAssumption
      <4> QED BY <4>1 DEF WalnFor
    <3> QED BY <3>1, <3>2 DEF base_waln
  <2> HIDE DEF full
  <2>2. Sum(full, MAX_INVESTORS) = 0
    BY <2>1, SumZeros, RoundMathAssumption DEF Slots
  <2> QED BY <2>2 DEF CanClose, full
<1> QED BY <1>2, <1>3, <1>4, <1>5 DEF CloseTotals, Rest

\* The totals never go below zero, and nothing is left at the end.
LEMMA CloseSigns ==
  ASSUME NEW L, NEW pd, NEW pr, NEW wn, CanClose(L, pd, pr, wn)
  PROVE  /\ \A k \in Slots : /\ CloseTotals(L, pd, pr, wn, k).usdc >= 0
                             /\ CloseTotals(L, pd, pr, wn, k).waln >= 0
         /\ CloseTotals(L, pd, pr, wn, MAX_INVESTORS + 1).usdc = 0
         /\ CloseTotals(L, pd, pr, wn, MAX_INVESTORS + 1).waln = 0
<1> DEFINE share == Shares(L, pr, wn)
           M == More(L, pd)
           rest == Rest(L, pd)
<1>1. Part(L) \in SUBSET Slots /\ M \in SUBSET Slots /\ wn \in Nat
  BY DEF Part, More, CanClose
<1>2. Passed(M, MAX_INVESTORS + 1) = Cardinality(M) /\ Cardinality(M) \in Nat
  BY <1>1, CountEnds
<1>3. /\ rest \in 0 .. Cardinality(M) /\ Sum(share, MAX_INVESTORS) \in 0 .. wn
      /\ \A s \in Slots : share[s] \in Nat
  BY CloseNumbers
<1> HIDE DEF share, M, rest
<1>4. ASSUME NEW k \in Slots
      PROVE  /\ CloseTotals(L, pd, pr, wn, k).usdc >= 0
             /\ CloseTotals(L, pd, pr, wn, k).waln >= 0
  <2>1. /\ SumOver({j \in Slots : j < k}, share) \in Nat
        /\ SumOver({j \in Slots : j < k}, share) =< Sum(share, MAX_INVESTORS)
    BY <1>3, TotalSteps
  <2>2. wn - SumOver({j \in Slots : j < k}, share) >= 0
    BY <1>1, <1>3, <2>1
  <2>3. Passed(M, k) \in Nat
    BY <1>1, CountSteps
  <2>4. Greatest(0, rest - Passed(M, k)) >= 0
    BY <1>2, <1>3, <2>3 DEF Greatest
  <2> QED BY <2>2, <2>4 DEF CloseTotals, share, rest, M
<1>5. Greatest(0, rest - Passed(M, MAX_INVESTORS + 1)) = 0
  BY <1>2, <1>3 DEF Greatest
<1>6. ~ \E j \in Part(L) : j >= MAX_INVESTORS + 1
  BY <1>1, RoundMathAssumption DEF Slots
<1> QED BY <1>4, <1>5, <1>6 DEF CloseTotals, rest, M

\* Where the forced close is.
Closing ==
  /\ pc \in {"close", "closed"} => CanClose(locked, paid, price, sold)
  /\ pc = "close" =>
       /\ i \in Slots
       /\ PassAt(locked, Closed(locked, paid, price, sold), i, pool)
       /\ acc = CloseTotals(locked, paid, price, sold, i)
  /\ pc = "closed" =>
       /\ PassAt(locked, Closed(locked, paid, price, sold), MAX_INVESTORS + 1, pool)
       /\ acc = CloseTotals(locked, paid, price, sold, MAX_INVESTORS + 1)

LEMMA BeginCloses == Given /\ Opened /\ BeginClose => Closing'
<1> SUFFICES ASSUME Given, Opened, BeginClose PROVE Closing'
  OBVIOUS
<1>1. /\ pc = "open" /\ pc' = "close" /\ locked' = pool /\ pool' = pool /\ i' = i
      /\ sold' = sold /\ paid' = paid /\ price' = price
      /\ sold \in 1 .. (size - 1)
      /\ Sum(base_waln(pool, price), MAX_INVESTORS) > 0
      /\ paid =< Sum(Locks(pool), MAX_INVESTORS)
      /\ acc' = [usdc |-> paid - Sum(base_usdc_spent(pool, paid), MAX_INVESTORS),
                 waln |-> sold, n |-> 0]
  BY DEF BeginClose
<1>2. /\ i = 1 /\ pool = execute_round_start(before, MAX_INVESTORS, size, price)
      /\ RoundCanStart(before, MAX_INVESTORS, size, price)
      /\ sold \in Nat /\ paid \in Nat /\ paid > 0
  <2>1. /\ i = 1 /\ pool = execute_round_start(before, MAX_INVESTORS, size, price)
        /\ RoundCanStart(before, MAX_INVESTORS, size, price)
        /\ sold \in Nat /\ paid \in Nat /\ (sold > 0 => paid > 0)
    BY <1>1 DEF Opened
  <2>2. sold > 0
    BY <1>1, <2>1 DEF Given
  <2> QED BY <2>1, <2>2
<1>3. IsLocked(pool)
  BY <1>2, StartedPool DEF Given
<1>4. Sum(Locks(pool), MAX_INVESTORS) > 0
  <2> DEFINE f == Locks(pool)
  <2>1. \A s \in 1 .. MAX_INVESTORS : f[s] \in Int
    BY <1>3, LockedSlot DEF Locks, Slots
  <2> HIDE DEF f
  <2>2. Sum(f, MAX_INVESTORS) \in Int
    BY <2>1, SumInt, RoundMathAssumption
  <2> QED BY <1>1, <1>2, <2>2 DEF f
<1>5. CanClose(pool, paid, price, sold)
  BY <1>1, <1>2, <1>3, <1>4, CapNat DEF CanClose, Given
<1>6. acc' = CloseTotals(pool, paid, price, sold, 1)
  BY <1>1, <1>5, CloseBegin
<1>7. PassAt(pool, Closed(pool, paid, price, sold), 1, pool)
  BY <1>3, PassStart DEF IsLocked
<1> QED BY <1>1, <1>2, <1>5, <1>6, <1>7, OneSlot DEF Closing

LEMMA CloseSlotCloses == Closing /\ CloseSlot => Closing'
<1> SUFFICES ASSUME Closing, CloseSlot PROVE Closing'
  OBVIOUS
<1> DEFINE T == Closed(locked, paid, price, sold)
           spent == ChargeAt(locked, paid, acc, i)
           alloc == AllotAt(locked, price, sold, acc, i)
           tot(k) == CloseTotals(locked, paid, price, sold, k)
<1>1. pc = "close"
  BY DEF CloseSlot
<1>2. /\ CanClose(locked, paid, price, sold) /\ i \in Slots
      /\ PassAt(locked, T, i, pool) /\ acc = tot(i)
  BY <1>1 DEF Closing
<1>3. spent = usdc_spent_at(i) /\ alloc = waln_alloc_at(i)
  BY DEF ChargeAt, AllotAt, usdc_spent_at, waln_alloc_at
<1>4. i \in Part(locked) <=> IsParticipant(locked, i)
  BY <1>2 DEF Part
<1>5. /\ IF i \in Part(locked)
         THEN /\ pool' = [pool EXCEPT
                   ![i].usdc_deposited = @ + (locked[i].usdc_locked_current_round - spent),
                   ![i].usdc_committed = @ + spent,
                   ![i].waln_purchased_total = @ + alloc,
                   ![i].usdc_locked_current_round = 0]
              /\ acc' = NextTotals(locked, paid, price, sold, acc, i)
         ELSE pool' = pool /\ acc' = acc
      /\ NextSlot("closed")
      /\ UNCHANGED <<size, price, before, E, sold, paid, locked>>
  BY <1>3, <1>4, Zenon DEF CloseSlot, NextTotals
<1>6. acc' = tot(i + 1)
  BY <1>2, <1>5, CloseCharge
<1>7. T \in [Slots -> SlotRecord] /\ (i \notin Part(locked) => T[i] = locked[i])
  BY <1>2, ClosedSlots
<1>8. pool \in [Slots -> SlotRecord] /\ pool[i] = locked[i]
  <2>1. ~ i < i
    BY <1>2, RoundMathAssumption DEF Slots
  <2> QED BY <1>2, <2>1 DEF PassAt
<1>9. PassAt(locked, T, i + 1, pool')
  <2>1. CASE i \in Part(locked)
    <3>1. spent = close_round_usdc_spent(locked, paid)[i] /\ alloc = ClosedAllocs(locked, price, sold)[i]
      BY <1>2, <2>1, CloseCharge
    <3>2. T[i] = ChargedSlot(locked[i], spent, alloc)
      BY <1>2, <3>1, ClosedPut
    <3> HIDE DEF T, spent, alloc
    <3>3. \A s \in Slots : pool'[s] =
            IF s = i THEN [pool[i] EXCEPT
                    !.usdc_deposited = @ + (locked[i].usdc_locked_current_round - spent),
                    !.usdc_committed = @ + spent,
                    !.waln_purchased_total = @ + alloc,
                    !.usdc_locked_current_round = 0]
            ELSE pool[s]
      BY <1>2, <1>5, <1>8, <2>1
    <3>4. pool' = [s \in Slots |-> pool'[s]]
      BY <1>5, <1>8, <2>1
    <3>5. pool'[i] = T[i] /\ \A s \in Slots : s # i => pool'[s] = pool[s]
      BY <1>2, <1>8, <3>2, <3>3 DEF ChargedSlot
    <3> QED BY <1>2, <1>7, <3>4, <3>5, PassStep
  <2>2. CASE i \notin Part(locked)
    <3>1. pool' = pool /\ pool[i] = T[i] /\ pool = [s \in Slots |-> pool[s]]
      BY <1>5, <1>7, <1>8, <2>2
    <3> HIDE DEF T
    <3> QED BY <1>2, <1>7, <3>1, PassStep
  <2> QED BY <2>1, <2>2
<1>10. CASE i = MAX_INVESTORS
  BY <1>2, <1>5, <1>6, <1>9, <1>10 DEF NextSlot, Closing
<1>11. CASE i # MAX_INVESTORS
  <2>1. i + 1 \in Slots
    BY <1>2, <1>11, RoundMathAssumption DEF Slots
  <2> QED BY <1>1, <1>2, <1>5, <1>6, <1>9, <1>11, <2>1 DEF NextSlot, Closing
<1> QED BY <1>10, <1>11

LEMMA ClosingNext == Given /\ Opened /\ Closing /\ [LoopNext]_loopVars => Closing'
<1> SUFFICES ASSUME Given, Opened, Closing, [LoopNext]_loopVars PROVE Closing'
  OBVIOUS
<1>1. CASE BeginClose
  BY <1>1, BeginCloses
<1>2. CASE CloseSlot
  BY <1>2, CloseSlotCloses
<1>3. CASE UNCHANGED loopVars
  BY <1>3 DEF Closing, loopVars
<1>4. CASE \/ SelectTurn \/ SelectNobody \/ LockSlot \/ GapSlot \/ BeginFill \/ FillSlot
           \/ \E waln \in 1 .. size : LoopSale(waln)
           \/ \E dust \in Dusts, time \in Times : GiveDust(dust, time)
  <2>1. pc' \notin {"close", "closed"}
    BY <1>4 DEF SelectTurn, SelectNobody, LockSlot, GapSlot, BeginFill, FillSlot, LoopSale,
       GiveDust, NextSlot
  <2> QED BY <2>1 DEF Closing
<1> QED BY <1>1, <1>2, <1>3, <1>4 DEF LoopNext, Finished

LEMMA ClosingBalances == Closing => CloseBalances
<1> SUFFICES ASSUME Closing, pc \in {"close", "closed"}
             PROVE  /\ acc.usdc >= 0 /\ acc.waln >= 0
                    /\ \A s \in Slots :
                         pool[s].usdc_committed =< locked[s].usdc_locked_current_round
                    /\ pc = "closed" => acc.usdc = 0 /\ acc.waln = 0
  BY DEF CloseBalances
<1> DEFINE T == Closed(locked, paid, price, sold)
<1>1. CanClose(locked, paid, price, sold)
  BY DEF Closing
<1>2. PICK k : PassAt(locked, T, k, pool)
  BY DEF Closing
<1>3. ASSUME NEW s \in Slots
      PROVE  pool[s].usdc_committed =< locked[s].usdc_locked_current_round
  <2>1. pool[s] = T[s] \/ pool[s] = locked[s]
    BY <1>2 DEF PassAt
  <2>2. T[s].usdc_committed = close_round_usdc_spent(locked, paid)[s]
    BY <1>1, ClosedSlots
  <2>3. close_round_usdc_spent(locked, paid)[s] \in 0 .. locked[s].usdc_locked_current_round
    BY <1>1, CloseNumbers
  <2>4. locked[s].usdc_committed = 0 /\ locked[s].usdc_locked_current_round \in Nat
    BY <1>1, LockedSlot DEF CanClose
  <2> HIDE DEF T
  <2> QED BY <2>1, <2>2, <2>3, <2>4
<1>4. /\ acc.usdc >= 0 /\ acc.waln >= 0
      /\ pc = "closed" => acc.usdc = 0 /\ acc.waln = 0
  <2>1. CASE pc = "close"
    BY <1>1, <2>1, CloseSigns DEF Closing
  <2>2. CASE pc = "closed"
    BY <1>1, <2>2, CloseSigns DEF Closing
  <2> QED BY <2>1, <2>2
<1> QED BY <1>3, <1>4

\* The charging loop of close_round never overdraws a lock or a running total, and
\* leaves neither USDC nor wALN over, for pools and rounds of every size.
THEOREM BalancesCorrect == LoopSpec => []CloseBalances
<1>1. LoopInit => Given /\ Starting /\ Opened /\ Closing
  BY GivenInit, StartInit DEF LoopInit, Closing
<1>2. Given /\ Starting /\ Opened /\ Closing /\ [LoopNext]_loopVars
        => (Given /\ Starting /\ Opened /\ Closing)'
  BY GivenNext, StartNext, ClosingNext
<1> QED BY <1>1, <1>2, ClosingBalances, PTL DEF LoopSpec

-----------------------------------------------------------------------------
\* The filled round

\* The slot r after it has spent y and bought z, as FillSlot and as FilledPool
\* write it.
SpentSlot(r, y, z) ==
  [r EXCEPT !.usdc_committed = @ + y, !.usdc_locked_current_round = 0,
            !.waln_purchased_total = @ + z]

FilledSlot(r, y, z) ==
  [r EXCEPT !.usdc_committed = @ + y, !.waln_purchased_total = @ + z,
            !.usdc_locked_current_round = 0]

DustedSlot(r, z) == [r EXCEPT !.waln_purchased_total = @ + z]

LEMMA FilledPut ==
  ASSUME NEW r \in SlotRecord, r.usdc_committed = 0, r.waln_purchased_total = 0,
         NEW y \in Nat, NEW z \in Nat
  PROVE  /\ SpentSlot(r, y, z) = SlotOf(r, r.usdc_deposited, 0, y, z)
         /\ FilledSlot(r, y, z) = SlotOf(r, r.usdc_deposited, 0, y, z)
<1> DEFINE q == [r EXCEPT !.usdc_committed = y, !.usdc_locked_current_round = 0,
                          !.waln_purchased_total = z]
           p == [r EXCEPT !.usdc_committed = y, !.waln_purchased_total = z,
                          !.usdc_locked_current_round = 0]
<1>1. r.usdc_committed + y = y /\ r.waln_purchased_total + z = z
  OBVIOUS
<1>2. Reads(r, q, r.usdc_deposited, 0, y, z)
  BY DEF Reads, SlotRecord
<1>3. Reads(r, p, r.usdc_deposited, 0, y, z)
  BY DEF Reads, SlotRecord
<1>4. SpentSlot(r, y, z) = q
  BY <1>1 DEF SpentSlot
<1>5. FilledSlot(r, y, z) = p
  BY <1>1 DEF FilledSlot
<1> HIDE DEF q, p
<1>6. q = SlotOf(r, r.usdc_deposited, 0, y, z) /\ p = SlotOf(r, r.usdc_deposited, 0, y, z)
  BY <1>2, <1>3, ReadsIs
<1> QED BY <1>4, <1>5, <1>6

LEMMA FilledSlots ==
  ASSUME NEW L, IsLocked(L), NEW al, \A s \in Slots : al[s] \in Nat
  PROVE  /\ FilledPool(L, al) \in [Slots -> SlotRecord]
         /\ \A s \in Slots : FilledPool(L, al)[s] =
              SlotOf(L[s], L[s].usdc_deposited, 0, L[s].usdc_locked_current_round, al[s])
<1> DEFINE T == FilledPool(L, al)
           Put(s) == FilledSlot(L[s], L[s].usdc_locked_current_round, al[s])
<1>1. T = [s \in Slots |-> Put(s)]
  BY DEF FilledPool, FilledSlot
<1>2. ASSUME NEW s \in Slots
      PROVE  /\ Put(s) = SlotOf(L[s], L[s].usdc_deposited, 0, L[s].usdc_locked_current_round, al[s])
             /\ Put(s) \in SlotRecord
  <2>1. /\ L[s] \in SlotRecord /\ L[s].usdc_deposited \in Nat
        /\ L[s].usdc_locked_current_round \in Nat /\ al[s] \in Nat /\ 0 \in Nat
        /\ L[s].usdc_committed = 0 /\ L[s].waln_purchased_total = 0
    BY LockedSlot
  <2>2. Put(s) = SlotOf(L[s], L[s].usdc_deposited, 0, L[s].usdc_locked_current_round, al[s])
    BY <2>1, FilledPut
  <2>3. SlotOf(L[s], L[s].usdc_deposited, 0, L[s].usdc_locked_current_round, al[s]) \in SlotRecord
    BY <2>1, SlotFields
  <2> QED BY <2>2, <2>3
<1> HIDE DEF Put, T
<1>3. T \in [Slots -> SlotRecord] /\ \A s \in Slots : T[s] = Put(s)
  BY <1>1, <1>2
<1> QED BY <1>2, <1>3 DEF T

LEMMA BoughtNats ==
  ASSUME NEW L, IsLocked(L), NEW pr \in Nat, pr > 0, NEW s \in Slots
  PROVE  /\ base_waln(L, pr)[s] = WalnFor(L[s].usdc_locked_current_round, pr)
         /\ base_waln(L, pr)[s] \in Nat
         /\ L[s].usdc_locked_current_round = 0 => base_waln(L, pr)[s] = 0
<1>1. base_waln(L, pr)[s] = WalnFor(L[s].usdc_locked_current_round, pr)
  BY DEF base_waln
<1>2. L[s].usdc_locked_current_round \in Nat
  BY LockedSlot
<1>3. WalnFor(L[s].usdc_locked_current_round, pr) \in Nat
  BY <1>2, WalnForNat
<1>4. WalnFor(0, pr) = 0
  <2>1. 0 * waln_scale = 0 /\ 0 \div pr = 0
    BY RoundMathAssumption
  <2> QED BY <2>1 DEF WalnFor
<1> QED BY <1>1, <1>3, <1>4

\* The pool when every lock is spent and no dust is given.
Spent(L, pr) == FilledPool(L, base_waln(L, pr))

LEMMA SpentSlots ==
  ASSUME NEW L, IsLocked(L), NEW pr \in Nat, pr > 0
  PROVE  /\ Spent(L, pr) \in [Slots -> SlotRecord]
         /\ \A s \in Slots :
              /\ Spent(L, pr)[s] = SlotOf(L[s], L[s].usdc_deposited, 0,
                                          L[s].usdc_locked_current_round, base_waln(L, pr)[s])
              /\ s \in Part(L) =>
                   Spent(L, pr)[s] = SpentSlot(L[s], L[s].usdc_locked_current_round,
                                       WalnFor(L[s].usdc_locked_current_round, pr))
              /\ s \notin Part(L) => Spent(L, pr)[s] = L[s]
<1>1. /\ Spent(L, pr) \in [Slots -> SlotRecord]
      /\ \A s \in Slots : Spent(L, pr)[s] =
           SlotOf(L[s], L[s].usdc_deposited, 0, L[s].usdc_locked_current_round, base_waln(L, pr)[s])
  BY BoughtNats, FilledSlots DEF Spent
<1>2. ASSUME NEW s \in Slots
      PROVE  /\ Spent(L, pr)[s] = SpentSlot(L[s], L[s].usdc_locked_current_round,
                                    WalnFor(L[s].usdc_locked_current_round, pr))
             /\ s \notin Part(L) => Spent(L, pr)[s] = L[s]
  <2>1. /\ L[s] \in SlotRecord /\ L[s].usdc_deposited \in Nat
        /\ L[s].usdc_locked_current_round \in Nat
        /\ L[s].usdc_committed = 0 /\ L[s].waln_purchased_total = 0
        /\ s \in Part(L) <=> L[s].usdc_locked_current_round > 0
    BY LockedSlot
  <2>2. /\ base_waln(L, pr)[s] = WalnFor(L[s].usdc_locked_current_round, pr)
        /\ base_waln(L, pr)[s] \in Nat
        /\ L[s].usdc_locked_current_round = 0 => base_waln(L, pr)[s] = 0
    BY BoughtNats
  <2>3. SpentSlot(L[s], L[s].usdc_locked_current_round, base_waln(L, pr)[s])
          = SlotOf(L[s], L[s].usdc_deposited, 0, L[s].usdc_locked_current_round, base_waln(L, pr)[s])
    BY <2>1, <2>2, FilledPut
  <2>4. ASSUME s \notin Part(L) PROVE Spent(L, pr)[s] = L[s]
    <3>1. L[s].usdc_locked_current_round = 0 /\ base_waln(L, pr)[s] = 0
      BY <2>1, <2>2, <2>4
    <3>2. Spent(L, pr)[s] = SlotOf(L[s], L[s].usdc_deposited, 0, 0, 0)
      BY <1>1, <3>1
    <3> QED BY <2>1, <3>1, <3>2, SlotSame
  <2> QED BY <1>1, <2>2, <2>3, <2>4
<1> QED BY <1>1, <1>2

\* Slot s of pl has the key of the participant of L with the drawn index.
Wins(L, pl, s, index) ==
  \E w \in Slots : /\ IsParticipant(L, w)
                   /\ ParticipantIndex(L, w) = index
                   /\ pl[s].investor = L[w].investor
                   /\ \A j \in Slots : j < s => pl[j].investor # L[w].investor

\* The dust goes to the slot that is found by the key, or to none.
LEMMA DustPlaced ==
  ASSUME NEW L, IsLocked(L), NEW pr \in Nat, pr > 0, NEW dust \in Nat, NEW time \in Nat,
         NEW cnt, cnt = participant_count(L),
         NEW pl, pl = [s \in Slots |->
                        IF cnt > 0 /\ Wins(L, Spent(L, pr), s, time % cnt)
                        THEN DustedSlot(Spent(L, pr)[s], dust) ELSE Spent(L, pr)[s]]
  PROVE  pl = FilledPool(L, FilledCredits(L, pr, dust, time))
<1> DEFINE al == FilledCredits(L, pr, dust, time)
           Gets(s) == dust_record(L, s, time)
           Put(s) == IF Gets(s) THEN DustedSlot(Spent(L, pr)[s], dust) ELSE Spent(L, pr)[s]
<1>1. \A s \in Slots : al[s] = base_waln(L, pr)[s] + IF Gets(s) THEN dust ELSE 0
  BY DEF FilledCredits
<1>2. ASSUME NEW s \in Slots, IsParticipant(L, s) PROVE cnt > 0
  <2>1. Part(L) \in SUBSET Slots /\ s \in Part(L)
    BY <1>2 DEF Part
  <2>2. IsFiniteSet(Part(L)) /\ Cardinality(Part(L)) \in Nat
    BY <2>1, SlotSets, RoundMathAssumption
  <2>3. Cardinality(Part(L)) # 0
    BY <2>1, <2>2, FS_EmptySet
  <2> QED BY <2>2, <2>3 DEF participant_count, Part
<1>3. ASSUME NEW s \in Slots
      PROVE  Gets(s) <=> cnt > 0 /\ Wins(L, Spent(L, pr), s, time % cnt)
  <2>1. \A j \in Slots : Spent(L, pr)[j].investor = L[j].investor
    BY LockedSlot, SpentSlots, SlotFields
  <2>2. \A w \in Slots : dust_recipient(L, w, time) <=>
          cnt > 0 /\ IsParticipant(L, w) /\ ParticipantIndex(L, w) = time % cnt
    BY <1>2 DEF dust_recipient
  <2> QED BY <2>1, <2>2 DEF dust_record, Wins
<1> HIDE DEF Gets
<1>4. pl = [s \in Slots |-> Put(s)]
  BY <1>3
<1> HIDE DEF al
<1>5. ASSUME NEW s \in Slots
      PROVE  /\ al[s] \in Nat
             /\ Put(s) = SlotOf(L[s], L[s].usdc_deposited, 0, L[s].usdc_locked_current_round, al[s])
  <2>1. /\ L[s] \in SlotRecord /\ L[s].usdc_deposited \in Nat
        /\ L[s].usdc_locked_current_round \in Nat
    BY LockedSlot
  <2>2. base_waln(L, pr)[s] \in Nat
    BY BoughtNats
  <2>3. Spent(L, pr)[s] = SlotOf(L[s], L[s].usdc_deposited, 0,
                                 L[s].usdc_locked_current_round, base_waln(L, pr)[s])
    BY SpentSlots
  <2>4. CASE Gets(s)
    <3>1. al[s] = base_waln(L, pr)[s] + dust
      BY <1>1, <2>4
    <3>2. DustedSlot(Spent(L, pr)[s], dust)
            = SlotOf(L[s], L[s].usdc_deposited, 0, L[s].usdc_locked_current_round,
                     base_waln(L, pr)[s] + dust)
      <4>1. DustedSlot(SlotOf(L[s], L[s].usdc_deposited, 0, L[s].usdc_locked_current_round,
                              base_waln(L, pr)[s]), dust)
              = SlotOf(L[s], L[s].usdc_deposited, 0, L[s].usdc_locked_current_round,
                       base_waln(L, pr)[s] + dust)
        BY DEF DustedSlot, SlotOf
      <4> QED BY <2>3, <4>1
    <3> QED BY <2>2, <2>4, <3>1, <3>2
  <2>5. CASE ~ Gets(s)
    <3>1. al[s] = base_waln(L, pr)[s]
      BY <1>1, <2>2, <2>5
    <3> QED BY <2>2, <2>3, <2>5, <3>1
  <2> QED BY <2>4, <2>5
<1> HIDE DEF Put
<1>6. /\ FilledPool(L, al) \in [Slots -> SlotRecord]
      /\ \A s \in Slots : FilledPool(L, al)[s] = Put(s)
  BY <1>5, FilledSlots
<1> QED BY <1>4, <1>6 DEF al

\* Where the settlement of the filled round is.
Filling ==
  /\ pc = "fill" => /\ i \in Slots
                    /\ PassAt(locked, Spent(locked, price), i, pool)
                    /\ acc.n = Passed(Part(locked), i)
  /\ pc = "dust" => pool = Spent(locked, price) /\ acc.n = participant_count(locked)
  /\ pc = "filled" => pool = FilledPool(locked, FilledCredits(locked, price, acc.usdc, acc.n))

LEMMA LockedPool ==
  ASSUME Given, Opened, pc \in {"open", "close", "closed", "fill", "dust", "filled"}
  PROVE  /\ price \in Nat /\ price > 0
         /\ pc = "open" => IsLocked(pool)
         /\ pc # "open" => IsLocked(locked)
<1>1. IsLocked(execute_round_start(before, MAX_INVESTORS, size, price))
  BY StartedPool DEF Given, Opened
<1> QED BY <1>1, CapNat DEF Given, Opened

LEMMA BeginFills == Given /\ Opened /\ BeginFill => Filling'
<1> SUFFICES ASSUME Given, Opened, BeginFill PROVE Filling'
  OBVIOUS
<1>1. /\ pc = "open" /\ pc' = "fill" /\ locked' = pool /\ pool' = pool /\ i' = i
      /\ acc' = NoTotals /\ price' = price
  BY DEF BeginFill
<1>2. i = 1 /\ IsLocked(pool)
  BY <1>1, LockedPool DEF Opened
<1>3. PassAt(pool, Spent(pool, price), 1, pool)
  BY <1>2, PassStart DEF IsLocked
<1>4. Passed(Part(pool), 1) = 0
  BY CountEnds DEF Part
<1>5. acc'.n = 0
  BY <1>1 DEF NoTotals
<1> QED BY <1>1, <1>2, <1>3, <1>4, <1>5, OneSlot DEF Filling

LEMMA FillSlotFills == Given /\ Opened /\ Filling /\ FillSlot => Filling'
<1> SUFFICES ASSUME Given, Opened, Filling, FillSlot PROVE Filling'
  OBVIOUS
<1> DEFINE lock == locked[i].usdc_locked_current_round
           bought == WalnFor(lock, price)
           T == Spent(locked, price)
<1>1. /\ pc = "fill"
      /\ IF lock > 0
         THEN /\ pool' = [pool EXCEPT ![i].usdc_committed = @ + lock,
                                      ![i].usdc_locked_current_round = 0,
                                      ![i].waln_purchased_total = @ + bought]
              /\ acc' = [usdc |-> acc.usdc + lock, waln |-> acc.waln + bought,
                         n |-> acc.n + 1]
         ELSE pool' = pool /\ acc' = acc
      /\ NextSlot("dust")
      /\ UNCHANGED <<size, price, before, E, sold, paid, locked>>
  BY DEF FillSlot
<1>2. /\ i \in Slots /\ PassAt(locked, T, i, pool) /\ acc.n = Passed(Part(locked), i)
      /\ IsLocked(locked) /\ price \in Nat /\ price > 0
  BY <1>1, LockedPool DEF Filling
<1>3. i \in Part(locked) <=> lock > 0
  BY <1>2, LockedSlot
<1>4. /\ T \in [Slots -> SlotRecord]
      /\ i \in Part(locked) => T[i] = SpentSlot(locked[i], lock, bought)
      /\ i \notin Part(locked) => T[i] = locked[i]
  BY <1>2, SpentSlots
<1>5. Passed(Part(locked), i) \in Nat
      /\ Passed(Part(locked), i + 1) = Passed(Part(locked), i) + IF i \in Part(locked) THEN 1 ELSE 0
  BY <1>2, CountSteps DEF Part
<1>6. pool \in [Slots -> SlotRecord] /\ pool[i] = locked[i]
  <2>1. ~ i < i
    BY <1>2, RoundMathAssumption DEF Slots
  <2> QED BY <1>2, <2>1 DEF PassAt
<1> HIDE DEF T, lock, bought
<1>7. PassAt(locked, T, i + 1, pool') /\ acc'.n = Passed(Part(locked), i + 1)
  <2>1. CASE i \in Part(locked)
    <3>1. /\ pool' = [pool EXCEPT ![i].usdc_committed = @ + lock,
                                  ![i].usdc_locked_current_round = 0,
                                  ![i].waln_purchased_total = @ + bought]
          /\ acc'.n = acc.n + 1
      BY <1>1, <1>3, <2>1
    <3>2. \A s \in Slots : pool'[s] =
            IF s = i THEN [pool[i] EXCEPT !.usdc_committed = @ + lock,
                                          !.usdc_locked_current_round = 0,
                                          !.waln_purchased_total = @ + bought]
            ELSE pool[s]
      BY <1>2, <1>6, <3>1
    <3>3. pool' = [s \in Slots |-> pool'[s]]
      BY <1>6, <3>1
    <3>4. pool'[i] = T[i] /\ \A s \in Slots : s # i => pool'[s] = pool[s]
      BY <1>2, <1>4, <1>6, <2>1, <3>2 DEF SpentSlot
    <3>5. PassAt(locked, T, i + 1, pool')
      BY <1>2, <1>4, <3>3, <3>4, PassStep
    <3> QED BY <1>2, <1>5, <2>1, <3>1, <3>5
  <2>2. CASE i \notin Part(locked)
    <3>1. pool' = pool /\ acc' = acc /\ pool[i] = T[i] /\ pool = [s \in Slots |-> pool[s]]
      BY <1>1, <1>3, <1>4, <1>6, <2>2
    <3>2. PassAt(locked, T, i + 1, pool')
      BY <1>2, <1>4, <3>1, PassStep
    <3> QED BY <1>2, <1>5, <2>2, <3>1, <3>2
  <2> QED BY <2>1, <2>2
<1>8. CASE i = MAX_INVESTORS
  <2>1. pc' = "dust" /\ locked' = locked /\ price' = price
    BY <1>1, <1>8 DEF NextSlot
  <2>2. pool' = T
    BY <1>4, <1>7, <1>8, PassEnd
  <2>3. Passed(Part(locked), MAX_INVESTORS + 1) = Cardinality(Part(locked))
    BY CountEnds DEF Part
  <2>4. acc'.n = participant_count(locked)
    BY <1>7, <1>8, <2>3 DEF participant_count, Part
  <2> QED BY <2>1, <2>2, <2>4 DEF Filling, T
<1>9. CASE i # MAX_INVESTORS
  <2>1. pc' = "fill" /\ i' = i + 1 /\ locked' = locked /\ price' = price
    BY <1>1, <1>9 DEF NextSlot
  <2>2. i + 1 \in Slots
    BY <1>2, <1>9, RoundMathAssumption DEF Slots
  <2> QED BY <1>7, <2>1, <2>2 DEF Filling, T
<1> QED BY <1>8, <1>9

LEMMA DustFills ==
  ASSUME Given, Opened, Filling, NEW dust \in Dusts, NEW time \in Times, GiveDust(dust, time)
  PROVE  Filling'
<1>1. /\ pc = "dust" /\ pc' = "filled" /\ locked' = locked /\ price' = price
      /\ acc'.usdc = dust /\ acc'.n = time
      /\ pool' = [s \in Slots |->
           IF acc.n > 0 /\ Wins(locked, pool, s, time % acc.n)
           THEN DustedSlot(pool[s], dust) ELSE pool[s]]
  BY DEF GiveDust, DustedSlot, IsWinner, Wins
<1>2. /\ pool = Spent(locked, price) /\ acc.n = participant_count(locked)
      /\ IsLocked(locked) /\ price \in Nat /\ price > 0
  BY <1>1, LockedPool DEF Filling
<1>3. dust \in Nat /\ time \in Nat
  BY LoopAssumption
<1>4. PICK cnt : cnt = acc.n
  OBVIOUS
<1>5. pool' = [s \in Slots |->
        IF cnt > 0 /\ Wins(locked, Spent(locked, price), s, time % cnt)
        THEN DustedSlot(Spent(locked, price)[s], dust) ELSE Spent(locked, price)[s]]
  BY <1>1, <1>2, <1>4
<1>6. pool' = FilledPool(locked, FilledCredits(locked, price, dust, time))
  BY <1>2, <1>3, <1>4, <1>5, DustPlaced
<1> QED BY <1>1, <1>6 DEF Filling

LEMMA FillingNext == Given /\ Opened /\ Filling /\ [LoopNext]_loopVars => Filling'
<1> SUFFICES ASSUME Given, Opened, Filling, [LoopNext]_loopVars PROVE Filling'
  OBVIOUS
<1>1. CASE BeginFill
  BY <1>1, BeginFills
<1>2. CASE FillSlot
  BY <1>2, FillSlotFills
<1>3. CASE \E dust \in Dusts, time \in Times : GiveDust(dust, time)
  BY <1>3, DustFills
<1>4. CASE UNCHANGED loopVars
  BY <1>4 DEF Filling, loopVars
<1>5. CASE \/ SelectTurn \/ SelectNobody \/ LockSlot \/ GapSlot \/ BeginClose \/ CloseSlot
           \/ \E waln \in 1 .. size : LoopSale(waln)
  <2>1. pc' \notin {"fill", "dust", "filled"}
    BY <1>5 DEF SelectTurn, SelectNobody, LockSlot, GapSlot, BeginClose, CloseSlot, LoopSale,
       NextSlot
  <2> QED BY <2>1 DEF Filling
<1> QED BY <1>1, <1>2, <1>3, <1>4, <1>5 DEF LoopNext, Finished

-----------------------------------------------------------------------------
\* The loops compute what RoundMath says

\* A round is refused only when the participants have no volume.
LEMMA RefusedRound ==
  ASSUME Given, Selection, Starting, pc = "refused"
  PROVE  ~ RoundCanStart(before, MAX_INVESTORS, size, price)
<1>1. Turning(before, cap, E) /\ ~ SumOver(E, Volumes(before)) > 0 /\ E \in SUBSET All
  BY DEF Starting, Selection
<1>2. E = {}
  BY <1>1, NoVolume
<1>3. Affording(before, E, cap) = E
  BY <1>2 DEF Affording
<1>4. E = Participants(before, MAX_INVESTORS, cap)
  BY <1>1, <1>3, TurningFixed
<1> QED BY <1>1, <1>4 DEF RoundCanStart, cap

LEMMA LoopsMatch ==
  Given /\ Selection /\ Starting /\ Opened /\ Closing /\ Filling => LoopsMatchRoundMath
<1> SUFFICES ASSUME Given, Selection, Starting, Opened, Closing, Filling
             PROVE  LoopsMatchRoundMath
  OBVIOUS
<1>1. pc = "refused" => ~ RoundCanStart(before, MAX_INVESTORS, size, price)
  BY RefusedRound
<1>2. pc = "open" => /\ RoundCanStart(before, MAX_INVESTORS, size, price)
                     /\ pool = execute_round_start(before, MAX_INVESTORS, size, price)
  BY DEF Opened
<1>3. ASSUME pc = "closed" PROVE pool = Closed(locked, paid, price, sold)
  <2>1. /\ CanClose(locked, paid, price, sold)
        /\ PassAt(locked, Closed(locked, paid, price, sold), MAX_INVESTORS + 1, pool)
    BY <1>3 DEF Closing
  <2>2. Closed(locked, paid, price, sold) \in [Slots -> SlotRecord]
    BY <2>1, ClosedSlots
  <2> QED BY <2>1, <2>2, PassEnd
<1>4. pc = "filled" => pool = FilledPool(locked, FilledCredits(locked, price, acc.usdc, acc.n))
  BY DEF Filling
<1> QED BY <1>1, <1>2, <1>3, <1>4 DEF LoopsMatchRoundMath, Closed

\* The loops of the source, slot by slot, compute the pools that RoundMath writes in
\* closed form, and which the theorems about the program are about: at the start of a
\* round, after a forced close and after a filled round, for pools of every size.
THEOREM LoopsCorrect == LoopSpec => []LoopsMatchRoundMath
<1> DEFINE Inv == Given /\ Selection /\ Starting /\ Opened /\ Closing /\ Filling
<1>1. LoopInit => Inv
  BY GivenInit, SelectedInit, StartInit DEF LoopInit, Closing, Filling
<1>2. Inv /\ [LoopNext]_loopVars => Inv'
  BY GivenNext, SelectedNext, StartNext, ClosingNext, FillingNext
<1>3. Inv => LoopsMatchRoundMath
  BY LoopsMatch
<1> QED BY <1>1, <1>2, <1>3, PTL DEF LoopSpec
=============================================================================
