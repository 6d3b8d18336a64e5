----------------------------- MODULE RoundLoops -----------------------------
(***************************************************************************)
(* The loops of a round as the source runs them, slot by slot with running *)
(* totals: the selection and locking of execute_round_start, the charging  *)
(* loop of close_round and the crediting loop of a filled round.  Module   *)
(* RoundMath says in closed form what they compute; here the loops run on  *)
(* every small pool, and their results are compared with RoundMath and     *)
(* with what the investors may expect.                                     *)
(***************************************************************************)
EXTENDS RoundMath

CONSTANTS
  DepositRange,    \* usdc_deposited of a slot
  VolumeRange,     \* aat_volume of a slot
  SizeRange, PriceRange,   \* of the round
  Dusts, Times     \* wALN dust to hand out, time of the settlement

ASSUME LoopAssumption ==
  /\ DepositRange \subseteq Nat /\ VolumeRange \subseteq Nat
  /\ SizeRange \subseteq Nat /\ PriceRange \subseteq Nat
  /\ Dusts \subseteq Nat /\ Times \subseteq Nat

VARIABLES
  size, price,     \* of the round
  before,          \* the pool when the round starts
  pool,            \* the pool as the loops leave it
  E,               \* eligible[i]
  i,               \* slot the loop is at
  pc,              \* where the code is
  sold, paid,      \* wALN sold to the round and USDC paid for it
  locked,          \* the pool when the round is settled
  acc              \* running totals of the loop

loopVars == <<size, price, before, pool, E, i, pc, sold, paid, locked, acc>>

Slot(key, deposit, volume) ==
  [investor |-> key, usdc_deposited |-> deposit, aat_volume |-> volume,
   usdc_locked_current_round |-> 0, usdc_committed |-> 0, waln_purchased_total |-> 0]

NoTotals == [usdc |-> 0, waln |-> 0, n |-> 0]

cap == round_cap_usdc(size, price)

LoopInit ==
  /\ size \in SizeRange /\ price \in PriceRange
  /\ require_viable_round_params(size, price)
  /\ \E d \in [Slots -> DepositRange], v \in [Slots -> VolumeRange] :
       before = [s \in Slots |-> Slot(s, d[s], v[s])]
  /\ pool = before
  /\ E = eligible(before, MAX_INVESTORS, cap)
  /\ i = 1
  /\ pc = "select"
  /\ sold = 0 /\ paid = 0
  /\ locked = before
  /\ acc = NoTotals

-----------------------------------------------------------------------------
\* execute_round_start

\* One turn of the selection: the total is taken before the turn drops anybody.
SelectTurn ==
  /\ pc = "select"
  /\ SumOver(E, Volumes(pool)) > 0
  /\ E' = Affording(pool, E, cap)
  /\ pc' = IF E' = E THEN "lock" ELSE "select"
  /\ UNCHANGED <<size, price, before, pool, i, sold, paid, locked, acc>>

\* NoEligibleInvestors
SelectNobody ==
  /\ pc = "select"
  /\ SumOver(E, Volumes(pool)) = 0
  /\ pc' = "refused"
  /\ UNCHANGED <<size, price, before, pool, E, i, sold, paid, locked, acc>>

\* The loop is at slot i; after the last slot it goes on at next.
NextSlot(next) ==
  /\ i' = IF i = MAX_INVESTORS THEN 1 ELSE i + 1
  /\ pc' = IF i = MAX_INVESTORS THEN next ELSE pc

LockSlot ==
  LET lock == Least(required_lock(pool, E, cap, i), pool[i].usdc_deposited)
  IN  /\ pc = "lock"
      /\ IF i \in E /\ lock > 0
         THEN /\ pool' = [pool EXCEPT ![i].usdc_deposited = @ - lock,
                                      ![i].usdc_locked_current_round = lock]
              /\ acc' = [acc EXCEPT !.usdc = @ + lock]
         ELSE UNCHANGED <<pool, acc>>
      /\ NextSlot("gap")
      /\ UNCHANGED <<size, price, before, E, sold, paid, locked>>

GapSlot ==
  LET gap == Greatest(0, cap - acc.usdc)
  IN  /\ pc = "gap"
      /\ IF gap > 0 /\ i \in E /\ pool[i].usdc_deposited >= gap
         THEN /\ pool' = [pool EXCEPT ![i].usdc_deposited = @ - gap,
                                      ![i].usdc_locked_current_round = @ + gap]
              /\ i' = 1
              /\ pc' = "open"
         ELSE UNCHANGED pool /\ NextSlot("open")
      /\ UNCHANGED <<size, price, before, E, sold, paid, locked, acc>>

-----------------------------------------------------------------------------
\* Sales into the round: each pays for the wALN it brings, rounded down, and
\* leaves a remainder that can be paid for.
LoopSale(waln) ==
  /\ pc = "open"
  /\ sold + waln =< size
  /\ sold = 0 => waln >= MIN_SELL_WALN \/ waln = size
  /\ sold + waln < size => UsdcFor(size - sold - waln, price) > 0
  /\ UsdcFor(waln, price) > 0
  /\ sold' = sold + waln
  /\ paid' = paid + UsdcFor(waln, price)
  /\ UNCHANGED <<size, price, before, pool, E, i, pc, locked, acc>>

-----------------------------------------------------------------------------
\* close_round.  The first passes total what is locked and what it would buy
\* (base_usdc_spent, base_waln); acc.usdc is remaining_usdc_remainder, acc.waln
\* is remaining_waln and acc.n is processed_eligible.
BeginClose ==
  /\ pc = "open"
  /\ sold \in 1 .. (size - 1)
  /\ Sum(base_waln(pool, price), MAX_INVESTORS) > 0
  /\ paid =< Sum(Locks(pool), MAX_INVESTORS)
  /\ locked' = pool
  /\ pc' = "close"
  /\ acc' = [usdc |-> paid - Sum(base_usdc_spent(pool, paid), MAX_INVESTORS),
             waln |-> sold, n |-> 0]
  /\ UNCHANGED <<size, price, before, pool, E, i, sold, paid>>

\* Mutant of usdc_spent_at: every share is rounded up.
usdc_spent_at_up(s) ==
  LET total == Sum(Locks(locked), MAX_INVESTORS)
  IN  (paid * locked[s].usdc_locked_current_round + total - 1) \div total

usdc_spent_at(s) ==
  LET base == base_usdc_spent(locked, paid)[s]
  IN  base + IF acc.usdc > 0 /\ base < locked[s].usdc_locked_current_round THEN 1 ELSE 0

\* Mutant of waln_alloc_at: nobody gets what the divisions left over.
waln_alloc_at_floor(s) ==
  (sold * base_waln(locked, price)[s]) \div Sum(base_waln(locked, price), MAX_INVESTORS)

waln_alloc_at(s) ==
  IF acc.n + 1 = participant_count(locked) THEN acc.waln
  ELSE (sold * base_waln(locked, price)[s])
         \div Sum(base_waln(locked, price), MAX_INVESTORS)

CloseSlot ==
  /\ pc = "close"
  /\ IF IsParticipant(locked, i)
     THEN LET spent == usdc_spent_at(i)
              alloc == waln_alloc_at(i)
          IN  /\ pool' = [pool EXCEPT
                   ![i].usdc_deposited = @ + (locked[i].usdc_locked_current_round - spent),
                   ![i].usdc_committed = @ + spent,
                   ![i].waln_purchased_total = @ + alloc,
                   ![i].usdc_locked_current_round = 0]
              /\ acc' = [usdc |-> acc.usdc - (spent - base_usdc_spent(locked, paid)[i]),
                         waln |-> acc.waln - alloc, n |-> acc.n + 1]
     ELSE UNCHANGED <<pool, acc>>
  /\ NextSlot("closed")
  /\ UNCHANGED <<size, price, before, E, sold, paid, locked>>

-----------------------------------------------------------------------------
\* A filled round: acc.waln is total_waln_purchased, acc.n the participants.
BeginFill ==
  /\ pc = "open"
  /\ sold = size
  /\ locked' = pool
  /\ pc' = "fill"
  /\ acc' = NoTotals
  /\ UNCHANGED <<size, price, before, pool, E, i, sold, paid>>

FillSlot ==
  LET lock == locked[i].usdc_locked_current_round
      bought == WalnFor(lock, price)
  IN  /\ pc = "fill"
      /\ IF lock > 0
         THEN /\ pool' = [pool EXCEPT ![i].usdc_committed = @ + lock,
                                      ![i].usdc_locked_current_round = 0,
                                      ![i].waln_purchased_total = @ + bought]
              /\ acc' = [usdc |-> acc.usdc + lock, waln |-> acc.waln + bought,
                         n |-> acc.n + 1]
         ELSE UNCHANGED <<pool, acc>>
      /\ NextSlot("dust")
      /\ UNCHANGED <<size, price, before, E, sold, paid, locked>>

\* Slot s is where the key of the participant with the drawn index is found.
IsWinner(s, index) ==
  \E w \in Slots : /\ IsParticipant(locked, w)
                   /\ ParticipantIndex(locked, w) = index
                   /\ pool[s].investor = locked[w].investor
                   /\ \A j \in Slots : j < s => pool[j].investor # locked[w].investor

GiveDust(dust, time) ==
  /\ pc = "dust"
  /\ acc' = [usdc |-> dust, waln |-> acc.waln + IF acc.n > 0 THEN dust ELSE 0, n |-> time]
  /\ pool' = [s \in Slots |->
       IF acc.n > 0 /\ IsWinner(s, time % acc.n)
       THEN [pool[s] EXCEPT !.waln_purchased_total = @ + dust] ELSE pool[s]]
  /\ pc' = "filled"
  /\ UNCHANGED <<size, price, before, E, i, sold, paid, locked>>

Finished == pc \in {"refused", "closed", "filled"} /\ UNCHANGED loopVars

LoopNext ==
  \/ SelectTurn \/ SelectNobody \/ LockSlot \/ GapSlot
  \/ \E waln \in 1 .. size : LoopSale(waln)
  \/ BeginClose \/ CloseSlot
  \/ BeginFill \/ FillSlot
  \/ \E dust \in Dusts, time \in Times : GiveDust(dust, time)
  \/ Finished

LoopSpec == LoopInit /\ [][LoopNext]_loopVars

-----------------------------------------------------------------------------
\* The loops compute what module RoundMath says: the pool after a start, after a
\* forced close and after a filled round, and when a round cannot start.
LoopsMatchRoundMath ==
  /\ pc = "refused" => ~ RoundCanStart(before, MAX_INVESTORS, size, price)
  /\ pc = "open" => /\ RoundCanStart(before, MAX_INVESTORS, size, price)
                    /\ pool = execute_round_start(before, MAX_INVESTORS, size, price)
  /\ pc = "closed" => pool = ClosedPool(locked, close_round_usdc_spent(locked, paid),
                                        ClosedAllocs(locked, price, sold))
  /\ pc = "filled" => pool = FilledPool(locked,
                               FilledCredits(locked, price, acc.usdc, acc.n))

\* Every slot of the group S can pay its share of the cap, and its share is not zero.
CanPayTogether(S) ==
  \A s \in S : LET share == (cap * before[s].aat_volume) \div SumOver(S, Volumes(before))
              IN  share \in 1 .. before[s].usdc_deposited

\* The eligible investors whose share of the cap is not zero when all eligible
\* investors take part.
NonZero ==
  LET all == eligible(before, MAX_INVESTORS, cap)
  IN  {s \in all : required_lock(before, all, cap, s) > 0}

\* The selection is the greatest group of investors in NonZero that can pay
\* together: it can, every other such group is part of it, in whatever order the
\* turns drop the others, and a round is refused only when there is none.  Who is
\* not in NonZero is dropped for good, also when its share of a smaller group
\* would not be zero (start_round.rs drops it in the first turn): such an
\* investor may be left out although it could have paid.
SelectionIsGreatest ==
  pc \in {"open", "refused"} =>
    /\ E \subseteq NonZero
    /\ CanPayTogether(E)
    /\ \A S \in SUBSET NonZero : CanPayTogether(S) => S \subseteq E

\* A forced close never fails half way and leaves nothing over: no lock is
\* overdrawn, neither running total goes below zero, and at the end the sellers'
\* USDC is charged to the unit and all wALN is allocated.
CloseBalances ==
  pc \in {"close", "closed"} =>
    /\ acc.usdc >= 0 /\ acc.waln >= 0
    /\ \A s \in Slots : pool[s].usdc_committed =< locked[s].usdc_locked_current_round
    /\ pc = "closed" => acc.usdc = 0 /\ acc.waln = 0
=============================================================================
