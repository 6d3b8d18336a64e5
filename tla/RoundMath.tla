------------------------------ MODULE RoundMath -----------------------------
(***************************************************************************)
(* The arithmetic of a round: how a round locks the pool's USDC            *)
(* (start_round.rs), how a filled round is settled (sell_waln.rs) and how  *)
(* a partly filled one is closed by force (close_round.rs).  Everything    *)
(* here is a function of the pool's slots: the state machine that applies  *)
(* it is module FloorProgram.                                              *)
(*                                                                         *)
(* Amounts are whole token units and every division is the integer         *)
(* division of the source.  Its u128 intermediates cannot overflow, so no  *)
(* bound is put on them: each is the product of two u64, or of a volume    *)
(* (at most a million) and a cap of which some u64 deposit covers half.    *)
(***************************************************************************)
EXTENDS Sums, FiniteSets

CONSTANTS
  MAX_INVESTORS,   \* slots of the pool; 100 in the source
  waln_scale,      \* 10^waln_decimals: wALN units of one whole wALN
  MIN_SELL_WALN    \* smallest first sale of a round; 10^9 in the source

ASSUME RoundMathAssumption ==
  /\ MAX_INVESTORS \in Nat \ {0}
  /\ waln_scale \in Nat \ {0}
  /\ MIN_SELL_WALN \in Nat

Slots == 1 .. MAX_INVESTORS

\* Mutant of WalnFor: rounds up.
WalnForRoundedUp(usdc, price) == (usdc * waln_scale + price - 1) \div price

\* The USDC that buys an amount of wALN at a price, and the wALN that an amount
\* of USDC buys; both round down.
UsdcFor(waln, price) == (waln * price) \div waln_scale
WalnFor(usdc, price) == (usdc * waln_scale) \div price

round_cap_usdc(size, price) == UsdcFor(size, price)

require_viable_round_params(size, price) ==
  /\ round_cap_usdc(size, price) > 0
  /\ size >= MIN_SELL_WALN

-----------------------------------------------------------------------------
\* execute_round_start.  A pool is a count and an array of records; only the
\* first count slots are in use.

\* The sum of a quantity over a set of slots.
SumOver(E, f) == Sum([i \in Slots |-> IF i \in E THEN f[i] ELSE 0], MAX_INVESTORS)

Deposits(inv) == [i \in Slots |-> inv[i].usdc_deposited]
Locks(inv)    == [i \in Slots |-> inv[i].usdc_locked_current_round]
Volumes(inv)  == [i \in Slots |-> inv[i].aat_volume]

eligible(inv, count, cap) ==
  {i \in Slots : /\ i =< count
                 /\ inv[i].usdc_deposited > 0
                 /\ inv[i].aat_volume > 0
                 /\ inv[i].usdc_deposited >= cap \div 2}

\* The share of the cap that slot i must lock when the slots E take part.
required_lock(inv, E, cap, i) ==
  (cap * inv[i].aat_volume) \div SumOver(E, Volumes(inv))

\* Mutant of Affording: an investor must have more than its share.
AffordingWithSpare(inv, E, cap) ==
  {i \in E : LET r == required_lock(inv, E, cap, i)
             IN  r # 0 /\ inv[i].usdc_deposited > r}

\* One turn of the loop: every slot that cannot pay its share of this turn's
\* total, or whose share is zero, drops out.
Affording(inv, E, cap) ==
  {i \in E : LET r == required_lock(inv, E, cap, i)
             IN  r # 0 /\ inv[i].usdc_deposited >= r}

\* The loop runs until a turn drops nobody.  A turn that changes E drops a slot,
\* so MAX_INVESTORS turns reach the fixed point; an empty E stays empty.
Participants(inv, count, cap) ==
  LET turn[n \in Nat] == IF n = 0 THEN eligible(inv, count, cap)
                         ELSE Affording(inv, turn[n - 1], cap)
  IN  turn[MAX_INVESTORS]

\* Mutant of RoundCanStart: starts without investors.
RoundCanStartAlone(inv, count, size, price) == round_cap_usdc(size, price) > 0

\* execute_round_start succeeds: otherwise InvalidParameter (no cap) or
\* NoEligibleInvestors (nobody has volume), with the pool untouched.
RoundCanStart(inv, count, size, price) ==
  LET cap == round_cap_usdc(size, price)
  IN  /\ cap > 0
      /\ SumOver(Participants(inv, count, cap), Volumes(inv)) > 0

\* The share each participant locks, before the rounding gap is placed.
BaseLocks(inv, E, cap) ==
  [i \in Slots |-> IF i \in E
                   THEN Least(required_lock(inv, E, cap, i), inv[i].usdc_deposited)
                   ELSE 0]

\* Mutants of GapLocks: the first participant takes the gap whatever it has left
\* on deposit; every participant that has the gap takes it.
GapLocksUnchecked(inv, E, cap) ==
  LET gap == Greatest(0, cap - Sum(BaseLocks(inv, E, cap), MAX_INVESTORS))
  IN  [i \in Slots |-> IF i \in E /\ \A j \in E : i =< j THEN gap ELSE 0]

GapLocksForAll(inv, E, cap) ==
  LET base == BaseLocks(inv, E, cap)
      gap  == Greatest(0, cap - Sum(base, MAX_INVESTORS))
  IN  [i \in Slots |-> IF i \in E /\ inv[i].usdc_deposited - base[i] >= gap
                       THEN gap ELSE 0]

\* Rounding leaves a gap between the shares and the cap.  The first participant
\* who has the whole gap left on deposit takes it; if nobody has, nobody does.
GapLocks(inv, E, cap) ==
  LET base == BaseLocks(inv, E, cap)
      gap  == Greatest(0, cap - Sum(base, MAX_INVESTORS))
      HasGap(i) == i \in E /\ inv[i].usdc_deposited - base[i] >= gap
  IN  [i \in Slots |->
         IF gap > 0 /\ HasGap(i) /\ \A j \in Slots : j < i => ~ HasGap(j)
         THEN gap ELSE 0]

NewLocks(inv, count, size, price) ==
  LET cap == round_cap_usdc(size, price)
      E   == Participants(inv, count, cap)
  IN  [i \in Slots |-> BaseLocks(inv, E, cap)[i] + GapLocks(inv, E, cap)[i]]

\* The pool after execute_round_start.
execute_round_start(inv, count, size, price) ==
  LET locks == NewLocks(inv, count, size, price)
  IN  [i \in Slots |->
         [inv[i] EXCEPT
            !.usdc_deposited = @ - locks[i],
            !.usdc_locked_current_round = IF locks[i] > 0 THEN locks[i] ELSE @]]

-----------------------------------------------------------------------------
\* Settlement of a filled round.

IsParticipant(inv, i) == inv[i].usdc_locked_current_round > 0

participant_count(inv) == Cardinality({i \in Slots : IsParticipant(inv, i)})

\* Participants in slots before i: the index of i among the participants.
ParticipantIndex(inv, i) == Cardinality({j \in Slots : j < i /\ IsParticipant(inv, j)})

\* The wALN each slot's locked USDC buys.
base_waln(inv, price) ==
  [i \in Slots |-> WalnFor(inv[i].usdc_locked_current_round, price)]

\* The dust carried over goes to the participant with index time % participants.
dust_recipient(inv, i, time) ==
  /\ IsParticipant(inv, i)
  /\ ParticipantIndex(inv, i) = time % participant_count(inv)

FilledAllocs(inv, price, dust, time) ==
  [i \in Slots |-> base_waln(inv, price)[i]
                     + IF dust_recipient(inv, i, time) THEN dust ELSE 0]

\* Mutant of dust_record: the index among the participants is taken for a slot.
dust_record_by_index(inv, i, time) ==
  participant_count(inv) > 0 /\ i = 1 + (time % participant_count(inv))

\* The record that is credited with the dust is looked up again, by the key of
\* the recipient.
dust_record(inv, i, time) ==
  \E w \in Slots : /\ dust_recipient(inv, w, time)
                   /\ inv[i].investor = inv[w].investor
                   /\ \A j \in Slots : j < i => inv[j].investor # inv[w].investor

\* What each record is credited with, as FilledAllocs is what each participant
\* can claim.
FilledCredits(inv, price, dust, time) ==
  [i \in Slots |-> base_waln(inv, price)[i]
                     + IF dust_record(inv, i, time) THEN dust ELSE 0]

\* Mutant of FilledPool: the locks are not reset.
FilledPoolKeepsLocks(inv, credits) ==
  [i \in Slots |->
     [inv[i] EXCEPT
        !.usdc_committed = @ + inv[i].usdc_locked_current_round,
        !.waln_purchased_total = @ + credits[i]]]

\* Every lock is spent in full.
FilledPool(inv, credits) ==
  [i \in Slots |->
     [inv[i] EXCEPT
        !.usdc_committed = @ + inv[i].usdc_locked_current_round,
        !.waln_purchased_total = @ + credits[i],
        !.usdc_locked_current_round = 0]]

-----------------------------------------------------------------------------
\* close_round: a partly filled round spends only what the sellers were paid.

base_usdc_spent(inv, paid) ==
  [i \in Slots |-> (paid * inv[i].usdc_locked_current_round)
                      \div Sum(Locks(inv), MAX_INVESTORS)]

\* Mutant of close_round_usdc_spent: the units that rounding lost are charged to
\* nobody.
close_round_usdc_spent_floor(inv, paid) == base_usdc_spent(inv, paid)

\* close_round_usdc_spent: the units that rounding lost are charged one each to
\* the first participants that still have something locked.
close_round_usdc_spent(inv, paid) ==
  LET base == base_usdc_spent(inv, paid)
      remainder == paid - Sum(base, MAX_INVESTORS)
      CanPayMore(i) == base[i] < inv[i].usdc_locked_current_round
      Before(i) == Cardinality({j \in Slots : j < i /\ CanPayMore(j)})
  IN  [i \in Slots |-> base[i] + IF CanPayMore(i) /\ Before(i) < remainder THEN 1 ELSE 0]

\* The wALN of the round, pro rata to what each full lock would have bought; the
\* last participant takes what the divisions left over.
ClosedAllocs(inv, price, waln) ==
  LET full == base_waln(inv, price)
      total_full_waln == Sum(full, MAX_INVESTORS)
      share == [i \in Slots |-> (waln * full[i]) \div total_full_waln]
      IsLast(i) == /\ IsParticipant(inv, i)
                   /\ \A j \in Slots : j > i => ~ IsParticipant(inv, j)
      others(i) == SumOver({j \in Slots : j < i}, share)
  IN  [i \in Slots |-> IF IsLast(i) THEN waln - others(i) ELSE share[i]]

\* Mutant of ClosedPool: the unspent part of the locks is not returned.
ClosedPoolKeepsRest(inv, spent, allocs) ==
  [i \in Slots |->
     [inv[i] EXCEPT
        !.usdc_committed = @ + spent[i],
        !.waln_purchased_total = @ + allocs[i],
        !.usdc_locked_current_round = 0]]

\* The unspent part of every lock returns to the deposit.
ClosedPool(inv, spent, allocs) ==
  [i \in Slots |->
     [inv[i] EXCEPT
        !.usdc_deposited = @ + (inv[i].usdc_locked_current_round - spent[i]),
        !.usdc_committed = @ + spent[i],
        !.waln_purchased_total = @ + allocs[i],
        !.usdc_locked_current_round = 0]]
=============================================================================
