-------------------------- MODULE FloorProperties ---------------------------
(***************************************************************************)
(* What makes the floor program correct: the books of the pool, the        *)
(* vaults and the accounts of the rounds agree after every sequence of     *)
(* instructions, whoever sends them and in whatever order.                 *)
(***************************************************************************)
EXTENDS FloorProgram

\* Every account field keeps its type: in particular no u64 wraps and no
\* balance goes negative.
TypeOK ==
  /\ config \in ConfigType
  /\ round \in RoundType
  /\ round_count \in 0 .. MaxRounds
  /\ total_usdc_in_lobby \in U64
  /\ total_aat_volume \in 0 .. MAX_TOTAL_AAT_VOLUME
  /\ waln_dust_carryover \in U64
  /\ count \in 0 .. MAX_INVESTORS
  /\ investors \in [Slots -> InvestorRecord]
  /\ minted \in SUBSET Keys
  /\ aat_volume \in [Keys -> U64]
  /\ round_locked_waln \in [Rounds -> RoundLockedWalnType]
  /\ round_record \in [Rounds -> RoundRecordType]
  /\ usdc_vault \in 0 .. USDC_SUPPLY
  /\ waln_vault \in 0 .. WALN_SUPPLY
  /\ treasury \in U64
  /\ now \in 0 .. MaxTime
  /\ paid_waln \in [Keys -> Nat]

-----------------------------------------------------------------------------
\* USDC

\* What the pool's investors own: deposited and locked USDC, slot by slot.
Positions == [i \in Slots |-> investors[i].usdc_deposited
                                + investors[i].usdc_locked_current_round]

\* The program's running total total_usdc_in_lobby, which five handlers adjust
\* by hand, is at all times the sum of what the slots say their investors own.
LobbyAccounting == total_usdc_in_lobby = Sum(Positions, MAX_INVESTORS)

\* Between rounds nothing is sold, paid or locked, in the round's fields and in
\* every slot: a round that ends (filled, closed or cancelled) leaves nothing
\* behind that the next execute_round_start would overwrite or count twice.
\* Inside a round, total_usdc_locked_for_round is the sum of the slots' locks.
LocksMatchRound ==
  /\ round.usdc_locked = Sum(Locks(investors), MAX_INVESTORS)
  /\ ~ round.started => /\ round.waln = 0
                        /\ round.usdc_spent = 0
                        /\ \A i \in Slots : ~ IsParticipant(investors, i)

\* The vault can pay what the investors own, up to the rounding units that
\* execute_round_start could not place: fewer than one per slot and round.
\* Payments of the round in progress are charged to the investors only when it
\* is settled.
Solvent ==
  total_usdc_in_lobby =<
    usdc_vault + round.usdc_spent + round_count * (MAX_INVESTORS - 1)

\* The locks of a round are the pro-rata shares of its cap, for the volumes the
\* investors have now: nothing that happens during a round (deposits that rewrite
\* the volume, removals that move slots, price changes) shifts them.  One slot at
\* most holds the rounding gap on top of its share.
ProRata ==
  round.started =>
    LET cap == round_cap_usdc(round.size_waln, round.floor_price)
        E   == {i \in Slots : IsParticipant(investors, i)}
        Extra(i) == investors[i].usdc_locked_current_round
                      - required_lock(investors, E, cap, i)
    IN  /\ E # {}
        /\ \A i \in E : Extra(i) >= 0
        /\ \A i, j \in E : Extra(i) > 0 /\ Extra(j) > 0 => i = j
        /\ cap - Sum(Locks(investors), MAX_INVESTORS) \in 0 .. (Cardinality(E) - 1)

\* What key k owns in the pool, wherever its slot is.
OwnedBy(k, inv) ==
  SumOver({i \in Slots : inv[i].investor = k},
          [i \in Slots |-> inv[i].usdc_deposited + inv[i].usdc_locked_current_round])

\* The withdraw lock holds: until its unlock time, an investor's USDC leaves the
\* pool only by the settlement of a round or by the removal of the investor, whose
\* volume the admin must have set to zero; and as long as the investor stays in the
\* pool, in this slot or, after another one's removal, in a different one, only the
\* admin's override makes the unlock time earlier.
WithdrawLockHolds ==
  [][\A i \in Slots : i =< count =>
       LET k == investors[i].investor
           slots == {j \in Slots : investors'[j].investor = k}
       IN  /\ OwnedBy(k, investors') < OwnedBy(k, investors) =>
                \/ now >= investors[i].usdc_unlock_ts
                \/ round_count' # round_count
                \/ investors[i].aat_volume = 0 /\ slots = {}
           /\ \/ \A j \in slots : investors'[j].usdc_unlock_ts >= investors[i].usdc_unlock_ts
              \/ \E ts \in UnlockTimes : set_investor_usdc_unlock(k, ts)]_vars

-----------------------------------------------------------------------------
\* The round in progress

\* A round in progress is never full and never left with a remainder too small
\* to be paid for, so some sale can always complete it (the guard
\* SellLeavesUnpayableDust); a round that nobody sold to can be filled at once.
RoundCanFill ==
  round.started => /\ round.waln < round.size_waln
                   /\ UsdcFor(round.size_waln - round.waln, round.floor_price) > 0

\* The arithmetic of filling the round cannot fail: the locks never buy more
\* wALN than the round holds, so the carried dust never goes negative, and what
\* the sellers were paid never exceeds the round's cap.
SettlementFits ==
  round.started =>
    /\ Sum(base_waln(investors, round.floor_price), MAX_INVESTORS) =< round.size_waln
    /\ round.usdc_spent =< UsdcFor(round.waln, round.floor_price)

\* The live settings are viable together, although the two setters that change
\* them check one new value each: the branch of the auto-start that skips a
\* round with a zero cap is dead.
SettingsViable ==
  require_viable_round_params(config.round_size_waln, config.floor_price_usdc)

\* The settings of a round are fixed when it starts: no instruction changes the
\* price, size or lock period of a round in progress.
SnapshotFixed ==
  [][round.started /\ round'.started /\ round_count' = round_count =>
       /\ round'.floor_price = round.floor_price
       /\ round'.size_waln = round.size_waln
       /\ round'.lock_period = round.lock_period]_vars

\* What key k has locked in the current round, wherever its slot is.
LockedBy(k, inv) ==
  SumOver({i \in Slots : inv[i].investor = k}, Locks(inv))

\* While a round goes on, every investor keeps the lock it started with: slots
\* move (remove_investor_from_pool), deposits and withdrawals come and go, but
\* locks change only when a round starts or ends.
LocksFixed ==
  [][round.started /\ round'.started /\ round_count' = round_count =>
       \A k \in Keys : LockedBy(k, investors') = LockedBy(k, investors)]_vars

-----------------------------------------------------------------------------
\* The pool and the NFTs

\* The pool is an array of distinct investors followed by cleared slots, each
\* with the volume that its NFT has, and the global volume is that of all NFTs.
PoolMatchesNfts ==
  /\ \A i \in Slots :
       IF i =< count
       THEN /\ investors[i].investor \in minted
            /\ investors[i].aat_volume = aat_volume[investors[i].investor]
            /\ \A j \in Slots : j # i => investors[j].investor # investors[i].investor
       ELSE investors[i] = NewRecord(NoKey)
  /\ total_aat_volume = Sum(aat_volume, NUM_KEYS)

-----------------------------------------------------------------------------
\* wALN

\* What settled rounds still owe, round by round.
UnclaimedOf(rlw) == Sum([i \in Slots |-> rlw.entries[i].waln_amount], MAX_INVESTORS)
Unclaimed == [n \in 1 .. MaxRounds |-> UnclaimedOf(round_locked_waln[n - 1])]

\* Every wALN in the vault has one owner: the round in progress, the carried
\* dust or an allocation of a settled round that was not claimed yet.
WalnConserved ==
  waln_vault = round.waln + waln_dust_carryover + Sum(Unclaimed, MaxRounds)

\* A RoundLockedWaln account exists exactly as long as it has something to
\* claim, it counts its open claims right (the last claim closes the account, so
\* a wrong count would destroy or strand an allocation), and nobody has two
\* entries in it.
ClaimsCounted ==
  \A r \in Rounds :
    LET rlw  == round_locked_waln[r]
        open == {i \in Slots : rlw.entries[i].waln_amount > 0}
    IN  /\ rlw.remaining_to_claim = Cardinality(open)
        /\ rlw.exists <=> open # {}
        /\ rlw.exists => r < round_count
        /\ \A i, j \in open : rlw.entries[i].investor = rlw.entries[j].investor => i = j

\* What the pool says an investor bought is backed by allocations: all of it was
\* paid out to it or can still be claimed by it.
UnclaimedBy(k) ==
  Sum([n \in 1 .. MaxRounds |->
         LET rlw == round_locked_waln[n - 1]
         IN  SumOver({i \in Slots : rlw.entries[i].investor = k},
                     [i \in Slots |-> rlw.entries[i].waln_amount])], MaxRounds)

PurchasesBacked ==
  \A i \in Slots : i =< count =>
    investors[i].waln_purchased_total =<
      paid_waln[investors[i].investor] + UnclaimedBy(investors[i].investor)

\* An allocation is final: while its account lives, an entry stays as the
\* settlement wrote it until its own investor is paid exactly that amount.
AllocationsFinal ==
  [][\A r \in Rounds, i \in Slots :
       LET old == round_locked_waln[r].entries[i]
           new == round_locked_waln'[r].entries[i]
       IN  old.waln_amount > 0 /\ new # old =>
             /\ new.waln_amount = 0
             /\ now >= round_locked_waln[r].unlock
             /\ paid_waln' = [paid_waln EXCEPT ![old.investor] = @ + old.waln_amount]]_vars

-----------------------------------------------------------------------------
\* Lamports

\* The entries that are stored in an account; claimed ones stay, with amount zero.
Stored(rlw) == {i \in Slots : rlw.entries[i].investor # NoKey}
RentOf(rlw) == RENT_LOCKED + RENT_ENTRY * Cardinality(Stored(rlw))

\* Accounts of settled rounds are rent exempt as long as they live: the treasury has
\* added what they lacked, also when somebody had sent a part of it (or more) to
\* the address before, and claims, which do not shrink the account, take nothing
\* out of it before the last one.
RentExempt ==
  \A r \in Rounds :
    /\ round_record[r].exists => round_record[r].lamports >= RENT_RECORD
    /\ round_locked_waln[r].exists =>
         round_locked_waln[r].lamports >= RentOf(round_locked_waln[r])

\* The lamports of the rounds' accounts.
AccountLamports ==
  Sum([n \in 1 .. MaxRounds |-> round_locked_waln[n - 1].lamports
                                  + round_record[n - 1].lamports], MaxRounds)

\* Settlements, claims and deletions of records move lamports between the
\* treasury and the rounds' accounts and lose none, whatever had been sent to the
\* addresses before; and a settlement takes no more from the treasury than what its
\* accounts lack.
LamportsConserved ==
  [][/\ \/ round_count' # round_count
        \/ paid_waln' # paid_waln
        \/ \E r \in Rounds : round_record[r].exists /\ ~ round_record'[r].exists
        => treasury' + AccountLamports' = treasury + AccountLamports
     /\ round_count' # round_count => \A r \in Rounds :
          /\ round_record'[r].lamports =< Greatest(RENT_RECORD, round_record[r].lamports)
          /\ round_locked_waln'[r].lamports =<
               Greatest(RentOf(round_locked_waln'[r]), round_locked_waln[r].lamports)]_vars

-----------------------------------------------------------------------------
\* A statement of the repository that the code does not keep (violation run)

\* "Force-settles the current, partially-filled round" (close_round): the sellers
\* of a partly filled round were paid at most what is locked, which close_round
\* requires.
PaidWithinLocks ==
  round.started => round.usdc_spent =< Sum(Locks(investors), MAX_INVESTORS)
=============================================================================
