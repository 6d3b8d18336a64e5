---------------------------- MODULE FloorLiveness ---------------------------
(***************************************************************************)
(* What must eventually happen.  The program is passive: it moves only     *)
(* when somebody sends an instruction, so its liveness is that a party who *)
(* keeps sending the right instruction gets its result, whatever the       *)
(* others do in between.  Fairness is therefore stated for that party      *)
(* alone (and for the cluster's clock), and the circumstances under which  *)
(* the program refuses by design (frozen, paused, an empty treasury) are   *)
(* premises of the properties.                                             *)
(***************************************************************************)
EXTENDS FloorProperties

\* An admin who wants the round to end keeps sending cancel_round and
\* close_round: whichever applies stays enabled until it is executed.
AdminFairness == WF_vars(cancel_round) /\ WF_vars(close_round)

\* Every investor keeps claiming what a settled round owes to it, and time goes on.
ClaimFairness ==
  /\ WF_vars(Tick)
  /\ \A k \in Keys, r \in Rounds : WF_vars(claim_waln(k, r))

AdminSpec == Spec /\ AdminFairness
ClaimSpec == Spec /\ ClaimFairness

-----------------------------------------------------------------------------
\* The treasury has what the two accounts of the settlement can need at most, on
\* top of the lamports that were sent ahead to their addresses.  (The bound on
\* rounds leaves room to settle the current one.)
TreasuryCovers ==
  /\ round_count < MaxRounds
  /\ treasury >=
       Greatest(0, RENT_RECORD - round_record[round_count].lamports)
       + Greatest(0, RENT_LOCKED + MAX_INVESTORS * RENT_ENTRY
                       - round_locked_waln[round_count].lamports)

\* close_round does not refuse a round with sales by its own checks: the sellers
\* were paid no more than is locked (they can be when a rounding gap was not
\* placed), the locks together buy some wALN, and the unlock time is an i64.
Settleable ==
  /\ round.usdc_spent =< Sum(Locks(investors), MAX_INVESTORS)
  /\ Sum(base_waln(investors, round.floor_price), MAX_INVESTORS) > 0
  /\ now + round.lock_period =< I64_MAX

\* An admin who keeps closing and cancelling ends the round for good once sells stay
\* paused: a round without sales always, one with sales if the treasury stays
\* funded and the round is Settleable.  Nothing else blocks it: not the deposits,
\* removals and lamports sent ahead in between, not the rounding of charges and
\* allocations, and not a round that a filling sale has started.  Only then can
\* volumes be updated (update_aat_volume refuses during a round).
PausedRoundEnds ==
  <>[](/\ config.sell_paused
       /\ round.started /\ round.waln > 0 => TreasuryCovers /\ Settleable)
    => <>[](~ round.started)

\* "Force-settles the current, partially-filled round" (close_round): once sells
\* stay paused and the treasury stays funded, the round ends, whatever the admin
\* had set before.
ForceSettles ==
  <>[](config.sell_paused /\ TreasuryCovers) => <>[](~ round.started)

\* Every settled round is paid out: when its investors keep claiming, the account
\* of the round is emptied and closed once its lock has ended, unless the contract
\* is frozen (or the lock ends after the bound on the clock).  No investor's claim
\* stays blocked (by the vault, by its entry, by the other claims), and
\* remaining_to_claim counts exactly those who can claim; by AllocationsFinal the
\* account empties only by paying.
AccountsDrain ==
  \A r \in Rounds :
    round_locked_waln[r].exists ~> \/ ~ round_locked_waln[r].exists
                                   \/ config.frozen
                                   \/ round_locked_waln[r].unlock > MaxTime
=============================================================================
