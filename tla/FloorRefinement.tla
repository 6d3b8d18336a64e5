--------------------------- MODULE FloorRefinement --------------------------
(***************************************************************************)
(* The floor program implements the ledger of module FloorLedger.          *)
(***************************************************************************)
EXTENDS FloorLiveness

Ledger == INSTANCE FloorLedger WITH
  owned <- [k \in Keys |-> OwnedBy(k, investors)],
  owed  <- [k \in Keys |-> UnclaimedBy(k)],
  paid  <- paid_waln,
  pot   <- round.waln + waln_dust_carryover,
  due   <- round.usdc_spent

\* Every instruction is a ledger step or leaves the ledger alone: starting,
\* cancelling and repricing rounds, moving slots, changing volumes, deleting
\* records and moving lamports touch nobody's balance; a settlement charges the
\* pool and allocates wALN in one step, a forced close charges exactly what the
\* sellers were paid, and a claim pays one investor what it was owed.
ImplementsLedger == Ledger!LedgerSpec
=============================================================================
