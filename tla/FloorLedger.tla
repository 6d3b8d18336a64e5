----------------------------- MODULE FloorLedger ----------------------------
(***************************************************************************)
(* What the floor program promises to its users, without slots, locks,     *)
(* rounds' accounts or a clock: a ledger of who owns which USDC, who is    *)
(* owed which wALN and who was paid, and the five things that can happen   *)
(* to it.  Every instruction of the program is one of them or leaves the   *)
(* ledger alone; module FloorRefinement states that.                       *)
(***************************************************************************)
EXTENDS Sums

CONSTANT NUM_KEYS      \* investors are the keys 1 .. NUM_KEYS

VARIABLES
  owned,   \* USDC each investor has in the pool
  owed,    \* wALN bought for each investor and not yet paid to it
  paid,    \* wALN paid to each investor
  pot,     \* wALN bought and not yet allocated to an investor
  due      \* USDC paid to sellers and not yet charged to an investor

ledger == <<owned, owed, paid, pot, due>>

Investors == 1 .. NUM_KEYS

Init ==
  /\ owned = [k \in Investors |-> 0]
  /\ owed  = [k \in Investors |-> 0]
  /\ paid  = [k \in Investors |-> 0]
  /\ pot = 0
  /\ due = 0

\* Nobody but k is concerned by what happens to f.
OnlyFor(k, f) == \A j \in Investors \ {k} : f'[j] = f[j]

Bought(f) == pot + Sum(f, NUM_KEYS)
Charged == Sum(owned, NUM_KEYS) - Sum(owned', NUM_KEYS)

Deposit(k) ==
  /\ owned'[k] > owned[k] /\ OnlyFor(k, owned)
  /\ UNCHANGED <<owed, paid, pot, due>>

\* A withdrawal, or the refund of an investor who is removed.
Withdraw(k) ==
  /\ owned'[k] < owned[k] /\ OnlyFor(k, owned)
  /\ UNCHANGED <<owed, paid, pot, due>>

\* A holder sells: wALN comes in, USDC goes out.
Sell ==
  /\ pot' > pot
  /\ due' > due
  /\ UNCHANGED <<owned, owed, paid>>

\* A settlement charges investors and allocates wALN to investors who had USDC in
\* the pool; it gives USDC to nobody and takes wALN from nobody.
Allocate ==
  /\ \A k \in Investors : /\ owned'[k] =< owned[k]
                          /\ owed'[k] >= owed[k]
                          /\ owed'[k] > owed[k] => owned[k] > 0
  /\ due' = 0
  /\ UNCHANGED paid

\* The sale that completes a round settles it in the same step.
Fill ==
  /\ Allocate
  /\ Charged > 0
  /\ pot' + Sum(owed', NUM_KEYS) > Bought(owed)

\* A forced close charges exactly what the sellers got and allocates no more than
\* what was bought.
Close ==
  /\ Allocate
  /\ Charged = due
  /\ pot' + Sum(owed', NUM_KEYS) = Bought(owed)

Claim(k) ==
  /\ owed'[k] < owed[k] /\ OnlyFor(k, owed)
  /\ paid'[k] = paid[k] + (owed[k] - owed'[k]) /\ OnlyFor(k, paid)
  /\ UNCHANGED <<owned, pot, due>>

Next ==
  \/ \E k \in Investors : Deposit(k) \/ Withdraw(k) \/ Claim(k)
  \/ Sell
  \/ Fill
  \/ Close

LedgerSpec == Init /\ [][Next]_ledger
=============================================================================
