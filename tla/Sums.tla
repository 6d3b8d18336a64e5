-------------------------------- MODULE Sums --------------------------------
(***************************************************************************)
(* Finite sums of the numbers a function holds at 1, 2, ..., n: what every *)
(* loop over the investor pool accumulates.  The sum is a recursive        *)
(* function, not a recursive operator or a fold, so that RoundProofs can   *)
(* prove its algebra once and for every n.                                 *)
(***************************************************************************)
EXTENDS Integers

\* PrefixSum(f)[n] is f[1] + ... + f[n].
PrefixSum(f) == LET s[i \in Nat] == IF i = 0 THEN 0 ELSE s[i - 1] + f[i] IN s

Sum(f, n) == PrefixSum(f)[n]

Least(a, b)    == IF a =< b THEN a ELSE b
Greatest(a, b) == IF a =< b THEN b ELSE a
=============================================================================
