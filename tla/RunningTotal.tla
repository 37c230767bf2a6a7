---------------------------- MODULE RunningTotal ----------------------------
(***************************************************************************)
(* The sum of a finite table of numbers, indexed 1..n.                     *)
(***************************************************************************)
EXTENDS Integers

\* PrefixTotals(f, n)[i] is f[1] + ... + f[i].
PrefixTotals(f, n) ==
  LET sum[i \in 0 .. n] == IF i = 0 THEN 0 ELSE sum[i - 1] + f[i]
  IN  sum

Total(f, n) == PrefixTotals(f, n)[n]
=============================================================================
