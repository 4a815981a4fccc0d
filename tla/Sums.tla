---------------------------------- MODULE Sums ----------------------------------
(***************************************************************************)
(* Total(f, n) is f[1] + .. + f[n].  It is a function over Nat, and not a  *)
(* fold, so that SumTheorems can reason about it one term at a time.       *)
(***************************************************************************)
EXTENDS Integers

Total(f, n) ==
  LET upTo[i \in Nat] == IF i = 0 THEN 0 ELSE upTo[i - 1] + f[i] IN upTo[n]
=============================================================================
