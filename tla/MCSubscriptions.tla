---------------------------- MODULE MCSubscriptions ----------------------------
(***************************************************************************)
(* Subscriptions on small instances.                                       *)
(***************************************************************************)
EXTENDS Subscriptions, TLC

Symmetry ==
  Permutations(Order) \union Permutations(Payment) \union Permutations(Event)
    \union Permutations(Payer) \union Permutations(Handler)
=============================================================================
