-------------------------- MODULE MCCreditTransactions --------------------------
(***************************************************************************)
(* CreditTransactions on a small instance: model values for users, keys,   *)
(* clients and sweeps; clients next to each other, a reconciliation or     *)
(* sweeps.                                                                 *)
(***************************************************************************)
EXTENDS CreditTransactions, TLC

\* No sweep has begun yet, and none has left anything.
NotSwept ==
  /\ \A s \in Sweeper : sweep[s] = IdleSweep
  /\ crashes = 0
  /\ \A u \in User : \A i \in DOMAIN book[u].entries :
       \A id \in DOMAIN book[u].reservations : book[u].entries[i].idempotencyKey # ExpireKey(id)

NotRebuilding == \A p \in Auditor : rebuild[p] = IdleRebuild

Busy(c) == Stage(c, "begun") \/ Stage(c, "open")
OneAtATime == \A c, d \in Client : c = d \/ ~Busy(c) \/ ~Busy(d)

NoConsumption ==
  /\ \A c \in Client : tx[c].op.type # "CONSUMPTION"
  /\ \A u \in User : ~\E i \in DOMAIN book[u].entries : book[u].entries[i].type = "CONSUMPTION"

\* Clients overlap each other; what they overlap with sweeps or a reconciliation they do
\* one at a time, and consume nothing next to sweeps.
Bound ==
  \/ NotSwept /\ (NotRebuilding \/ OneAtATime)
  \/ NotRebuilding /\ OneAtATime /\ NoConsumption

Symmetry == Permutations(Client)
=============================================================================
