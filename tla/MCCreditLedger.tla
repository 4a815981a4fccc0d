---------------------------- MODULE MCCreditLedger ----------------------------
(***************************************************************************)
(* CreditLedger on a small instance: users next to a reconciliation, or    *)
(* next to expiry sweeps.                                                  *)
(***************************************************************************)
EXTENDS CreditLedger

\* No sweep has begun yet, and none has left anything.
NotSwept ==
  /\ \A s \in Sweeper : sweep[s] = IdleSweep
  /\ crashes = 0
  /\ \A u \in User : \A i \in DOMAIN book[u].entries :
       \A id \in DOMAIN book[u].reservations : book[u].entries[i].idempotencyKey # ExpireKey(id)

\* Bound: sweeps and reconciliations have behaviours of their own.
OneAtATime == NotSwept \/ \A p \in Auditor : rebuild[p] = IdleRebuild

\* Keys are alike, so the first one used may be any; liveness allows no SYMMETRY.
FirstKey ==
  \A u \in User :
    book[u].entries # << >> => book[u].entries[1].idempotencyKey = CHOOSE key \in Key : TRUE

Bound == OneAtATime /\ FirstKey
=============================================================================
