---------------------------- MODULE PaymentProvider ----------------------------
(***************************************************************************)
(* The payment provider (external: payments/ has adapters only).  It       *)
(* issues payments for orders and announces their outcome in signed events *)
(* with an id.  An announced event is delivered any number of times, to    *)
(* several handlers at once and in any order.  A success may be announced  *)
(* under several ids; no failure is announced after a success.             *)
(***************************************************************************)
EXTENDS Integers, FiniteSets

CONSTANTS
  Order,    \* orders payments are for
  Payment,  \* provider payment ids
  Event,    \* provider event ids
  MayFail   \* whether failures are announced

ASSUME MayFailAssumption == MayFail \in BOOLEAN
ASSUME NoneAssumption == "none" \notin Order /\ "none" \notin Payment

VARIABLES
  issued,  \* the order each payment is for
  sent     \* events announced: [id, payment, successful]

provider == <<issued, sent>>

ProviderInit ==
  /\ issued = [p \in Payment |-> "none"]
  /\ sent = {}

PaymentsFor(o) == Cardinality({p \in Payment : issued[p] = o})

Announce(e, p, successful) ==
  /\ issued[p] # "none"
  /\ \A a \in sent : a.id # e
  /\ ~successful => MayFail /\ \A a \in sent : a.payment = p => ~a.successful
  /\ sent' = sent \union {[id |-> e, payment |-> p, successful |-> successful]}
  /\ UNCHANGED issued

\* Issuing an unused payment.
Issue(o, p) ==
  /\ issued[p] = "none"
  /\ issued' = [issued EXCEPT ![p] = o]
  /\ UNCHANGED sent
=============================================================================
