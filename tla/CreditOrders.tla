------------------------------ MODULE CreditOrders ------------------------------
(***************************************************************************)
(* Buying credits: CreditCommerceService (credits/credit-commerce.service  *)
(* .ts) with completePurchase and refundPurchase of CreditService, for the *)
(* orders of one user.  Starting a payment and handling a webhook each     *)
(* await other parties between their reads and their writes; every         *)
(* database transaction and every single statement is one step.            *)
(*                                                                         *)
(* The ledger rows are those with referenceType CREDIT_ORDER; what they do *)
(* to balances is CreditLedger's subject.                                  *)
(***************************************************************************)
EXTENDS PaymentProvider, Functions

CONSTANTS
  Caller,       \* startPayment calls in progress
  Handler,      \* webhook requests in progress
  RefundKey,    \* idempotency keys of administrators' refunds
  CreditTotal,  \* totalCreditAmount of an order
  Limit,        \* purchaseLimitPerUser of the package, 0 for none
  MaxStarts,    \* bound: payments started per order
  MaxDeaths    \* bound: requests that die half way

ASSUME CreditTotalAssumption == CreditTotal \in Nat \ {0}

VARIABLES
  order,    \* CreditPurchaseOrder rows: (user, Idempotency-Key) pairs, for one package
  attempt,  \* status of the PaymentAttempt row of a payment
  webhook,  \* PaymentWebhookEvent rows: whether seen, whether processedAt is set
  ledger,   \* PURCHASE rows [type, key, order, payment], REFUND rows [type, key, order, amount]
  call,     \* startPayment in progress
  handler,  \* processWebhook in progress
  deaths

rows == <<order, attempt, webhook, ledger>>
ordersVars == <<rows, provider, call, handler, deaths>>

IdleCall == [pc |-> "idle"]
IdleHandler == [pc |-> "idle"]

OrdersInit ==
  /\ order = [o \in Order |-> [status |-> "NONE", payment |-> "none", expired |-> FALSE]]
  /\ attempt = [p \in Payment |-> "NONE"]
  /\ webhook = [e \in Event |-> "NONE"]
  /\ ledger = {}
  /\ ProviderInit
  /\ call = [c \in Caller |-> IdleCall]
  /\ handler = [h \in Handler |-> IdleHandler]
  /\ deaths = 0

Purchases(o) == {r \in ledger : r.type = "PURCHASE" /\ r.order = o}
Refunds(o) == {r \in ledger : r.type = "REFUND" /\ r.order = o}
Refunded(o) == SumFunctionOnSet([r \in Refunds(o) |-> r.amount], Refunds(o))

-----------------------------------------------------------------------------
\* createOrder: the limit counts orders that are PAID now.
CreateOrder(o) ==
  /\ order[o].status = "NONE"
  /\ Limit > 0 => Cardinality({p \in Order : order[p].status = "PAID"}) < Limit
  /\ order' = [order EXCEPT ![o].status = "CREATED"]
  /\ UNCHANGED <<attempt, webhook, ledger, provider, call, handler, deaths>>

\* Thirty minutes pass: expiresAt is no longer in the future.
OrderExpires(o) ==
  /\ order[o].status \in {"CREATED", "PENDING_PAYMENT"}
  /\ ~order[o].expired
  /\ order' = [order EXCEPT ![o].expired = TRUE]
  /\ UNCHANGED <<attempt, webhook, ledger, provider, call, handler, deaths>>

CancelOrder(o) ==
  /\ order[o].status \in {"CREATED", "PENDING_PAYMENT"}
  /\ order' = [order EXCEPT ![o].status = "CANCELLED"]
  /\ UNCHANGED <<attempt, webhook, ledger, provider, call, handler, deaths>>

(***************************************************************************)
(* startPayment: read and check the order, ask the provider for a payment, *)
(* then write without looking at the order again.                          *)
(***************************************************************************)
Starts(o) ==
  PaymentsFor(o)
    + Cardinality({c \in Caller : call[c].pc = "asking" /\ call[c].order = o})

StartPaymentRead(c, o) ==
  /\ call[c].pc = "idle"
  /\ Starts(o) < MaxStarts
  /\ order[o].status \in {"CREATED", "PENDING_PAYMENT"}
  /\ ~order[o].expired
  /\ call' = [call EXCEPT ![c] = [pc |-> "asking", order |-> o]]
  /\ UNCHANGED <<rows, provider, handler, deaths>>

\* The provider's createPayment, and its answer.
StartPaymentCreate(c) ==
  /\ call[c].pc = "asking"
  /\ \E p \in Payment :
       /\ Issue(call[c].order, p)
       /\ call' = [call EXCEPT ![c] = [pc |-> "created", order |-> call[c].order, payment |-> p]]
  /\ UNCHANGED <<rows, handler, deaths>>

StartPaymentWrite(c) ==
  LET o == call[c].order
      p == call[c].payment
  IN /\ call[c].pc = "created"
     /\ attempt' = [attempt EXCEPT ![p] = "PENDING"]
     /\ order' = [order EXCEPT ![o].status = "PENDING_PAYMENT", ![o].payment = p]
     /\ call' = [call EXCEPT ![c] = IdleCall]
     /\ UNCHANGED <<webhook, ledger, provider, handler, deaths>>

-----------------------------------------------------------------------------
\* The provider announces the outcome of a payment it issued.
PaymentAnnounced ==
  /\ \E e \in Event, p \in Payment, successful \in BOOLEAN : Announce(e, p, successful)
  /\ UNCHANGED <<rows, call, handler, deaths>>

(***************************************************************************)
(* processWebhook.  An announcement that was processed is acknowledged and *)
(* changes nothing.                                                        *)
(***************************************************************************)
WebhookLookupSlip(h, a) ==
  /\ handler[h].pc = "idle"
  /\ webhook[a.id] = "NONE"
  /\ handler' = [handler EXCEPT ![h] = [pc |-> "insert", event |-> a]]
  /\ UNCHANGED <<rows, provider, call, deaths>>

WebhookLookup(h, a) ==
  /\ handler[h].pc = "idle"
  /\ webhook[a.id] # "PROCESSED"
  /\ handler' = [handler EXCEPT ![h] =
       [pc |-> IF webhook[a.id] = "NONE" THEN "insert" ELSE "check", event |-> a]]
  /\ UNCHANGED <<rows, provider, call, deaths>>

\* A second insert of the same event violates the unique index and fails the request.
WebhookInsert(h) ==
  LET a == handler[h].event
  IN /\ handler[h].pc = "insert"
     /\ IF webhook[a.id] = "NONE"
        THEN /\ webhook' = [webhook EXCEPT ![a.id] = "RECEIVED"]
             /\ handler' = [handler EXCEPT ![h].pc = "check"]
        ELSE /\ handler' = [handler EXCEPT ![h] = IdleHandler]
             /\ UNCHANGED webhook
     /\ UNCHANGED <<order, attempt, ledger, provider, call, deaths>>

\* The order as read here is verified with the provider, which takes a while.
WebhookCheck(h) ==
  LET a == handler[h].event
  IN /\ handler[h].pc = "check"
     /\ handler' = [handler EXCEPT ![h] =
          IF order[issued[a.payment]].payment = a.payment
          THEN [pc |-> "settle", event |-> a]
          ELSE IdleHandler]
     /\ UNCHANGED <<rows, provider, call, deaths>>

\* The payment failed: the order is not looked at again.
WebhookFail(h) ==
  LET a == handler[h].event
      o == issued[a.payment]
  IN /\ handler[h].pc = "settle"
     /\ ~a.successful
     /\ order' = [order EXCEPT ![o].status = "FAILED"]
     /\ attempt' = [attempt EXCEPT ![a.payment] = "FAILED"]
     /\ webhook' = [webhook EXCEPT ![a.id] = "PROCESSED"]
     /\ handler' = [handler EXCEPT ![h] = IdleHandler]
     /\ UNCHANGED <<ledger, provider, call, deaths>>

\* completePurchase writes: no entry has its key and the order waits for payment.
CanComplete(o, e) ==
  /\ \A r \in ledger : r.type = "PURCHASE" => r.key # e
  /\ order[o].status \in {"CREATED", "PENDING_PAYMENT"}

WebhookCompleteSlip(h) ==
  LET a == handler[h].event
      o == issued[a.payment]
  IN /\ handler[h].pc = "settle"
     /\ a.successful
     /\ order[o].status \in {"CREATED", "PENDING_PAYMENT"}
     /\ order' = [order EXCEPT ![o].status = "PAID", ![o].payment = a.payment]
     /\ attempt' = [attempt EXCEPT ![a.payment] = "SUCCEEDED"]
     /\ webhook' = [webhook EXCEPT ![a.id] = "PROCESSED"]
     /\ handler' = [handler EXCEPT ![h] = IdleHandler]
     /\ UNCHANGED <<ledger, provider, call, deaths>>

WebhookComplete(h) ==
  LET a == handler[h].event
      o == issued[a.payment]
  IN /\ handler[h].pc = "settle"
     /\ a.successful
     /\ CanComplete(o, a.id)
     /\ ledger' = ledger \union
          {[type |-> "PURCHASE", key |-> a.id, order |-> o, payment |-> a.payment]}
     /\ order' = [order EXCEPT ![o].status = "PAID", ![o].payment = a.payment]
     /\ attempt' = [attempt EXCEPT ![a.payment] = "SUCCEEDED"]
     /\ webhook' = [webhook EXCEPT ![a.id] = "PROCESSED"]
     /\ handler' = [handler EXCEPT ![h] = IdleHandler]
     /\ UNCHANGED <<provider, call, deaths>>

WebhookNoEffectSlip(h) ==
  LET a == handler[h].event
  IN /\ handler[h].pc = "settle"
     /\ a.successful
     /\ ~CanComplete(issued[a.payment], a.id)
     /\ webhook' = [webhook EXCEPT ![a.id] = "PROCESSED"]
     /\ handler' = [handler EXCEPT ![h] = IdleHandler]
     /\ UNCHANGED <<order, attempt, ledger, provider, call, deaths>>

\* completePurchase finds its entry, or throws: "Order cannot be paid" and the like.
WebhookNoEffect(h) ==
  LET a == handler[h].event
  IN /\ handler[h].pc = "settle"
     /\ a.successful
     /\ ~CanComplete(issued[a.payment], a.id)
     /\ handler' = [handler EXCEPT ![h] = IdleHandler]
     /\ UNCHANGED <<rows, provider, call, deaths>>

(***************************************************************************)
(* refundPurchase, one serializable transaction.                           *)
(***************************************************************************)
RefundableSlip(o, key, amount) ==
  /\ \A r \in ledger : r.type = "REFUND" => r.key # key
  /\ order[o].status \in {"PAID", "REFUNDED"}

Refundable(o, key, amount) ==
  /\ \A r \in ledger : r.type = "REFUND" => r.key # key
  /\ order[o].status \in {"PAID", "REFUNDED"}
  /\ Refunded(o) + amount <= CreditTotal

RefundPurchase(o, key, amount) ==
  /\ Refundable(o, key, amount)
  /\ ledger' = ledger \union
       {[type |-> "REFUND", key |-> key, order |-> o, amount |-> amount]}
  /\ order' = IF Refunded(o) + amount = CreditTotal
              THEN [order EXCEPT ![o].status = "REFUNDED"]
              ELSE order
  /\ UNCHANGED <<attempt, webhook, provider, call, handler, deaths>>

-----------------------------------------------------------------------------
\* A request dies: the process stops, or the database or the provider fails it.
Crash ==
  /\ deaths < MaxDeaths
  /\ deaths' = deaths + 1
  /\ \/ \E c \in Caller :
          /\ call[c].pc # "idle"
          /\ call' = [call EXCEPT ![c] = IdleCall]
          /\ UNCHANGED handler
     \/ \E h \in Handler :
          /\ handler[h].pc # "idle"
          /\ handler' = [handler EXCEPT ![h] = IdleHandler]
          /\ UNCHANGED call
  /\ UNCHANGED <<rows, provider>>

Handle(h) ==
  \/ WebhookInsert(h)
  \/ WebhookCheck(h)
  \/ WebhookFail(h)
  \/ WebhookComplete(h)
  \/ WebhookNoEffect(h)

OrdersNext ==
  \/ \E o \in Order :
       \/ CreateOrder(o)
       \/ OrderExpires(o)
       \/ CancelOrder(o)
       \/ \E c \in Caller : StartPaymentRead(c, o)
       \/ \E key \in RefundKey, amount \in 1..CreditTotal : RefundPurchase(o, key, amount)
  \/ \E c \in Caller : StartPaymentCreate(c) \/ StartPaymentWrite(c)
  \/ PaymentAnnounced
  \/ \E h \in Handler : Handle(h) \/ \E a \in sent : WebhookLookup(h, a)
  \/ Crash

OrdersSpec == OrdersInit /\ [][OrdersNext]_ordersVars

(***************************************************************************)
(* Requests run to their end, and the provider delivers an announcement    *)
(* again until it is acknowledged.                                         *)
(***************************************************************************)
OrdersFairness ==
  /\ \A h \in Handler : WF_ordersVars(Handle(h))
  /\ \A e \in Event :
       SF_ordersVars(\E h \in Handler, a \in sent : a.id = e /\ WebhookLookup(h, a))

FairOrdersSpec == OrdersSpec /\ OrdersFairness
-----------------------------------------------------------------------------
(***************************************************************************)
(* Properties.                                                             *)
(***************************************************************************)

\* Deliveries are idempotent and crash-safe: a success announcement is marked processed
\* exactly when its credits were booked, however often and to however many handlers it
\* was delivered and wherever they died (README: "duplicate processed events are
\* acknowledged without charging again").
ProcessedIffCredited ==
  \A a \in sent : a.successful =>
    (webhook[a.id] = "PROCESSED" <=> \E r \in ledger : r.type = "PURCHASE" /\ r.key = a.id)

\* Refunds of an order stay within what it bought, even after administrators refunded it
\* under several keys, and REFUNDED is a full refund of an order that was credited.
RefundsWithinPurchase ==
  \A o \in Order :
    /\ Refunded(o) <= CreditTotal
    /\ Refunds(o) # {} => Purchases(o) # {}
    /\ order[o].status = "REFUNDED" => Refunded(o) = CreditTotal

\* An order that is PAID was credited.
PaidWasCredited == \A o \in Order : order[o].status = "PAID" => Purchases(o) # {}

\* A success that was announced and still waits for its credits.
AwaitsCredit(e) ==
  \E a \in sent :
    /\ a.id = e /\ a.successful
    /\ webhook[e] # "PROCESSED"
    /\ LET o == issued[a.payment]
       IN order[o].payment = a.payment /\ order[o].status = "PENDING_PAYMENT"

\* A success announcement is credited in the end, whatever crashes and duplicates get in
\* the way, unless the order stopped waiting for that payment.
PaymentCredited == \A e \in Event : AwaitsCredit(e) ~> ~AwaitsCredit(e)
=============================================================================
