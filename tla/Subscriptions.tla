------------------------------ MODULE Subscriptions ------------------------------
(***************************************************************************)
(* Buying a subscription: SubscriptionCommerceService (billing/            *)
(* subscription-commerce.service.ts) for one user's orders.  The webhook   *)
(* reads the order, its event and the provider's verdict one after the     *)
(* other, activates the order in a transaction that runs at PostgreSQL's   *)
(* default level READ COMMITTED, and grants the plan's credits after the   *)
(* commit.  Plans on sale have an interval, a price and included credits.  *)
(* Administrators, who may set User.plan to anything, are not modelled.    *)
(***************************************************************************)
EXTENDS PaymentProvider, Sequences

CONSTANTS
  Payer,      \* startPayment calls in progress
  Handler,    \* webhook requests in progress
  MaxStarts,  \* bound: payments started per order
  MaxDay,     \* bound: days the model lasts
  MaxCrashes  \* bound: requests that die half way

ASSUME MaxDayAssumption == MaxDay \in Nat \ {0}
ASSUME HandlerAssumption == IsFiniteSet(Handler)

VARIABLES
  order,         \* SubscriptionOrder rows: (user, Idempotency-Key) pairs, each for its plan
  attempt,       \* status of the SubscriptionPaymentAttempt row of a payment
  webhook,       \* PaymentWebhookEvent rows: whether seen, whether processedAt is set
  subscription,  \* UserSubscription rows, in the order they were created
  userPlan,      \* User.plan: FREE, or the plan of that order
  granted,       \* keys `sub:order:day` of the promotion entries in the ledger
  today,         \* the calendar day, UTC
  starting,      \* startPayment in progress
  handler,       \* tryProcessWebhook in progress
  crashes

tables == <<order, attempt, webhook, subscription, userPlan, granted>>
subscriptionVars == <<tables, provider, today, starting, handler, crashes>>

NoRequest == [pc |-> "idle"]

SubscriptionsInit ==
  /\ order = [o \in Order |-> [status |-> "NONE", payment |-> "none", expired |-> FALSE]]
  /\ attempt = [p \in Payment |-> "NONE"]
  /\ webhook = [e \in Event |-> "NONE"]
  /\ subscription = <<>>
  /\ userPlan = "FREE"
  /\ granted = {}
  /\ today = 1
  /\ ProviderInit
  /\ starting = [c \in Payer |-> NoRequest]
  /\ handler = [h \in Handler |-> NoRequest]
  /\ crashes = 0

IsActive(i) == subscription[i].status = "ACTIVE"
ActiveRows == {i \in DOMAIN subscription : IsActive(i)}

-----------------------------------------------------------------------------
CreateOrder(o) ==
  /\ order[o].status = "NONE"
  /\ order' = [order EXCEPT ![o].status = "CREATED"]
  /\ UNCHANGED <<attempt, webhook, subscription, userPlan, granted, provider, today, starting,
                 handler, crashes>>

\* Thirty minutes pass: expiresAt is no longer in the future.
OrderExpires(o) ==
  /\ order[o].status \in {"CREATED", "PENDING_PAYMENT"}
  /\ ~order[o].expired
  /\ order' = [order EXCEPT ![o].expired = TRUE]
  /\ UNCHANGED <<attempt, webhook, subscription, userPlan, granted, provider, today, starting,
                 handler, crashes>>

(***************************************************************************)
(* startPayment: read and check, ask the provider, write without looking   *)
(* at the order again.                                                     *)
(***************************************************************************)
Starts(o) ==
  PaymentsFor(o) + Cardinality({c \in Payer : starting[c].pc = "asking" /\ starting[c].order = o})

StartPaymentRead(c, o) ==
  /\ starting[c].pc = "idle"
  /\ Starts(o) < MaxStarts
  /\ order[o].status \in {"CREATED", "PENDING_PAYMENT"}
  /\ ~order[o].expired
  /\ starting' = [starting EXCEPT ![c] = [pc |-> "asking", order |-> o]]
  /\ UNCHANGED <<tables, provider, today, handler, crashes>>

StartPaymentCreate(c) ==
  /\ starting[c].pc = "asking"
  /\ \E p \in Payment :
       /\ Issue(starting[c].order, p)
       /\ starting' = [starting EXCEPT ![c] =
                         [pc |-> "created", order |-> starting[c].order, payment |-> p]]
  /\ UNCHANGED <<tables, today, handler, crashes>>

StartPaymentWrite(c) ==
  LET o == starting[c].order
      p == starting[c].payment
  IN /\ starting[c].pc = "created"
     /\ attempt' = [attempt EXCEPT ![p] = "PENDING"]
     /\ order' = [order EXCEPT ![o].status = "PENDING_PAYMENT", ![o].payment = p]
     /\ starting' = [starting EXCEPT ![c] = NoRequest]
     /\ UNCHANGED <<webhook, subscription, userPlan, granted, provider, today, handler, crashes>>

PaymentAnnounced ==
  /\ \E e \in Event, p \in Payment, successful \in BOOLEAN : Announce(e, p, successful)
  /\ UNCHANGED <<tables, today, starting, handler, crashes>>

-----------------------------------------------------------------------------
(***************************************************************************)
(* tryProcessWebhook.  What a delivery of a processed event changes is     *)
(* nothing; nor does one whose payment is not the order's.                 *)
(***************************************************************************)
HandlerAt(h, pc) == handler[h].pc = pc
EventOf(h) == handler[h].event.id
PaymentOf(h) == handler[h].event.payment
OrderOf(h) == issued[PaymentOf(h)]
HandlerGo(h, pc) == handler' = [handler EXCEPT ![h].pc = pc]
End(h) == handler' = [handler EXCEPT ![h] = NoRequest]

WebhookReceive(h, a) ==
  /\ HandlerAt(h, "idle")
  /\ webhook[a.id] # "PROCESSED"
  /\ order[issued[a.payment]].payment = a.payment
  /\ handler' = [handler EXCEPT ![h] =
                   [pc |-> "lookup", event |-> a, day |-> 1, active |-> {}]]
  /\ UNCHANGED <<tables, provider, today, starting, crashes>>

WebhookLookup(h) ==
  /\ HandlerAt(h, "lookup")
  /\ CASE webhook[EventOf(h)] = "PROCESSED" -> End(h)
       [] webhook[EventOf(h)] = "RECEIVED"  -> HandlerGo(h, "verify")
       [] OTHER                             -> HandlerGo(h, "insert")
  /\ UNCHANGED <<tables, provider, today, starting, crashes>>

\* A second insert of the same event violates the unique index and fails the request.
WebhookInsert(h) ==
  /\ HandlerAt(h, "insert")
  /\ IF webhook[EventOf(h)] = "NONE"
     THEN HandlerGo(h, "verify") /\ webhook' = [webhook EXCEPT ![EventOf(h)] = "RECEIVED"]
     ELSE End(h) /\ UNCHANGED webhook
  /\ UNCHANGED <<order, attempt, subscription, userPlan, granted, provider, today, starting,
                 crashes>>

\* The payment failed: the order is not looked at again.
WebhookFail(h) ==
  /\ HandlerAt(h, "verify")
  /\ ~handler[h].event.successful
  /\ order' = [order EXCEPT ![OrderOf(h)].status = "FAILED"]
  /\ attempt' = [attempt EXCEPT ![PaymentOf(h)] = "FAILED"]
  /\ webhook' = [webhook EXCEPT ![EventOf(h)] = "PROCESSED"]
  /\ End(h)
  /\ UNCHANGED <<subscription, userPlan, granted, provider, today, starting, crashes>>

\* activatePaidOrder reads the order: PAID is returned, FAILED throws, and neither touches
\* the event.
ActivateRead(h) ==
  /\ HandlerAt(h, "verify")
  /\ handler[h].event.successful
  /\ IF order[OrderOf(h)].status \in {"CREATED", "PENDING_PAYMENT"}
     THEN handler' = [handler EXCEPT ![h].pc = "cancel", ![h].day = today]
     ELSE End(h)
  /\ UNCHANGED <<tables, provider, today, starting, crashes>>

KeyOf(h) == [order |-> OrderOf(h), day |-> handler[h].day]

\* The transaction begins: it cancels the rows that are ACTIVE as it sees them.
ActivateCancel(h) ==
  /\ HandlerAt(h, "cancel")
  /\ handler' = [handler EXCEPT ![h].pc = "commit", ![h].active = ActiveRows]
  /\ UNCHANGED <<tables, provider, today, starting, crashes>>

CanceledRows(h) ==
  [i \in DOMAIN subscription |->
     IF i \in handler[h].active THEN [subscription[i] EXCEPT !.status = "CANCELED"]
                                ELSE subscription[i]]

ActivateCommitSlip(h) ==
  /\ HandlerAt(h, "commit")
  /\ subscription' = Append(CanceledRows(h), [status |-> "ACTIVE", key |-> KeyOf(h)])
  /\ userPlan' = OrderOf(h)
  /\ order' = [order EXCEPT ![OrderOf(h)].status = "PAID", ![OrderOf(h)].payment = PaymentOf(h)]
  /\ attempt' = [attempt EXCEPT ![PaymentOf(h)] = "SUCCEEDED"]
  /\ HandlerGo(h, "grant")
  /\ UNCHANGED <<webhook, granted, provider, today, starting, crashes>>

ActivateCommitSwappedSlip(h) ==
  /\ HandlerAt(h, "commit")
  /\ subscription' = Append(CanceledRows(h), [status |-> "CANCELED", key |-> KeyOf(h)])
  /\ userPlan' = OrderOf(h)
  /\ order' = [order EXCEPT ![OrderOf(h)].status = "PAID", ![OrderOf(h)].payment = PaymentOf(h)]
  /\ attempt' = [attempt EXCEPT ![PaymentOf(h)] = "SUCCEEDED"]
  /\ webhook' = [webhook EXCEPT ![EventOf(h)] = "PROCESSED"]
  /\ HandlerGo(h, "grant")
  /\ UNCHANGED <<granted, provider, today, starting, crashes>>

\* ... and its other writes, all of which appear at its commit.
ActivateCommit(h) ==
  /\ HandlerAt(h, "commit")
  /\ subscription' = Append(CanceledRows(h), [status |-> "ACTIVE", key |-> KeyOf(h)])
  /\ userPlan' = OrderOf(h)
  /\ order' = [order EXCEPT ![OrderOf(h)].status = "PAID", ![OrderOf(h)].payment = PaymentOf(h)]
  /\ attempt' = [attempt EXCEPT ![PaymentOf(h)] = "SUCCEEDED"]
  /\ webhook' = [webhook EXCEPT ![EventOf(h)] = "PROCESSED"]
  /\ HandlerGo(h, "grant")
  /\ UNCHANGED <<granted, provider, today, starting, crashes>>

\* grantPromotionCredits: an entry with the key answers the call.
GrantIncluded(h) ==
  /\ HandlerAt(h, "grant")
  /\ granted' = granted \union {KeyOf(h)}
  /\ End(h)
  /\ UNCHANGED <<order, attempt, webhook, subscription, userPlan, provider, today, starting,
                 crashes>>

-----------------------------------------------------------------------------
Midnight ==
  /\ today < MaxDay
  /\ today' = today + 1
  /\ UNCHANGED <<tables, provider, starting, handler, crashes>>

\* A request dies: the process stops, or the database or the provider fails it.  What its
\* transaction wrote is rolled back.
RequestDies ==
  /\ crashes < MaxCrashes
  /\ crashes' = crashes + 1
  /\ \/ \E c \in Payer :
          /\ starting[c].pc # "idle"
          /\ starting' = [starting EXCEPT ![c] = NoRequest]
          /\ UNCHANGED handler
     \/ \E h \in Handler : ~HandlerAt(h, "idle") /\ End(h) /\ UNCHANGED starting
  /\ UNCHANGED <<tables, provider, today>>

Handle(h) ==
  \/ WebhookLookup(h) \/ WebhookInsert(h) \/ WebhookFail(h)
  \/ ActivateRead(h) \/ ActivateCancel(h) \/ ActivateCommit(h) \/ GrantIncluded(h)

SubscriptionsNext ==
  \/ \E o \in Order : CreateOrder(o) \/ OrderExpires(o) \/ \E c \in Payer : StartPaymentRead(c, o)
  \/ \E c \in Payer : StartPaymentCreate(c) \/ StartPaymentWrite(c)
  \/ PaymentAnnounced
  \/ \E h \in Handler : Handle(h) \/ \E a \in sent : WebhookReceive(h, a)
  \/ Midnight
  \/ RequestDies

SubscriptionsSpec == SubscriptionsInit /\ [][SubscriptionsNext]_subscriptionVars
-----------------------------------------------------------------------------
(***************************************************************************)
(* Properties.                                                             *)
(***************************************************************************)

\* Deliveries are idempotent and crash-safe: an order has a subscription exactly when one of
\* its success announcements is marked processed, so none is acknowledged without effect and
\* none that had its effect is delivered for ever.  Credits are granted for subscriptions that
\* were committed, under the key written there (creditsGrantedForKey), and so once per order and
\* day however often it is activated.
SubscribedIffProcessed ==
  /\ \A o \in Order :
       (\E i \in DOMAIN subscription : subscription[i].key.order = o)
         <=> \E a \in sent : a.successful /\ issued[a.payment] = o /\ webhook[a.id] = "PROCESSED"
  /\ \A k \in granted : \E i \in DOMAIN subscription : subscription[i].key = k

\* Whoever bought a subscription has one: the newest is ACTIVE and is what User.plan says,
\* however many activations cancel each other's (while no administrator sets User.plan).
\* Subscriptions that are ACTIVE at once were activated by requests that overlapped: there is
\* one per handler at most, and one altogether when webhooks come one at a time.
NewestIsActive ==
  /\ subscription = <<>> => userPlan = "FREE"
  /\ subscription # <<>> =>
       LET newest == subscription[Len(subscription)]
       IN newest.status = "ACTIVE" /\ newest.key.order = userPlan
  /\ Cardinality(ActiveRows) <= Cardinality(Handler)
=============================================================================
