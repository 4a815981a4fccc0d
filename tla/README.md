# Formal model of the dLaner backend

TLA+ specifications of the parts of this NestJS/Prisma backend whose correctness depends on
order: who reads before whom writes, what is left when a request dies half way, what a repeated
call does. They are model-checked with TLC and, where it matters most, proved with TLAPS.
Paths below are relative to the repository root (`src/credits/..` is the TypeScript source).

    tlc -config credit_ledger.cfg MCCreditLedger      # a run
    tlapm CreditProofs.tla                            # the proofs

## 1. The system

A single NestJS application over PostgreSQL (Prisma). There is no worker process: every operation
runs in the HTTP request that asks for it, and `src/maintenance/retention.ts` is a script an
external scheduler runs. Components meet in the database, in the credit service, which
most of them call, and in process memory only inside the request queue.

| Component | State | Operations | Talks to | What is hard | What makes it correct |
|---|---|---|---|---|---|
| **Credit ledger** `src/credits/credit.service.ts` | one `CreditAccount` per user (cached balances, lifetime totals, version), append-only `CreditLedgerEntry` rows, `CreditReservation` rows | grant, promotion, refund, deduct, consume, reserve, capture, release, completePurchase, refundPurchase, expireReservations, rebuildBalanceFromLedger | called by everything that costs or earns credits | idempotency keys, derived keys, transactions on snapshots that conflict and are retried, the sweep's two statements per hold, reconciliation in three statements | cached balances = ledger sums; holds = ACTIVE reservations; one effect per key; nothing made or destroyed |
| **Credit commerce** `src/credits/credit-commerce.service.ts` | `CreditPackage`, `CreditPurchaseOrder`, `PaymentAttempt`, `PaymentWebhookEvent` | package CRUD, createOrder, startPayment, cancelOrder, processWebhook | payment provider, credit ledger | the order is read, the provider awaited, then the order written; events repeat, reorder and arrive at several handlers | credited once, refunded within the purchase, event processed iff credited |
| **Payments** `src/payments/` | none | createPayment, verifyPayment, parseWebhook | external | - | modelled as the environment of commerce |
| **Subscriptions** `src/billing/` | `SubscriptionPlan`, `SubscriptionOrder`, `UserSubscription`, `User.plan` | order, pay, activate, grant, resolve the plan, storage quota | commerce's webhook, credit ledger | status read outside the transaction, grant after the commit | subscribed iff paid for; one ACTIVE subscription; granted for what was bought |
| **AI requests** `src/ai/ai.service.ts` | `AiRequest` rows (or an external D1 store) | createAndExecute, cancel, list, cleanup | credit ledger, AI provider, the user's key, history store | nine awaits between lookup and completion, nested catches, retries with a key, payloads in two databases | charged = recorded; failures free; no hold forgotten; the history stays readable |
| **AI image operations** `src/ai/ai-operations.execute.service.ts`, `src/ai/providers/`, `src/ai/ai-gallery.service.ts` | the same rows, gallery objects | execute, executeCustom, the adapters' execute, persist, list | credit ledger, storage, image providers | predictions that are polled, errors classified by their words, a failure after the capture | as above; no COMPLETED without an image |
| **AI credentials and catalogue** `src/ai/ai-credentials.service.ts`, `ai-operations.catalog.ts` | `UserAiCredential`, `AiOperationType`, `AiProviderVariant` rows | CRUD, test, markUsed, set default | secret box, image operations | two "set default" calls, a key replaced while a request uses it | one default; only a refused key is INVALID |
| **Sessions** `src/auth/auth.service.ts`, `src/admin/` | `User`, `Session`, verification codes, reset tokens, captchas | register, verify, login, refresh, logout, reset and change password, block | mail, JWT guard | refresh rotation with a grace window, reuse detection, block racing a login | a revoked session stays revoked; blocking, deletion and password operations end every session there is |
| **Social sign-in** `src/auth/social-auth.service.ts` | attempts, grants, linked accounts | start, callback, exchange, send proof | identity providers, sessions | one-time grants, account linking, what a provider's "verified" means | nobody is linked or verified who has not shown that he reads the mailbox |
| **WordPress** `src/wordpress/` | connection requests, sites, edit sessions, assets | create, approve, deny, poll, rotate, disconnect, open, complete, add asset | storage | approve, deny and expiry write one row without a condition | a site has a key its user approved; a result completed in time is kept |
| **Templates** `src/templates/` | templates, versions, bundles, shares | create (one or many), update, delete, version, submit, review, publish, unpublish, share, open | storage, categories | checks before the storage write, transactions after it, objects that are never transactional | what is public is approved and has its objects; a share is opened as often as it may |
| **Lands** `src/lands/` | lands, revisions, their objects | create, save, restore, delete | storage quota, effective plan | retention drops rows and objects under readers, quota checked before the upload | every row has its object and every object its row; the quota holds |
| **Request tracking** `src/request-tracking/` | in-memory queue, `ApiRequestRecord` rows | sanitize, enqueue, flush, shutdown hook, cleanup, list, usage | every HTTP request | two loops on one queue, retries of writes, exit; pages and counts of a table that changes | nothing accepted vanishes silently; no secret is stored |
| **Mail, MCP, audit, activity, users list** | rows written once | send, render, record | - | - | I/O and reporting; not modelled |
| **Configuration, bootstrap, Prisma module, health** | environment | validation, wiring | - | - | not modelled |

`PROJECT.json` lists, under `hazards`, every place in this code where such a difficulty bites, with
the properties that would catch it, or the reason there is none yet.

## 2. Modules

| Module | Models | Read with |
|---|---|---|
| `Sums` | `Total(f, n)`, the one recursion needed, as a recursive function | |
| `CreditBook` | the body of every credit transaction, as operators on one user's book | `credit.service.ts` |
| `CreditLedger` (extends `CreditBook`) | CreditService as a system: transactions as steps, sweeps, reconciliations, crashes | `credit.service.ts`, `retention.ts` |
| `CreditTransactions` (extends `CreditLedger`) | the same service one level down: `serializable()`, snapshots, the version check, conflicts and retries; implements `CreditLedger` | `credit.service.ts` |
| `PaymentProvider` | the external provider both kinds of orders are paid with | `payment-provider.ts` |
| `CreditOrders` (extends `PaymentProvider`) | orders, payments, webhooks, refunds of one user | `credit-commerce.service.ts`, `credit.service.ts` |
| `Subscriptions` (extends `PaymentProvider`) | subscription orders, payments, webhooks, activation and grant of one user | `subscription-commerce.service.ts` |
| `AiRequests` (extends `CreditBook`) | createAndExecute and cancel on the user's book | `ai.service.ts` |
| `AiCatalogue` | the variants of one operation type and one API key of the user's own | `ai-operations.catalog.ts`, `ai-credentials.service.ts` |
| `ImageProviders` | the adapters and what they make of a provider's answers | `ai/providers/` |
| `AiImages` (extends the two above and `CreditBook`) | image operations from the hold to the gallery | `ai-operations.execute.service.ts`, `ai-gallery.service.ts` |
| `AiTexts` (extends `AiImages`) | text requests on the same key, the external history, retention | `ai.service.ts`, `ai-history.store.ts`, `ai/providers/` |
| `RequestPersistence` | the queue of finished requests | `request-persistence.service.ts` |
| `Sanitizer` | what is kept of a query and a body, as functions | `sanitizer.ts` |
| `RequestTracking` (extends the two above) | requests on their way into the table, retention, an administrator's lists and reports | `request-tracking.middleware.ts`, `api-requests.service.ts`, `retention.ts` |
| `SessionFamilies` | the abstract specification of a login: a family of refresh tokens | |
| `Accounts` | users and sessions; implements `SessionFamilies` | `auth.service.ts`, `admin.service.ts`, `users.service.ts` |
| `SocialProfiles` | what the server makes of each provider's word | `social-auth.providers.ts` |
| `SocialSignIn` (extends `Accounts`, instantiates `SocialProfiles`) | sign-in, sign-up and linking through a provider | `social-auth.service.ts` |
| `Templates` | one template, its versions and objects, review and publication | `templates.service.ts`, `template-storage.ts` |
| `TemplateShares` (extends `Templates`) | its share links | `templates.service.ts` |
| `Lands` | one user's lands, revisions, objects and quota | `lands.service.ts`, `billing-storage.service.ts` |
| `WordPress` | connection requests, sites, keys, edit sessions of one domain | `src/wordpress/` |
| `MC...` | small instances for TLC: scenarios, symmetry, functions as constants | |
| `SumTheorems` | lemmas on sums over sequences and over finite sets | |
| `CreditBookTheorems` | what each transaction of `CreditBook` preserves of a user's book | |
| `CreditProofs` (`CreditLedger`, `CreditTransactions`, `CreditOrders`), `AiRequestsProofs`, `AiTextsProofs` (with `AiImages`, `AiCatalogue`, `ImageProviders`), `PlatformProofs` (`RequestPersistence`, `RequestTracking`, `Accounts`, `SocialSignIn`), `ContentProofs` (`Templates`, `TemplateShares`, `WordPress`), `BillingProofs` (`Lands`, `Subscriptions`) | the proofs about the modules named | |

`PROJECT.json` names under `map` the lines each definition translates.

### State and actions

**CreditBook / CreditLedger.** `book[u]` is what the database holds of user `u`: the
account row's columns (`available` is `availableBalance`, `reserved` is `reservedBalance`), the
ledger rows in insertion order and the reservations, whose id is their position. For each
transaction `XOk(b, ..)` says when it writes (no prior entry with its key, every check and every
conditional `updateMany` passes) and `X(b, ..)` is the book it leaves: account, ledger rows and
reservation together. A call that throws or answers from a prior entry changes nothing and is
not a step. The public operations are actions of `CreditLedger` with the same names.
`expireReservations` is one query (`SweepFind`) and, per hold, a transaction (`SweepRelease`) and
a separate update (`SweepMark`); a hold settled under it throws out of the loop (`SweepAbort`),
and a process may die anywhere (`SweepCrash`). `rebuildBalanceFromLedger` is three steps
(`RebuildReadAccount`, `RebuildSumLedger`, `RebuildFinish`). It is modelled with `repair = true`
and an actor; the repository's own controller passes `false`, which only removes its write.
`completePurchase` and `refundPurchase` change an account the way `GrantCredits` with
`purchase` and `RefundCredits` do; what they do to orders is in `CreditOrders`.
Each transaction is one step here; that `serializable()` and the version checks add up to that is
what `CreditTransactions` shows. The one thing a commit cannot promise is the clock: whether a
hold has expired was asked when the capture read it, so `CaptureReservation` asks only what the
database still vouches for (`CaptureFits`), and a hold a sweep has found may yet be captured.

**CreditTransactions.** `tx[w]` is the transaction of a client or of a sweep's
`releaseReservation`: the request, the number of the attempt, and the `snapshot` of the user's
book. `Look` is its reads and checks; if they find an earlier row or throw, it ends there
(`Answer`, `SweepAnswered`, `SweepRefused`). `Commits` is its writes, as the code makes them:
the account and the reservation are changed where they are, by differences (`increment`), and
the new rows hold balances computed from the snapshot (`Written`); PostgreSQL lets it commit
only if the account row is still the one of the snapshot. A `Conflict` (P2034 or P2002,
`isRetryable`) may hit an attempt at any time and starts it over, `Attempts` times at most; then,
or with any other error, or with the process, the call ends (`GiveUp`, `SweepDies`). A commit may
also happen and never be heard of, so that the client asks again with the same key. The sweep's query
and mark, reconciliation and the passing of time are the steps of `CreditLedger`. What is assumed of the
database is that a transaction reads one snapshot and that, of two that overlap and update one account
row, only one commits.
`AiRequests` and `AiImages` keep a capture's look and commit in one step.

**CreditOrders.** `order`, `attempt`, `webhook`, `ledger` are the rows; `issued` and `sent` are
the provider's; `call` and `handler` hold the local variables of `startPayment` and
`processWebhook`. Every database statement outside a transaction, and every transaction, is a
step. The provider is external (`Announce`, `StartPaymentCreate`): it delivers what it
announced any number of times, to any handler, in any order, and never announces a
failure after a success. An order stands for a (user, Idempotency-Key) pair, so a repeated
`createOrder`, which answers with the existing order, changes nothing.

**Subscriptions.** The same rows and provider, with one step per await of `tryProcessWebhook`: the
order is read, the event looked up, then inserted, the provider asked, and only then
`activatePaidOrder` reads the status (`ActivateRead`, which also takes the calendar day of the
credit key). Its transaction runs at PostgreSQL's default READ COMMITTED, not Serializable: it
is two steps, the `updateMany` that sees the ACTIVE rows committed by then (`ActivateCancel`)
and the commit, where all its writes appear (`ActivateCommit`). Row locks only delay one of two
such transactions, and exclude none of the outcomes. `GrantIncluded` comes after the commit.

**AiRequests.** `call[c]` is the place and the local variables of one `createAndExecute`; `book`
is the user's credits, with `CreditBook`'s transactions; `record` the `AiRequest` rows.
`reference[k]` is the request id hashed into the `requestHash` of the reservation with key `k`:
`KeyOf` and `RequestIdOf` are constants because a client chooses its Idempotency-Key (without
one the key is a hash of the input) and may send its own `X-Request-Id`. The expiry sweep is one
step. `left` and the kept `cost` of a dead call are history.

**AiImages.** `job[j]` is one `runImageJob` (or `testConnection`) between two awaits: hold,
record, adapter, capture, `markUsed`, the object, the row, and the catch, which releases, marks
the key and sets FAILED. The adapter's own progress is `call[j]` of `ImageProviders`: Replicate
is asked for a version, creates a `prediction[j]` that runs by itself, and is polled at most
`MaxPolls` times; the others answer once. An answer is its HTTP status, whether its words read
like a refused key, and whether it holds an image: exactly what `isProviderAuthError` and the
adapters tell apart. `AiCatalogue` has the transaction that makes a variant the default in two
steps (READ COMMITTED: it clears what it sees, then commits) and the credential row, whose `key`
counts the API keys it has held, so that a request may report on a key replaced meanwhile.

**AiTexts.** `text[t]` is one `createAndExecute` with a credential of the user's own, one step per
await, next to the image jobs that use and judge the same key; keys, credits and cancellation are
those of `AiRequests`. Every text adapter is one `TextAnswers`: `providerFetch` keeps what the
provider said and not its status. `history[t]` is the row in D1: an INSERT may happen and not be
acknowledged, or happen later (`InsertLate`); an UPDATE may happen and not be acknowledged.
`stored` is `externalStored`, `left` is history. `CleanupHistory` and `CleanupRows` are the two
statements of `cleanup`; the store expires nothing before PostgreSQL does, as its row is younger.

**RequestPersistence / RequestTracking.** A step is the code between two awaits. `loop` has the two
callers of `flush`, `process()` and the shutdown hook, which shift from one queue; `writing[r]` is
the attempt number of a `persistWithRetry`. The external database answers an upsert with success,
or with failure with or without having committed it. `RequestTracking` puts the middleware before
the queue (`Arrive`, `Finish`) and the table behind it: `rows` is the table in order, a list is
read page by page with `findMany`'s cursor, a report counts statement by statement. A payload is
the set of its leaves, each sensitive or not, over-long or not, cut off by the bounds or not.

**Accounts.** `user`, `identity`, `session` are the rows; verification codes and reset tokens are
columns of `user` here. `refresh` is Serializable and one step, in three actions by its outcome;
login, verification, password change and unblocking read before they hash or send another statement
and are two or three. A refresh token is its `iat` second: it is signed from user, session and second only, so two
of one second are one token. `Families` maps a session to a family: closed when revoked
or expired, its newest token `current`, the honoured one `prev` until the grace is over.

**SocialSignIn.** `flow[x]` is an attempt, the grant it leads to and the request that redeems it.
The conditional updates that claim attempt and grant make a second callback or exchange a step not
taken. The exchange's transaction is READ COMMITTED: its reads are one step (`LinkRead`,
`SignInRead`, `SignUpRead`), its writes and the constraints they meet another. `facts` is the
world: the email an account shows, what the provider says of it, and whether who uses the account
reads that mailbox; `SocialProfiles!Guaranteed` is the assumption on providers, which names
what Google (for mail it hosts) and GitHub (for a verified primary email) stand for.

**Templates / TemplateShares.** `template` and `version` are rows, `stored` the objects. Creating a
version is a check and an object (`VersionCheck`) and a transaction (`VersionWrite`), or the object's
deletion; a review is a check, and for an approval the bundle (`PublishPut`) and a transaction.
`driver` matters because the local one refuses to write over a bundle (flag `wx`) and S3 does not.
`createBulk` is seen from one of its items. Opening a share is Serializable without a retry: it
commits if nobody has updated the row since its read.

**Lands.** A save is the quota's sum (`SaveRead`), the object (`SavePut`), the transaction that an
advisory lock makes exclusive (`SaveWrite`), and the deletion of the objects whose rows it dropped.

**WordPress.** Each operation on a request or an edit session reads the row, perhaps expires it,
and writes without a condition: two steps each. The key of a request is the client's: nothing asks
whether it is new, and a plugin keeps the one it drew and brings it again when it reconnects
(`docs/pdf-sources/wordpress-auth-guide-fa.html`), so `CreateRequest` takes any `Key`, one that `RotateKey` drew included.
`overlapped` and `drawnFor` are history: approvals in flight together with another decision of their request, and whom
a key was drawn for. A request's time is looked at only while it is PENDING, and so it lapses only then.

### Names ending in `Slip`

Beside some definitions stands another with the suffix `Slip` (`CaptureFitsKeySlip` before
`CaptureFits`): the same definition with a plausible mistake - a dropped check, a missing row, a
lost reset. No specification uses them. They record, per property, a mistake that the property
detects: `PROJECT.json` pairs them under `mutants`, and replacing the body of the definition by
the slip makes TLC report the property of that pair.

## 3. Runs

The bounds end every behaviour (a full ledger, no key left, every call done), so deadlock checking
is off in all of them.

| Run | Instance | Shows |
|---|---|---|
| `credit_ledger` | one user, two keys, amounts 0-3 with a maximum of 2; a reconciliation with repair, or two sweeps with batches of 2 and one crash; no new operation in a ledger of 3 rows (captures and releases may take it to 7); fairness | all mixes of operations keep balances, ledger and reservations consistent; the reconciliation may see a difference, but then its version is out of date and it repairs nothing; a hold is returned once however sweeps, owner and crash interleave; EXPIRED is always the sweep's doing; every expired hold is returned or captured in the end |
| `transactions` | one user, one key, two clients with two attempts each, amounts 1 and 2, purchases and consumptions, holds and what ends them; a reconciliation with repair, or two sweeps and one crash, next to whom one client at a time is busy; no new operation in a ledger of 3 rows | every step of snapshots, conflicts, retries and lost answers is a step of `CreditLedger` or none; a sweep whose release conflicts, finds another's row, is refused or dies does what a sweep there does; the version stands for all that was read; who is told that it is done finds it in the books |
| `orders` | one order started by two overlapping calls, two payments, two events, two handlers, two refund keys, failures, one crash, fairness | an event is processed iff its credits were booked; refunds stay within the purchase; PAID was credited; the payment an order waits for is credited in the end |
| `subscriptions` | two orders, two payments, two events, two handlers, two days, failures, one crash | an order has a subscription iff a success of it is marked processed; the newest subscription is ACTIVE |
| `ai_requests` | a request sent twice with its Idempotency-Key, and two without a key that share their input, each of these perhaps on a credential of the user's own; costs below and above the estimate, one fault | charged = recorded, failures are free, no hold is forgotten |
| `ai_images` | four scenarios: two administrators change two variants; two jobs on the platform's key at two prices, all adapters' answers, one fault; two jobs on a key that is replaced, tested and removed; one such job and one text on it, with the external history and retention | a finished request costs what its row says, or nothing; a key is INVALID only if a provider refused it; one default variant; what a text asked and was answered can be read until retention is due |
| `requests_queue` | two scenarios: four alike records, a queue of two, two attempts, shutdown; or three records, one of them of any shape, retention and an administrator who pages or asks for the report; fairness | bound, no silent loss, no lost wake-up, one `process()`, every record written or reported unless the process exits; no secret stored; pages and counts right up to what changed between them |
| `sign_in` | one user; two scenarios: seconds 0-2 pass, two sessions, one request in several steps; or all within one second with two social flows and two accounts, both of Google or of GitHub and Facebook | sessions implement `SessionFamilies`; whatever ends all sessions leaves none of the earlier ones; nobody is linked or verified unproved; one account per provider and user |
| `templates` | two versions and two requests of several steps on either driver; or one share, two visits that fit and a third, one version | the public pages show approved content; only what was submitted is approved; rows have objects; shares keep their limit |
| `lands` | two lands, two saves or restores in flight, four objects of two sizes, two limits, retention of 2, crashes | quota exceeded only by what overlapped; every revision readable; no object leaks without a failure |
| `wordpress` | two users, two requests, three keys, one edit session (opened when there is one request only), one asset, two operations in flight, crashes | a site has a key its user approved, or was given by rotation; a result completed in time is kept; assets have objects |

**Why these bounds.** The ledger properties speak of one user's rows, and no operation touches the
rows of two users. Two keys give every reuse (the same key for another operation, for the same
operation, for another reservation); three rows before the last captures are enough for a grant
and two holds with their ends, or a grant, a debit and a hold. Amounts 0 and 3 lie just outside the valid
range, and 1 and 2 give captures below and at the hold and debits at exactly the balance. A batch
of two is the smallest in which an exception in the loop leaves a hold behind. In `transactions` one key is
enough for every reuse by another client or in another attempt, two clients are one that reads and one that
overtakes it, and two attempts one that fails and one that finds what the first or the other client left.
What a run shows in separate scenarios (sweeps or a reconciliation, for one) is one instance whose CONSTRAINT
cuts off the states in which they meet; `credit_ledger` cuts off the mirror images of its two keys as well, as liveness forbids SYMMETRY.
Two handlers and
two events give every race of webhooks on one order; a third adds no new pair. Two handlers
may activate one subscription order twice, so that a third activation tests what it cancels; two days are the
midnight between two activations. In `AiRequests`
the costs 1 and 3 around an estimate of 2 give a capture with remainder and a refused one (a
capture of the whole hold is in `credit_ledger`), a balance of 3 one hold at a time, and the two
pairs of calls compete for it; the calls of a pair are symmetric. In `ai_images` a job of
one kind reads nothing one of another writes, which is why they are separate scenarios; the balance of 2 makes
two holds of price 2 exclude each other and two of price 1 not, and one poll reaches both a prediction that ends in time and one that does not.
A queue of two with four records reaches the full queue while both loops hold a record; a page of
one row makes every two rows a page boundary, and three records a boundary with rows on both sides. In
`sign_in` a grace of 0 seconds and times 0-2 separate "in the second of the rotation" from
"later"; a refresh and a social flow share nothing but the session row, so time does not pass where
flows run, and a third session exists only where a second link ends a behaviour.
In `templates` two versions and two requests are a submission overtaken by a version, two
approvals of one version, and an approval overtaken by an unpublication. In `lands` two
saves in flight are the quota's race, and a retention of 2 with four objects drops a row that a
restore is reading. Theorems (section 5) remove the bounds of all safety properties.

**Fairness.** `credit_ledger`: weak fairness of each sweep's steps - the script is run again
and again, and inside a run only its own exceptions and the (bounded) crashes stop it. Nothing is assumed
about users. `orders`: weak fairness of each handler (a started request runs) and strong
fairness of delivering an announced event to some handler - what a provider that redelivers until it is
acknowledged does; strong, because handlers may be busy. `requests_queue`: weak fairness of the
loops' callbacks (the event loop runs what is due) and of each upsert being answered. No
fairness is assumed of `enqueue`, of users, or of shutdown. The other runs check safety only:
nothing in that code is retried, so nothing there happens eventually unless somebody asks again.

### A disagreement between the code and its documents

`account_reactivated` is a run whose one property restates a sentence of the repository, and which TLC refutes
(`PROJECT.json`, `findings`): `docs/SOCIAL_AUTH.md` 49 says that an old OTP cannot reactivate a
blocked user. `verifyEmail` reads user and code, and its transaction then sets the status ACTIVE
with a condition on the code only; a block between the two is overwritten.

Also seen, without a run of their own:

- *Orders.* A `startPayment` that read the order before it was paid writes PENDING_PAYMENT over
  PAID, and a failed event handled after the success sets the order FAILED while its credits stay
  (README 230: completion atomically updates order and ledger). A second success event for a paid order is
  refused with "Paid order is missing its ledger entry" though the entry exists under the first event's key.
  The purchase limit counts PAID orders when an order is created, and an existing order is looked up outside the creating transaction.
- *Subscriptions.* A request that dies after the commit leaves an event marked processed whose
  credits nobody grants; two handlers that overlap leave two ACTIVE subscriptions and, around
  midnight, two grants; `User.plan` stays raised when the period ends. README 230 says invalid signatures are recorded, but
  the controller's first step throws before `processWebhook` can record them.
- *AI requests.* The exception thrown after marking `CREDIT_CAPTURE_FAILED` (README 259) is caught by
  the outer catch, which marks PROVIDER_ERROR; the update to PROCESSING has no condition, so a
  cancelled request runs and is charged (README 201: cancellation succeeds only while CREATED or
  QUEUED); without a key the same input twice is a key conflict; a retry after a crash between
  reserving and creating the row is a conflict for ever unless it repeats its `X-Request-Id`. A text
  adapter's error has no status, so a 401 whose words are unusual does not mark the key INVALID; a
  request whose last update fails stays PROCESSING, because `complete` is not awaited in the `try`.
- *Images.* A failure after the capture leaves a charged FAILED request; a record that cannot be
  created leaves its hold to the sweep; with charging disabled the row still shows a charge; any
  failure of `testConnection`, a network error included, marks a key INVALID, and any failure
  that is no refusal marks it ACTIVE; a Replicate error is recognised by its words alone, and
  a prediction given up after 60 polls may still succeed. The gallery asks for three times
  `limit` rows and may end early; its `createdAt` cursor skips rows of one instant.
- *Request tracking.* Shutdown does not wait for the record `process()` has shifted (README 176: shutdown
  hooks flush queued work); a repeated `X-Request-Id` loses the second record; a truncated query is
  not flagged; the ascending list ends early when retention deletes its cursor; `successfulRequests` is a
  difference of two statements and counts redirects; p95 is of the 10,000 fastest.
- *Accounts.* A login overlapping a block, or reading before a reset, leaves a session (README 121), which is
  usable as soon as the user is unblocked; a login that activates a pending user overwrites a block; unblocking a pending
  social user while verification is off makes him ACTIVE; with cookies, two tabs refreshing at
  once may revoke their session. WORDPRESS sessions are never created.
- *Templates.* `docs/TEMPLATES.md` 3 is contradicted by `createVersion`, which sets the current version
  before any approval (no page shows it: `PublicIsApproved`); on the local driver an
  approved version submitted again can never be approved again; on S3 an approval repeated and then
  rolled back deletes the bundle being served; a share shows a template that is deleted,
  archived or not approved; overlapping decisions on one submission overwrite one another.
- *Lands, WordPress.* Overlapping saves overrun the quota; two users who approve
  two requests with the plugin's one key, in turn, or one request at once, have two sites with one key, of which
  `resolve` serves the first the database returns; approve, deny and expire overwrite one another; a completed edit session
  overtaken by an expiry that had read it loses its result unless it was completed in time; assets' objects are never deleted.

## 4. What the properties say

- *Ledger.* `AccountsConsistent`: cached balances are the ledger's sums, the balances stored with
  each row replay the history, reservedBalance is the sum of the ACTIVE holds, and a reservation's
  own rows tell its state and price, and credits are conserved. `EffectOncePerKey`, `SettledForever`,
  `ExpiredWasSwept`, `MismatchIsStale`, `ExpiredHoldsReturned`. Of its transactions `ImplementsLedger`
  (the refinement: as if each ran alone) and `HeldIsTrue`: while the version stands, so does all that was
  read with it (`VersionGuards`), and an answer is booked for ever (`AnsweredIsBooked`).
- *Orders and subscriptions.* `ProcessedIffCredited`, `RefundsWithinPurchase`, `PaidWasCredited`,
  `PaymentCredited`; `SubscribedIffProcessed`, `NewestIsActive`.
- *AI.* `ChargesRecorded` and `FailedIsFree` of the calls with an Idempotency-Key, `NoForgottenHold` of
  all; `ImagesSettled`, `BlameIsDeserved`, `OneDefault`; `HistoryReadable`: whichever
  writes to the external store fail, are late or not acknowledged, one of the two databases has the payload.
- *Queue and table.* `NoSilentLoss`, `QueueServed`, `RecordSettles`; `SecretsRedacted`, `ReadsAreTrue`.
- *Accounts.* `SessionsAreFamilies` (the refinement: one token leads to the next, only the grace
  forgives an old one, what has ended stays so), `SessionsEnd`, `IdentityProved`.
- *Content.* `PublicIsApproved`, `OnlySubmittedApproved`, `RowsAreStored`, `SharesHold`;
  `QuotaHeld`, `RevisionsReadable`, `ObjectsAccounted`; `SitesWereApproved`
  (a denied, expired or undecided request connects nobody, one approval connects one account), `InTimeIsKept`, `AssetsAreStored`.

Several of these except what overlapping requests can do and name the exception in history
variables (`late`, `replaced`, `missed`, `overlapped`, `abandoned`): the property then says that
nothing *but* that overlap breaks the promise.

## 5. Proofs

All are checked by `tlapm` from SMT (Z3), Zenon and LS4, for every value of the constants that the
assumptions allow, which are those the modules state:

- `KeyAssumption` (the keys callers send are none of the derived ones: no client key ends in
  `:remainder`, and none starts with `expire:`), `MaxAmountAssumption`, `AmountAssumption`,
  `BatchSizeAssumption`, `CostAssumption`, `CreditTotalAssumption`, `QueueAssumption`,
  `TrackingAssumption`, `LimitsAssumption`, `DriversAssumption`, `KeepAssumption`: ranges;
- `NoneAssumption`: "none", which stands for null, is no order, payment or user;
- `CallAssumption` of `AiRequests`: no call with an Idempotency-Key has the operation key of one
  without (theirs is `ai:` and a hash of the input), and calls are finitely many;
- `SizesAssumption`, `CallersAssumption` of `Lands`, `HandlerAssumption` of `Subscriptions`: finitely many
  sizes (bodies are limited) and requests in flight;
- `JobAssumption`, `PriceAssumption`, `ProviderAssumption`, `ExternalAssumption` of the AI operations: image
  requests draw keys of their own, prices and the balance are amounts, the providers are those of the registry;
- `UsersAssumption` of `WordPress`: "none" is no user. That `rotateKey` draws a key nobody brought before
  (32 random bytes) is a guard of the action;
- `ProfileAssumption` of `SocialSignIn`: what providers guarantee (section 2);
- for `SessionsImplementFamilies` only, as hypothesis, `Ttl # 0`: `durationMs` would accept a
  refresh lifetime of `0s`, with which no session is ever fresh and the abstract family never opens.

| Theorem | Property | Strengthening |
|---|---|---|
| `CreditProofs`: `TypeCorrect`, `AlwaysConsistent`, `AlwaysConserved`, `AlwaysOncePerKey`, `AlwaysStale`, `SettledStaysSettled`, `ExpiredMeansSwept` | all safety of `credit_ledger` | `Inv`, `SweepInv` |
| `CreditProofs`: `TransactionsImplementLedger`, `TransactionsAreRight` | all of `transactions` | `TransactionsInv` |
| `CreditProofs`: `DeliveriesAreIdempotent`, `PaidOrdersWereCredited`, `RefundsStayWithinPurchase` | all safety of `orders` | `OrdersInv` |
| `AiRequestsProofs`: `ChargesAreRecorded`, `FailuresAreFree`, `HoldsAreMinded` | all of `ai_requests` | `BookOk`, `CallInv`, `Owned`, `Carried` |
| `AiTextsProofs`: `ImagesAreSettled`, `BlameIsJust`, `DefaultIsOne`, `HistoryIsReadable` | all of `ai_images` | `CreditsInv`, `CallInv`, `StoreInv`, `KeyInv`, `HistoryInv` |
| `PlatformProofs`: `QueueTypeCorrect`, `NothingIsLostSilently`, `QueueIsServed`; `TrackingIsQueueing`, `SecretsStayRedacted`, `ListsAreComplete`, `ReportsAddUp`, `AdministratorsReadTheTruth` | all safety of `requests_queue` | `FlagIsLoop`; `FinishedOnly`, `ListInv`, `ReportInv` |
| `PlatformProofs`: `EndedSessionsStayEnded`, `SignInProvesIdentity`, `SessionsImplementFamilies` | all of `sign_in` | `Inv` |
| `ContentProofs`: `PublicPagesAreApproved`, `ApprovedWasSubmitted`, `RowsKeepTheirObjects`, `SharesAreLimited` | all of `templates` | `Inv`, `ShareInv` |
| `ContentProofs`: `SitesNeedApproval`, `ResultsInTimeAreKept`, `AssetsKeepTheirObjects` | all of `wordpress` | `WordPressInv` |
| `BillingProofs`: `RevisionsCanBeOpened`, `NoObjectIsForgotten`, `OverlapBoundsOverrun` | all of `lands` | `KeysInv`, `QuotaInv` |
| `BillingProofs`: `ActivationsAreIdempotent`, `BuyersAreSubscribed` | all of `subscriptions` | `SubscriptionsInv` |

**The ledger** (`CreditProofs`) - for any users, keys, amounts, sweeps, batches, reconciliations, crashes and
ledger length. The inductive invariant `Inv` is

- `TypeOK`;
- for each user `BookInv(book[u])`: the balances are where the ledger leads (`LeadsTo`), holds are
  backed, credits conserved, reservations accounted for, keys used once, and the rows are
  *traceable*: a RESERVATION row has its reservation, a `:remainder` row its capture, and an ACTIVE
  reservation has captured nothing. Traceability is the strengthening that key uniqueness
  needs: `reserveCredits` and the remainder of a capture look for *another* row than the one
  they write;
- `SweepsKnowHolds`: what a sweep remembers still exists;
- `RebuildsCurrent`: what a reconciliation read equals the book as long as the version is the
  same. This makes a repair harmless: equal versions imply matching sums.

The argument goes bottom up. `SumTheorems`: how a sum changes when a sequence is extended, or
changed in one place. In `CreditBookTheorems` each transaction keeps the book's type and `BookInv`
(`MutateKeeps`, `ReserveKeeps`, `CaptureKeeps`, `ReleaseKeeps`, `MarkExpiredKeeps`,
`OverdueKeeps`); `PostingLeadsTo`, `PostingOncePerKey` and `PostingTraced` say what appending one well-formed row
does, and a capture with a remainder uses them twice. Last, each action is
such a transaction on one book, or none, and what sweeps and reconciliations remember survives
it. `ExpiredMeansSwept` has an invariant of its own, `SweepInv`: a sweep between its two statements
holds a reservation that is past its TTL and already returned, and nothing takes that back.

**Transactions** (`CreditProofs`) - for any users, keys, clients, sweeps, reconciliations, number of attempts and
crashes. That they refine the ledger rests on what the ledger's own steps do to a book, `Grows`: the
version never goes down, and while it stays, so does everything a transaction reads but the clock (`Agrees`);
ledger rows and reservations are never lost, and a row with a sweep's key refers to the hold the key was
made of. The refinement mapping is the identity - `tx` is added - so a transaction adds to
the ledger's invariant only what it holds (`Holding`): a snapshot on which its operation writes, which is older than the book
or agrees with it, or an answer that is booked. All three survive growth (`HoldingStays`), whoever takes the step. A commit
finds the version unchanged; then the increments and the rows computed from the snapshot (`RowsAdded`, `WrittenIs`)
are what the operation makes of the book as it is now, and its checks hold there too, except the clock's: one step
of `CreditLedger` (`CommitIsStep`). A sweep whose release is refused without an answer is `SweepAbort`,
because a row with its key could only be its own (`OwnKeys`). `AnswersAreBooked` follows because the row that answers a client
is of his request, and rows stay.

**Orders** (`CreditProofs`) - for any orders, payments, events, handlers, refund keys and crashes. `Announced`:
an event id names one announcement. `Known`: what the database says of an event was announced, and each PURCHASE row
carries the payment, the order and the id of an announced success. With these, a handler that finds an
event processed knows that the row is there, and one that writes it knows that it is not.

**AiRequestsProofs** - for any calls, keys, costs, faults and any ledger. `BookOk` (also of
`CreditBookTheorems`) is what the calls need of the book: one reservation per key, and capture and release rows that tell
how it ended. `CallInv` says of each place in `createAndExecute` what the call knows of its hold.
It survives the sweep and the other calls of the key because of `Later`: a reservation keeps its
key, is settled once, and keeps what it cost. `Carried` names, for each captured hold, the call that shows it as charged or
died before it did, and `Owned` says that one row has an Idempotency-Key; from these two `ChargesRecorded` adds up
(`SumAtLeast`, `SumZero`, `SumOnly`).

**AiTextsProofs** - for any jobs, texts, variants, prices, keys, administrators and faults, on either
history store. `CreditsInv`: only a job on the platform's key has a hold, and what it knows of the hold
at each place stays true while the sweep returns it, because nobody else has the job's key and a
settled reservation stays as it is. A job whose hold is refused for release finds it settled already (`RefusedIsSettled`), and
a hold that is still active can always be returned (`HoldIsCovered`: a book's reserved balance covers each
of its holds). `CallInv`: an adapter returns only what a prediction delivered. `KeyInv`: the
key a request was given is the credential's or was replaced while in use, and an error it reads as
a refusal was one, so that whatever `markUsed` is told, and whenever, the blame is deserved.
`AtMostOne` is `OneDefault` without counting. `HistoryInv`: from the moment a text is executed
one of the two databases has its input, and it believes the store has its output only if it does;
retention reaches only rows whose request has ended.

**The queue and the table** (`PlatformProofs`) - for any records, queue bound and number of attempts, and both modes. The strengthening
is `FlagIsLoop`: `processing` is set exactly when `process()` is scheduled or running, which is why `schedule()` may rely
on it. `TrackingIsQueueing` shows that `RequestTracking` implements `RequestPersistence`, so that all
this holds with requests, retention and readers around the queue; `SecretsStayRedacted` and
`AdministratorsReadTheTruth` are proved of the whole. The latter has two parts. `ReportsAddUp` counts the changes
between two statements. `ListsAreComplete` needs no induction over pages: inserts and deletions keep the order of the
rows they leave (`InsertAt`, `Front`), so it is enough to say of the cursor's row that nothing after it
was shown and everything that was there, up to it, was. A page begins after that row, ends at the next cursor and has
everything between the two. In descending order retention deletes the oldest rows only, so a cursor that is gone
takes all that follows it along; in ascending order it does not, which is the exception `PagesComplete` names.

**Signing in** (`PlatformProofs`) - for any users, accounts, sessions, requests, flows, times and profiles that
`ProfileAssumption` admits. The invariant says of each user, account, request, flow and session what the next
write relies on. It holds because what was read only grows: nobody unregisters or loses the proof of a mailbox, and
no session comes back. `SessionsImplementFamilies` is the refinement: each action of `Accounts` and
`SocialSignIn` is a step of `SessionFamilies`, for the families it touches, or a stutter.

**ContentProofs** - for any versions, requests, shares and visits on either driver. `CreatedAlone` and `PublishedAlone` say what a
request that is half done may rely on: the version it creates has no row and no other creator, the bundle
it publishes is stored and nobody else publishes it, unless S3 wrote it over another. `VisitsFit`: what a visit
has read of a share admits one more use, or the share has changed and its commit fails.
For WordPress, with any users, sites, keys, edit sessions and objects: who is about to decide a request that
is APPROVED already overlapped its approval, and of two decisions in flight each approval is overlapped (`Deciding`). So a
decision that is written takes nobody's approval away but an overlapped one (`ApprovalsKept`, `DecisionWritten`), whichever
requests share a key; and what an operation on an edit session read before it writes is past changing:
the session exists, the upload is stored, and one about to be expired was not completed in time (`Editing`).

**BillingProofs** - for any lands, keys, requests, sizes, plans and retention. `KeysInv`: a key that was
drawn belongs to one row, one save or one deletion. The quota is the hard part, because a save is admitted for
bytes it believes it will free. `Room(G)`, for every set `G` of admitted saves that may still write, bounds what is
used once they have; `Fresh` covers the case in which every request is between its read and its write: the last one to
read cannot have been made stale by anybody. Without it the bound would be one body larger than
`QuotaHeld` says.
For subscriptions, with any orders, payments, events, handlers, days and crashes: `AnsweredFor` gives each ACTIVE
subscription a handler of its own. A handler about to commit has seen the one it answers for, so the commit cancels it and
the handler answers for the new one instead; hence there are no more ACTIVE ones than handlers (`FS_Injection`).

**Model-checked only.** Liveness (`ExpiredHoldsReturned`, `PaymentCredited`, `RecordSettles`) needs
fairness and ENABLED, beyond this prover. Every safety property that a run expects to pass is a theorem.

## 6. Not modelled

*Whole components.* Mail, MCP, audit, activity and the users list write a row once or render; they
have no state that can go wrong in an order. The fake AI answers from static data. Configuration,
bootstrap, Prisma module and health are wiring.

*Of the modelled parts.* Amounts are integers (the code's Decimals are added, subtracted and compared, never divided).
Request hashes: a repeated key with another payload throws or answers, and writes nothing in either
case, so only `AiRequests`, where the answer matters, models them. Key lengths (VARCHAR(128)) are
not modelled. `AiTexts` leaves out the
switches that keep inputs or outputs out of the history, and reads while the store is unreachable
(they show what PostgreSQL holds). Package and plan
administration, the starter grant of the free plan, profiles, roles and captchas are left out: their
writes are single statements nothing else depends on in an order. Times are nondeterministic
expiry except in `Accounts`. Of a database statement that fails, or a transaction that throws, it is assumed that
it did not commit: in `AiRequests` and `AiImages` (`CaptureThrows`), in `Templates` (`VersionUndo`, `PublishUndo`) and in `Lands`
(`SaveUndo`). If the acknowledgement of a COMMIT is lost, the code there deletes the object of a committed row
(`templates.service.ts` 275 and 555, `lands.service.ts` 163), and `RowsAreStored` and `RevisionsReadable` do not hold; `CreditTransactions` and
`AiTexts` have lost acknowledgements, and so has `RequestPersistence`, which retries. A `put` that fails is assumed to have stored
nothing, and `resend` and `sendProof` read and write in one step. The
templates' metrics, categories and search, the validation of manifests and canvases, and the
statistics of request tracking other than counts are not modelled. `RequestPersistence` is run in
the default mode (`Sync = FALSE`); the proofs cover both.

## 7. What could follow

1. `AiRequests` and `AiImages` on `CreditTransactions` instead of one step per credit operation, so that
   a hold that passes its TTL during its capture is seen there too.
2. The other Serializable and READ COMMITTED transactions (shares, subscriptions, social sign-in), where what PostgreSQL
   decides is now stated in each model, against one abstract specification of the database.
3. The parts that section 6 leaves out: templates' metrics and categories, package and plan administration, MCP.
