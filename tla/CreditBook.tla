------------------------------- MODULE CreditBook -------------------------------
(***************************************************************************)
(* The bodies of the database transactions of CreditService                *)
(* (src/src/credits/credit.service.ts), as operators on one user's book:   *)
(* the cached CreditAccount row, the CreditLedgerEntry rows in insertion   *)
(* order and the CreditReservation rows.  Every transaction of the service *)
(* that is modelled here touches the rows of a single user.                *)
(*                                                                         *)
(* For each operation, XOk(b, ..) is the condition under which the         *)
(* transaction writes (its prior-entry lookup finds nothing and none of    *)
(* its checks throws) and X(b, ..) is the book it leaves behind.           *)
(*                                                                         *)
(* An operator whose name ends in Slip is the definition after it with a   *)
(* plausible mistake.  No specification uses it: it is there to show that  *)
(* a property fails when the code goes wrong (see the README).             *)
(***************************************************************************)
EXTENDS Integers, Sequences, Sums

CONSTANTS
  Key,        \* the idempotency keys callers send
  MaxAmount   \* CREDIT_MAX_TRANSACTION_AMOUNT

(***************************************************************************)
(* Keys the service derives itself: `${key}:remainder` for the unused part *)
(* of a captured reservation, `expire:${id}` for the expiry sweep.         *)
(***************************************************************************)
RemainderKey(key) == [remainder |-> key]
ExpireKey(id) == [expire |-> id]
EntryKey == Key \union [remainder : Key] \union [expire : Nat]

ASSUME KeyAssumption ==
  /\ Key \intersect [remainder : Key] = {}
  /\ Key \intersect [expire : Nat] = {}
ASSUME MaxAmountAssumption == MaxAmount \in Nat \ {0}

Credits == {"PURCHASE", "ADMIN_GRANT", "PROMOTION", "REFUND"}
Debits == {"ADMIN_DEDUCTION", "CONSUMPTION"}
Holds == {"RESERVATION", "RESERVATION_CAPTURE", "RESERVATION_RELEASE"}

\* referenceId is the reservation's id, 0 for an entry that refers to none.
LedgerEntry ==
  [type : Credits \union Debits \union Holds, idempotencyKey : EntryKey,
   referenceId : Nat, availableDelta : Int, reservedDelta : Int,
   availableBalanceAfter : Int, reservedBalanceAfter : Int]

\* expired stands for expiresAt <= now.
Reservation ==
  [amount : Nat \ {0}, idempotencyKey : Key, expired : BOOLEAN,
   status : {"ACTIVE", "CAPTURED", "RELEASED", "EXPIRED"}, capturedAmount : Nat]

Book ==
  [available : Nat, reserved : Nat, lifetimePurchased : Nat, lifetimeConsumed : Nat,
   version : Nat, entries : Seq(LedgerEntry), reservations : Seq(Reservation)]

\* The account getOrCreateAccount inserts.
NewBook ==
  [available |-> 0, reserved |-> 0, lifetimePurchased |-> 0, lifetimeConsumed |-> 0,
   version |-> 0, entries |-> << >>, reservations |-> << >>]

-----------------------------------------------------------------------------
ValidAmount(amount) == amount > 0 /\ amount <= MaxAmount

HasEntry(b, type, key) ==
  \E i \in DOMAIN b.entries : b.entries[i].type = type /\ b.entries[i].idempotencyKey = key

HasReservation(b, key) ==
  \E id \in DOMAIN b.reservations : b.reservations[id].idempotencyKey = key

IsActive(b, id) == id \in DOMAIN b.reservations /\ b.reservations[id].status = "ACTIVE"

Entry(type, key, id, dAvailable, dReserved, available, reserved) ==
  [type |-> type, idempotencyKey |-> key, referenceId |-> id,
   availableDelta |-> dAvailable, reservedDelta |-> dReserved,
   availableBalanceAfter |-> available, reservedBalanceAfter |-> reserved]

(***************************************************************************)
(* What the creditAccount.update of every operation does: the balances,    *)
(* what it adds to the lifetime totals, and the version; with it the rows  *)
(* that the same transaction writes.                                       *)
(***************************************************************************)
Updated(b, available, reserved, purchased, consumed, entries, reservations) ==
  [available |-> available, reserved |-> reserved,
   lifetimePurchased |-> b.lifetimePurchased + purchased,
   lifetimeConsumed |-> b.lifetimeConsumed + consumed,
   version |-> b.version + 1, entries |-> entries, reservations |-> reservations]

Settled(r, status, captured) ==
  [amount |-> r.amount, idempotencyKey |-> r.idempotencyKey, expired |-> r.expired,
   status |-> status, capturedAmount |-> captured]

Settle(b, id, status, captured) ==
  [b.reservations EXCEPT ![id] = Settled(b.reservations[id], status, captured)]

(***************************************************************************)
(* mutate: every operation that moves credits without a reservation.       *)
(* delta is availableDelta; reservedDelta is zero for all its callers.     *)
(***************************************************************************)
MutateOkSlip(b, type, key, delta) == ~HasEntry(b, type, key)

MutateOk(b, type, key, delta) == ~HasEntry(b, type, key) /\ b.available + delta >= 0

MutateEntry(b, type, key, delta) ==
  Entry(type, key, 0, delta, 0, b.available + delta, b.reserved)

MutateSlip(b, type, key, delta) ==
  [b EXCEPT !.available = @ + delta,
            !.entries = Append(@, MutateEntry(b, type, key, delta))]

Mutate(b, type, key, delta) ==
  Updated(b, b.available + delta, b.reserved, IF type = "PURCHASE" THEN delta ELSE 0, 0,
          Append(b.entries, MutateEntry(b, type, key, delta)), b.reservations)

(***************************************************************************)
(* reserveCredits: the new reservation's id is its position.               *)
(***************************************************************************)
ReserveOk(b, key, amount) == ~HasReservation(b, key) /\ b.available >= amount

ReserveEntry(b, key, amount) ==
  Entry("RESERVATION", key, Len(b.reservations) + 1, -amount, amount,
        b.available - amount, b.reserved + amount)

NewReservation(key, amount) ==
  [amount |-> amount, idempotencyKey |-> key, expired |-> FALSE,
   status |-> "ACTIVE", capturedAmount |-> 0]

Reserve(b, key, amount) ==
  Updated(b, b.available - amount, b.reserved + amount, 0, 0,
          Append(b.entries, ReserveEntry(b, key, amount)),
          Append(b.reservations, NewReservation(key, amount)))

(***************************************************************************)
(* captureReservation: takes amount out of the hold and gives the rest     *)
(* back, with one ledger entry for each part.                              *)
(***************************************************************************)
CaptureFitsKeySlip(b, key, id, amount) ==
  /\ IsActive(b, id)
  /\ amount <= b.reservations[id].amount
  /\ b.reserved >= b.reservations[id].amount

CaptureFits(b, key, id, amount) ==
  /\ ~HasEntry(b, "RESERVATION_CAPTURE", key)
  /\ IsActive(b, id)
  /\ amount <= b.reservations[id].amount
  /\ b.reserved >= b.reservations[id].amount

CaptureOk(b, key, id, amount) ==
  CaptureFits(b, key, id, amount) /\ ~b.reservations[id].expired

CaptureEntry(b, key, id, amount) ==
  Entry("RESERVATION_CAPTURE", key, id, 0, -amount, b.available, b.reserved - amount)

Unused(b, id, amount) == b.reservations[id].amount - amount

RemainderEntry(b, key, id, amount) ==
  Entry("RESERVATION_RELEASE", RemainderKey(key), id, Unused(b, id, amount),
        -Unused(b, id, amount), b.available + Unused(b, id, amount),
        b.reserved - b.reservations[id].amount)

CaptureRows(b, key, id, amount) ==
  LET captured == Append(b.entries, CaptureEntry(b, key, id, amount))
  IN IF Unused(b, id, amount) > 0
     THEN Append(captured, RemainderEntry(b, key, id, amount))
     ELSE captured

Capture(b, key, id, amount) ==
  Updated(b, b.available + Unused(b, id, amount), b.reserved - b.reservations[id].amount,
          0, amount, CaptureRows(b, key, id, amount), Settle(b, id, "CAPTURED", amount))

(***************************************************************************)
(* releaseReservation: expiry is not looked at.                            *)
(***************************************************************************)
ReleaseOkSlip(b, key, id) ==
  /\ ~HasEntry(b, "RESERVATION_RELEASE", key)
  /\ b.reserved >= b.reservations[id].amount

ReleaseOk(b, key, id) ==
  /\ ~HasEntry(b, "RESERVATION_RELEASE", key)
  /\ IsActive(b, id)
  /\ b.reserved >= b.reservations[id].amount

ReleaseEntry(b, key, id) ==
  LET held == b.reservations[id].amount
  IN Entry("RESERVATION_RELEASE", key, id, held, -held, b.available + held, b.reserved - held)

Release(b, key, id) ==
  LET held == b.reservations[id].amount
  IN Updated(b, b.available + held, b.reserved - held, 0, 0,
             Append(b.entries, ReleaseEntry(b, key, id)),
             Settle(b, id, "RELEASED", b.reservations[id].capturedAmount))

\* The sweep's updateMany: RELEASED becomes EXPIRED, anything else is left alone.
MarkExpired(b, id) ==
  IF b.reservations[id].status = "RELEASED"
  THEN [b EXCEPT !.reservations =
          Settle(b, id, "EXPIRED", b.reservations[id].capturedAmount)]
  ELSE b

\* CREDIT_RESERVATION_TTL_SECONDS pass: expiresAt is no longer in the future.
Overdue(b, id) ==
  LET late == [b.reservations[id] EXCEPT !.expired = TRUE]
  IN [b EXCEPT !.reservations = [b.reservations EXCEPT ![id] = late]]

-----------------------------------------------------------------------------
(***************************************************************************)
(* Columns of the ledger and of the reservations, and their sums.          *)
(***************************************************************************)
SumOf(column) == Total(column, Len(column))

AvailableDeltas(rows) == [i \in DOMAIN rows |-> rows[i].availableDelta]
ReservedDeltas(rows) == [i \in DOMAIN rows |-> rows[i].reservedDelta]

\* What crossed the account's border: grants and deductions, no holds.
Outside(rows) ==
  [i \in DOMAIN rows |-> IF rows[i].type \in Holds THEN 0 ELSE rows[i].availableDelta]

\* The rows that refer to one reservation.
ReservedFor(rows, id) ==
  [i \in DOMAIN rows |-> IF rows[i].referenceId = id THEN rows[i].reservedDelta ELSE 0]
PaidFor(rows, id) ==
  [i \in DOMAIN rows |-> IF rows[i].referenceId = id THEN rows[i].availableDelta ELSE 0]

HeldAmount(r) == IF r.status = "ACTIVE" THEN r.amount ELSE 0
HeldAmounts(reservations) == [id \in DOMAIN reservations |-> HeldAmount(reservations[id])]
CapturedAmounts(reservations) == [id \in DOMAIN reservations |-> reservations[id].capturedAmount]

\* The two aggregates of rebuildBalanceFromLedger.
LedgerAvailable(b) == SumOf(AvailableDeltas(b.entries))
LedgerReserved(b) == SumOf(ReservedDeltas(b.entries))

(***************************************************************************)
(* What is true of a book between transactions.                            *)
(***************************************************************************)
\* The cached balances are the sums of the ledger: what reconciliation compares.
Reconciled(b) ==
  /\ b.available = LedgerAvailable(b)
  /\ b.reserved = LedgerReserved(b)

\* The balances after the first i rows.
BalancesAfter(rows, i) ==
  IF i = 0 THEN [available |-> 0, reserved |-> 0]
  ELSE [available |-> rows[i].availableBalanceAfter, reserved |-> rows[i].reservedBalanceAfter]

\* The balances stored with each row are those of the row before plus its deltas.
Running(rows) ==
  \A i \in DOMAIN rows :
    /\ BalancesAfter(rows, i).available =
         BalancesAfter(rows, i - 1).available + rows[i].availableDelta
    /\ BalancesAfter(rows, i).reserved =
         BalancesAfter(rows, i - 1).reserved + rows[i].reservedDelta

\* The balances stored with the last row are the account's.
UpToDate(b) ==
  BalancesAfter(b.entries, Len(b.entries)) = [available |-> b.available, reserved |-> b.reserved]

Backed(b) == b.reserved = SumOf(HeldAmounts(b.reservations))

\* The rows of one reservation hold its amount while it is ACTIVE, nothing afterwards,
\* and take from the user what is held or was captured.
Accounted(b, id) ==
  LET r == b.reservations[id]
  IN /\ SumOf(ReservedFor(b.entries, id)) = HeldAmount(r)
     /\ SumOf(PaidFor(b.entries, id)) = -(HeldAmount(r) + r.capturedAmount)

Conserved(b) ==
  /\ b.available + b.reserved + b.lifetimeConsumed = SumOf(Outside(b.entries))
  /\ b.lifetimeConsumed = SumOf(CapturedAmounts(b.reservations))

OncePerKey(rows) ==
  \A i, j \in DOMAIN rows :
    rows[i].type = rows[j].type /\ rows[i].idempotencyKey = rows[j].idempotencyKey => i = j
=============================================================================
