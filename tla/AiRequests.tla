------------------------------- MODULE AiRequests -------------------------------
(***************************************************************************)
(* AiService.createAndExecute and cancel (ai/ai.service.ts) for one user,  *)
(* on top of that user's credit book: reserve, create the AiRequest row,   *)
(* execute at the provider, capture what it cost or release the hold, and  *)
(* record the outcome.  Each await is a step; a request may die at any of  *)
(* them.  Credits of each step are CreditBook's transactions.              *)
(*                                                                         *)
(* The provider is external: it answers with a cost, or fails; a timeout   *)
(* is a failure whose late answer nobody hears.  A database statement that *)
(* fails was not committed.  The expiry sweep is one step here             *)
(* (CreditLedger has its interleavings).                                   *)
(***************************************************************************)
EXTENDS CreditBook, FiniteSets, Functions

CONSTANTS
  Call,        \* POST /ai/requests in progress or done; names the row it creates
  RequestId,   \* X-Request-Id values
  KeyOf,       \* operationKey of each call: the client's key, or a hash of the input
  RequestIdOf, \* X-Request-Id of each call, which a client may send and repeat
  Keyed,       \* calls that send an Idempotency-Key
  UserKey,     \* calls that may name a credential of the user's: no credits are charged then
  Estimate,    \* CreditCostCalculator.estimate
  Cost,        \* what CreditCostCalculator.actual may come to
  Balance,     \* credits the user starts with
  MaxFaults    \* bound: requests that die, captures and releases the database fails

\* No Idempotency-Key looks like `ai:` and the hash of an input, the key of a call without one.
ASSUME CallAssumption ==
  /\ IsFiniteSet(Call)
  /\ KeyOf \in [Call -> Key] /\ RequestIdOf \in [Call -> RequestId]
  /\ Keyed \subseteq Call /\ UserKey \subseteq Call
  /\ \A c \in Keyed : \A d \in Call \ Keyed : KeyOf[c] # KeyOf[d]
ASSUME CostAssumption ==
  Estimate \in 1..MaxAmount /\ Cost \subseteq 1..MaxAmount /\ Balance \in 1..MaxAmount

VARIABLES
  book,       \* the user's credit rows
  reference,  \* referenceId in the requestHash of the reservation of each key
  record,     \* AiRequest rows
  call,       \* createAndExecute in progress
  faults

vars == <<book, reference, record, call, faults>>

NoRecord == [status |-> "NONE", errorCode |-> "none", charged |-> 0]
\* left: the call ended, or goes on, without settling the hold it made.
NewCall == [pc |-> "idle", hold |-> 0, cost |-> 0, left |-> FALSE]

Init ==
  /\ book = Mutate(NewBook, "ADMIN_GRANT", CHOOSE k \in Key : TRUE, Balance)
  /\ reference = [k \in Key |-> "none"]
  /\ record = [c \in Call |-> NoRecord]
  /\ call = [c \in Call |-> NewCall]
  /\ faults = 0

Go(c, pc) == call' = [call EXCEPT ![c].pc = pc]
Charged(c) == call[c].hold # 0

RowWithKey(k) == \E c \in Keyed : KeyOf[c] = k /\ record[c].status # "NONE"

-----------------------------------------------------------------------------
\* A row with the client's key answers the call; otherwise it goes on to reserve.
Lookup(c) ==
  /\ call[c].pc = "idle"
  /\ c \in Keyed => ~RowWithKey(KeyOf[c])
  /\ \/ Go(c, "reserve")
     \/ c \in UserKey /\ Go(c, "create")
  /\ UNCHANGED <<book, reference, record, faults>>

ReserveHold(c) ==
  LET k == KeyOf[c]
  IN /\ call[c].pc = "reserve"
     /\ ReserveOk(book, k, Estimate)
     /\ book' = Reserve(book, k, Estimate)
     /\ reference' = [reference EXCEPT ![k] = RequestIdOf[c]]
     /\ call' = [call EXCEPT ![c].pc = "create", ![c].hold = Len(book.reservations) + 1]
     /\ UNCHANGED <<record, faults>>

\* The key has a reservation: it is returned if it was made for the same request id.
ReserveAgain(c) ==
  LET k == KeyOf[c]
      id == CHOOSE i \in DOMAIN book.reservations : book.reservations[i].idempotencyKey = k
  IN /\ call[c].pc = "reserve"
     /\ HasReservation(book, k)
     /\ call' = IF reference[k] = RequestIdOf[c]
                THEN [call EXCEPT ![c].pc = "create", ![c].hold = id]
                ELSE [call EXCEPT ![c].pc = "conflict"]
     /\ UNCHANGED <<book, reference, record, faults>>

ReserveInsufficient(c) ==
  /\ call[c].pc = "reserve"
  /\ ~HasReservation(book, KeyOf[c])
  /\ book.available < Estimate
  /\ Go(c, "done")
  /\ UNCHANGED <<book, reference, record, faults>>

\* A second row with the client's key violates the unique index: the call fails there,
\* outside the try, and leaves the hold alone.
CreateRecord(c) ==
  /\ call[c].pc = "create"
  /\ IF c \in Keyed /\ RowWithKey(KeyOf[c])
     THEN /\ call' = [call EXCEPT ![c].pc = "done", ![c].left = TRUE]
          /\ UNCHANGED record
     ELSE /\ record' = [record EXCEPT ![c].status = "QUEUED"]
          /\ Go(c, "start")
  /\ UNCHANGED <<book, reference, faults>>

\* The update to PROCESSING looks at no status.
StartProcessing(c) ==
  /\ call[c].pc = "start"
  /\ record' = [record EXCEPT ![c].status = "PROCESSING"]
  /\ Go(c, "execute")
  /\ UNCHANGED <<book, reference, faults>>

ProviderAnswers(c) ==
  /\ call[c].pc = "execute"
  /\ \E cost \in Cost :
       call' = [call EXCEPT ![c].pc = IF Charged(c) THEN "capture" ELSE "complete",
                            ![c].cost = IF Charged(c) THEN cost ELSE 0]
  /\ UNCHANGED <<book, reference, record, faults>>

ProviderFailsSlip(c) ==
  /\ call[c].pc = "execute"
  /\ Go(c, "fail")
  /\ UNCHANGED <<book, reference, record, faults>>

ProviderFails(c) ==
  /\ call[c].pc = "execute"
  /\ Go(c, IF Charged(c) THEN "release" ELSE "fail")
  /\ UNCHANGED <<book, reference, record, faults>>

-----------------------------------------------------------------------------
CapturedBefore(c) == HasEntry(book, "RESERVATION_CAPTURE", KeyOf[c])

\* The capture with this key was made for the same reservation and the same amount.
SameCapture(c) ==
  /\ CapturedBefore(c)
  /\ book.reservations[call[c].hold].capturedAmount = call[c].cost

CaptureHold(c) ==
  /\ call[c].pc = "capture"
  /\ CaptureOk(book, KeyOf[c], call[c].hold, call[c].cost)
  /\ book' = Capture(book, KeyOf[c], call[c].hold, call[c].cost)
  /\ Go(c, "complete")
  /\ UNCHANGED <<reference, record, faults>>

CaptureAgain(c) ==
  /\ call[c].pc = "capture"
  /\ SameCapture(c)
  /\ Go(c, "complete")
  /\ UNCHANGED <<book, reference, record, faults>>

\* The hold is no longer ACTIVE, has expired or is too small, the key was used for another
\* amount, or the transaction fails.
CaptureThrows(c) ==
  /\ call[c].pc = "capture"
  /\ ~SameCapture(c)
  /\ IF CaptureOk(book, KeyOf[c], call[c].hold, call[c].cost)
     THEN faults < MaxFaults /\ faults' = faults + 1
     ELSE UNCHANGED faults
  /\ Go(c, "captureFailed")
  /\ UNCHANGED <<book, reference, record>>

\* The catch around the capture: the hold is left for reconciliation ...
RecordCaptureFailed(c) ==
  /\ call[c].pc = "captureFailed"
  /\ record' = [record EXCEPT ![c].status = "FAILED", ![c].errorCode = "CREDIT_CAPTURE_FAILED"]
  /\ call' = [call EXCEPT ![c].pc = "fail", ![c].left = TRUE]
  /\ UNCHANGED <<book, reference, faults>>

\* The database fails that write: its error reaches the outer catch as any other would.
RecordCaptureThrows(c) ==
  /\ call[c].pc = "captureFailed"
  /\ faults < MaxFaults
  /\ faults' = faults + 1
  /\ Go(c, "release")
  /\ UNCHANGED <<book, reference, record>>

\* ... and the catch around everything, for the same error and for any other.
RecordFailed(c) ==
  /\ call[c].pc = "fail"
  /\ record' = [record EXCEPT ![c].status = "FAILED", ![c].errorCode = "PROVIDER_ERROR"]
  /\ Go(c, "done")
  /\ UNCHANGED <<book, reference, faults>>

ReleaseHold(c) ==
  /\ call[c].pc = "release"
  /\ ReleaseOk(book, KeyOf[c], call[c].hold)
  /\ book' = Release(book, KeyOf[c], call[c].hold)
  /\ Go(c, "fail")
  /\ UNCHANGED <<reference, record, faults>>

ReleasedBefore(c) == HasEntry(book, "RESERVATION_RELEASE", KeyOf[c])

ReleaseAgain(c) ==
  /\ call[c].pc = "release"
  /\ ReleasedBefore(c)
  /\ Go(c, "fail")
  /\ UNCHANGED <<book, reference, record, faults>>

\* What releaseReservation throws is swallowed.
ReleaseThrows(c) ==
  /\ call[c].pc = "release"
  /\ ~ReleasedBefore(c)
  /\ IF ReleaseOk(book, KeyOf[c], call[c].hold)
     THEN faults < MaxFaults /\ faults' = faults + 1
     ELSE UNCHANGED faults
  /\ call' = [call EXCEPT ![c].pc = "fail", ![c].left = TRUE]
  /\ UNCHANGED <<book, reference, record>>

CompleteSlip(c) ==
  /\ call[c].pc = "complete"
  /\ record' = [record EXCEPT ![c].status = "COMPLETED"]
  /\ Go(c, "done")
  /\ UNCHANGED <<book, reference, faults>>

CompleteAwaitedSlip(c) ==
  /\ call[c].pc = "complete"
  /\ \/ /\ record' = [record EXCEPT ![c].status = "COMPLETED", ![c].charged = call[c].cost]
        /\ Go(c, "done")
     \/ /\ Go(c, "release")
        /\ UNCHANGED record
  /\ UNCHANGED <<book, reference, faults>>

Complete(c) ==
  /\ call[c].pc = "complete"
  /\ record' = [record EXCEPT ![c].status = "COMPLETED", ![c].charged = call[c].cost]
  /\ Go(c, "done")
  /\ UNCHANGED <<book, reference, faults>>

-----------------------------------------------------------------------------
Ended == {"idle", "done", "conflict", "dead"}

\* The process stops, or a write of the row fails where nothing catches it: `return
\* this.complete(..)` is not awaited inside the try.  cost is kept if it was captured.
Die(c) ==
  /\ call[c].pc \notin Ended
  /\ faults < MaxFaults
  /\ faults' = faults + 1
  /\ call' = [call EXCEPT ![c].pc = "dead", ![c].left = TRUE,
                          ![c].cost = IF call[c].pc = "complete" THEN @ ELSE 0]
  /\ UNCHANGED <<book, reference, record>>

\* cancel: the conditional update.
Cancel(c) ==
  /\ record[c].status = "QUEUED"
  /\ record' = [record EXCEPT ![c].status = "CANCELLED"]
  /\ UNCHANGED <<book, reference, call, faults>>

HoldExpires(id) ==
  /\ IsActive(book, id)
  /\ ~book.reservations[id].expired
  /\ book' = Overdue(book, id)
  /\ UNCHANGED <<reference, record, call, faults>>

SweepHold(id) ==
  /\ IsActive(book, id)
  /\ book.reservations[id].expired
  /\ ReleaseOk(book, ExpireKey(id), id)
  /\ book' = MarkExpired(Release(book, ExpireKey(id), id), id)
  /\ UNCHANGED <<reference, record, call, faults>>

Step(c) ==
  \/ Lookup(c) \/ ReserveHold(c) \/ ReserveAgain(c) \/ ReserveInsufficient(c)
  \/ CreateRecord(c) \/ StartProcessing(c) \/ ProviderAnswers(c) \/ ProviderFails(c)
  \/ CaptureHold(c) \/ CaptureAgain(c) \/ CaptureThrows(c) \/ RecordCaptureFailed(c)
  \/ RecordCaptureThrows(c)
  \/ ReleaseHold(c) \/ ReleaseAgain(c) \/ ReleaseThrows(c) \/ RecordFailed(c) \/ Complete(c)

Next ==
  \/ \E c \in Call : Step(c) \/ Die(c) \/ Cancel(c)
  \/ \E id \in DOMAIN book.reservations : HoldExpires(id) \/ SweepHold(id)

Spec == Init /\ [][Next]_vars

-----------------------------------------------------------------------------
(***************************************************************************)
(* Properties.                                                             *)
(***************************************************************************)

CallsOf(k) == {c \in Call : KeyOf[c] = k}

\* What the history shows for one operation key, and what was captured by calls that have
\* yet to record it, or died before they did.
Recorded(k) == SumFunctionOnSet([c \in Call |-> record[c].charged], CallsOf(k))
Unrecorded(k) ==
  SumFunctionOnSet([c \in Call |-> call[c].cost],
                   {c \in CallsOf(k) : call[c].pc \in {"complete", "dead"}})

\* What the hold with that key was charged.
Captured(k) ==
  SumFunctionOnSet(CapturedAmounts(book.reservations),
    {id \in DOMAIN book.reservations : book.reservations[id].idempotencyKey = k})

\* Retries, failures and expiries neither charge twice nor give a result away: what the hold
\* of an Idempotency-Key paid is what the history shows as chargedCreditAmount of its calls,
\* save what calls captured that died before they wrote it.  Calls without a key share one
\* operation key and one hold if their input is equal; they are never charged more than the
\* history shows.
ChargesRecorded ==
  /\ \A k \in {KeyOf[c] : c \in Keyed} : Captured(k) = Recorded(k) + Unrecorded(k)
  /\ \A k \in Key : Captured(k) <= Recorded(k) + Unrecorded(k)

\* A request that is FAILED in the end was not charged (README: "non-billable failure releases
\* the reservation").  Without an Idempotency-Key the hold may be another call's as well.
FailedIsFree ==
  \A c \in Keyed :
    record[c].status = "FAILED" /\ Charged(c) =>
      book.reservations[call[c].hold].status # "CAPTURED"

\* No path of the code forgets a hold: one that is ACTIVE belongs to a call that is going on,
\* or to one that left it to reconciliation or to the sweep because of a fault.
NoForgottenHold ==
  \A id \in DOMAIN book.reservations :
    IsActive(book, id) =>
      \E c \in Call : call[c].hold = id /\ (call[c].pc \notin Ended \/ call[c].left)
=============================================================================
