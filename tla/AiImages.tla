-------------------------------- MODULE AiImages --------------------------------
(***************************************************************************)
(* Image operations of one user (AiOperationsExecuteService.execute and    *)
(* executeCustom, ai/ai-operations.execute.service.ts) over his credit     *)
(* book, the catalogue and his own API key.                                *)
(*                                                                         *)
(* Unlike AiRequests' text requests these have no Idempotency-Key: every   *)
(* one draws its own operation key, so a job names its credits' keys.      *)
(***************************************************************************)
EXTENDS CreditBook, AiCatalogue, ImageProviders

CONSTANTS
  Charging,  \* AI_CREDIT_CHARGING_ENABLED
  Balance,   \* credits the user starts with
  MaxFaults  \* bound: processes that die and database statements that fail

ASSUME JobAssumption == Job \subseteq Key /\ Key # Job /\ Charging \in BOOLEAN
ASSUME PriceAssumption == Price \subseteq 1..MaxAmount /\ Balance \in 1..MaxAmount

VARIABLES
  book,    \* the user's credit rows
  record,  \* AiRequest rows; stored: the row names an object of the gallery
  job,     \* runImageJob and testConnection in progress
  objects, \* the jobs whose output image is in the object storage
  faults

jobVars == <<book, record, job, objects, faults, providerVars>>
vars == <<jobVars, catalogueVars, credentialVars>>

NoRecord == [status |-> "NONE", charged |-> 0, stored |-> FALSE]
\* key: the API key it holds, 0 for the platform's; left: a fault kept it from finishing.
NewJob == [pc |-> "idle", key |-> 0, cost |-> 0, hold |-> 0,
           auth |-> FALSE, stored |-> FALSE, left |-> FALSE]

Init ==
  /\ CatalogueInit /\ ProvidersInit
  /\ book = Mutate(NewBook, "ADMIN_GRANT", CHOOSE k \in Key \ Job : TRUE, Balance)
  /\ record = [j \in Job |-> NoRecord]
  /\ job = [j \in Job |-> NewJob]
  /\ objects = {} /\ faults = 0

Calls(j, p, step) ==
  call' = [call EXCEPT ![j] = [NoCall EXCEPT !.pc = step,
                               !.provider = IF step = "refuse" THEN "none" ELSE p]]
At(j, pc) == job[j].pc = pc
Go(j, pc) == job' = [job EXCEPT ![j].pc = pc]
Using == {job[j].key : j \in {i \in Job : ~At(i, "done")}} \ {0}

-----------------------------------------------------------------------------
\* execute on the platform's key: the variant's price of this moment is what it costs.
Start(j, v, p, in) ==
  /\ At(j, "idle")
  /\ Resolvable(v) /\ InputOk(p, in)
  /\ job' = [job EXCEPT ![j].pc = IF Charging THEN "reserve" ELSE "create",
                        ![j].cost = variant[v].price]
  /\ \E configured, version \in BOOLEAN :
       Calls(j, p, FirstStep(p, in, configured, version))
  /\ UNCHANGED <<book, record, objects, faults, prediction, catalogueVars, credentialVars>>

\* execute with a credential, and executeCustom, which needs no variant: resolveForRequest.
StartOwnKey(j, p, in) ==
  /\ At(j, "idle")
  /\ TakesOwnKey(p) /\ InputOk(p, in)
  /\ credential.key > 0 /\ credential.status = "ACTIVE" /\ credential.provider = p
  /\ job' = [job EXCEPT ![j].pc = "create", ![j].key = credential.key]
  /\ \E version \in BOOLEAN : Calls(j, p, FirstStep(p, in, TRUE, version))
  /\ UNCHANGED <<book, record, objects, faults, prediction, catalogueVars, credentialVars>>

ReserveHold(j) ==
  /\ At(j, "reserve")
  /\ IF ReserveOk(book, j, job[j].cost)
     THEN /\ book' = Reserve(book, j, job[j].cost)
          /\ job' = [job EXCEPT ![j].pc = "create", ![j].hold = Len(book.reservations) + 1]
     ELSE /\ Go(j, "done")
          /\ UNCHANGED book
  /\ UNCHANGED <<record, faults, objects, providerVars, catalogueVars, credentialVars>>

CreateRecord(j) ==
  /\ At(j, "create")
  /\ record' = [record EXCEPT ![j].status = "PROCESSING"]
  /\ Go(j, "execute")
  /\ UNCHANGED <<book, faults, objects, providerVars, catalogueVars, credentialVars>>

\* Where the request goes on when the adapter returns or throws; auth: the error reads as a
\* refusal of the key.
Returns(j) ==
  job' = CASE call'[j].pc = "done" ->
                [job EXCEPT ![j].pc = IF job[j].hold # 0 THEN "capture" ELSE "works"]
           [] call'[j].pc = "failed" ->
                [job EXCEPT ![j].pc = "release", ![j].auth = call'[j].auth]
           [] OTHER -> job

ProviderAnswers(j, a) ==
  /\ At(j, "execute")
  /\ Answered(j, a)
  /\ Returns(j)
  /\ refused' = refused \union (IF RefusesKey(a) THEN {job[j].key} \ {0} ELSE {})
  /\ UNCHANGED <<book, record, objects, faults, credential, blamed, replaced, catalogueVars>>

ProviderWaits(j) ==
  /\ At(j, "execute")
  /\ (\E ok \in BOOLEAN : Poll(j, ok)) \/ Unreachable(j) \/ Refuses(j)
  /\ Returns(j)
  /\ UNCHANGED <<book, record, objects, faults, catalogueVars, credentialVars>>

ReplicateWorks(j) ==
  /\ \E s \in {"succeeded", "failed"} : PredictionEnds(j, s)
  /\ UNCHANGED <<book, record, job, objects, faults, catalogueVars, credentialVars>>

CaptureHold(j) ==
  LET hold == job[j].hold
  IN /\ At(j, "capture")
     /\ CaptureOk(book, j, hold, job[j].cost)
     /\ book' = Capture(book, j, hold, job[j].cost)
     /\ Go(j, "works")
     /\ UNCHANGED <<record, faults, objects, providerVars, catalogueVars, credentialVars>>

\* A step of the database fails, or may not be done any more: the hold has expired.
Fault(possible) ==
  IF possible THEN faults < MaxFaults /\ faults' = faults + 1 ELSE UNCHANGED faults

\* A capture that throws is taken not to have committed.
CaptureThrows(j) ==
  /\ At(j, "capture")
  /\ Fault(CaptureOk(book, j, job[j].hold, job[j].cost))
  /\ Go(j, "release")
  /\ UNCHANGED <<book, record, objects, providerVars, catalogueVars, credentialVars>>

\* markUsed of a key that worked.
MarkWorks(j) ==
  /\ At(j, "works")
  /\ IF job[j].key # 0 THEN MarkUsed(job[j].key, FALSE) ELSE UNCHANGED <<credential, blamed>>
  /\ Go(j, "persist")
  /\ UNCHANGED <<book, record, objects, faults, providerVars, replaced, refused, catalogueVars>>

\* persistCompletedAssets: the image is downloaded, put and signed; what that throws is swallowed,
\* so an object may be there whose URL could not be signed.
Persist(j, put, signed) ==
  /\ At(j, "persist")
  /\ signed => put
  /\ objects' = IF put THEN objects \union {j} ELSE objects
  /\ job' = [job EXCEPT ![j].pc = "complete", ![j].stored = signed]
  /\ UNCHANGED <<book, record, faults, providerVars, catalogueVars, credentialVars>>

Complete(j) ==
  /\ At(j, "complete")
  /\ record' = [record EXCEPT ![j] = [status |-> "COMPLETED", charged |-> job[j].cost,
                                      stored |-> job[j].stored]]
  /\ Go(j, "done")
  /\ UNCHANGED <<book, objects, faults, providerVars, catalogueVars, credentialVars>>

\* The row cannot be written: the catch treats it as a failure of the provider.
CompleteThrows(j) ==
  /\ At(j, "complete")
  /\ Fault(TRUE)
  /\ job' = [job EXCEPT ![j].pc = "release", ![j].left = TRUE]
  /\ UNCHANGED <<book, record, objects, providerVars, catalogueVars, credentialVars>>

ReleaseHoldSlip(j) ==
  /\ At(j, "release")
  /\ Go(j, IF job[j].key # 0 THEN "mark" ELSE "fail")
  /\ UNCHANGED <<book, record, faults, objects, providerVars, catalogueVars, credentialVars>>

\* The catch: the hold, if there is one, is released; what releaseReservation throws is swallowed.
ReleaseHold(j) ==
  LET hold == job[j].hold
  IN /\ At(j, "release")
     /\ book' = IF hold # 0 /\ ReleaseOk(book, j, hold) THEN Release(book, j, hold) ELSE book
     /\ Go(j, IF job[j].key # 0 THEN "mark" ELSE "fail")
     /\ UNCHANGED <<record, faults, objects, providerVars, catalogueVars, credentialVars>>

ReleaseThrows(j) ==
  /\ At(j, "release")
  /\ job[j].hold # 0
  /\ Fault(TRUE)
  /\ job' = [job EXCEPT ![j].pc = "fail", ![j].left = TRUE]
  /\ UNCHANGED <<book, record, objects, providerVars, catalogueVars, credentialVars>>

\* Only a refusal of the key makes it INVALID; any other failure makes it ACTIVE.
MarkFails(j) ==
  /\ At(j, "mark")
  /\ MarkUsed(job[j].key, job[j].auth)
  /\ Go(j, IF record[j].status = "NONE" THEN "done" ELSE "fail")
  /\ UNCHANGED <<book, record, objects, faults, providerVars, replaced, refused, catalogueVars>>

RecordFailed(j) ==
  /\ At(j, "fail")
  /\ record' = [record EXCEPT ![j].status = "FAILED"]
  /\ Go(j, "done")
  /\ UNCHANGED <<book, faults, objects, providerVars, catalogueVars, credentialVars>>

\* testConnection: a ping with the key, INVALID or not; any failure of it makes the key INVALID.
TestKey(j, a) ==
  LET works == PingByokCredential(credential.provider, a)
  IN /\ At(j, "idle")
     /\ credential.key > 0
     /\ job' = [job EXCEPT ![j].pc = "mark", ![j].key = credential.key, ![j].auth = ~works]
     /\ refused' = IF works THEN refused ELSE refused \union {credential.key}
     /\ UNCHANGED <<book, record, objects, faults, providerVars, catalogueVars>>
     /\ UNCHANGED <<credential, blamed, replaced>>

\* The process stops, or a write fails where nothing catches it.
Die(j) ==
  /\ job[j].pc \notin {"idle", "done"}
  /\ Fault(TRUE)
  /\ job' = [job EXCEPT ![j].pc = "done", ![j].left = TRUE]
  /\ UNCHANGED <<book, record, objects, providerVars, catalogueVars, credentialVars>>

-----------------------------------------------------------------------------
HoldExpires(id) ==
  /\ IsActive(book, id)
  /\ ~book.reservations[id].expired
  /\ book' = Overdue(book, id)
  /\ UNCHANGED <<record, job, faults, objects, providerVars, catalogueVars, credentialVars>>

SweepHold(id) ==
  /\ IsActive(book, id)
  /\ book.reservations[id].expired
  /\ ReleaseOk(book, ExpireKey(id), id)
  /\ book' = MarkExpired(Release(book, ExpireKey(id), id), id)
  /\ UNCHANGED <<record, job, faults, objects, providerVars, catalogueVars, credentialVars>>

\* What the user and administrators do to the catalogue and the key; `using` as in ReplaceKey.
Configure(using) ==
  /\ CatalogueStep \/ ReplaceKey(using) \/ RemoveCredential
     \/ \E p \in {q \in Provider : TakesOwnKey(q)} : CreateCredential(p)
  /\ UNCHANGED jobVars

JobStep(j) ==
  \/ \E p \in Provider, in \in Input : StartOwnKey(j, p, in) \/ \E v \in Variant : Start(j, v, p, in)
  \/ ReserveHold(j) \/ CreateRecord(j)
  \/ ProviderWaits(j) \/ ReplicateWorks(j)
  \/ \E a \in Answer : ProviderAnswers(j, a) \/ TestKey(j, a)
  \/ \E put, signed \in BOOLEAN : Persist(j, put, signed)
  \/ CaptureHold(j) \/ CaptureThrows(j) \/ MarkWorks(j) \/ Complete(j) \/ CompleteThrows(j)
  \/ ReleaseHold(j) \/ ReleaseThrows(j) \/ MarkFails(j) \/ RecordFailed(j) \/ Die(j)

JobsNext ==
  \/ \E j \in Job : JobStep(j)
  \/ \E id \in DOMAIN book.reservations : HoldExpires(id) \/ SweepHold(id)

Next == Configure(Using) \/ JobsNext

Spec == Init /\ [][Next]_vars

-----------------------------------------------------------------------------
CapturedFor(j) == IF job[j].hold = 0 THEN 0 ELSE book.reservations[job[j].hold].capturedAmount

\* The images the gallery shows (AiGalleryService.list).
Gallery == {j \in Job : record[j].status = "COMPLETED" /\ record[j].stored}

\* An image request no fault cut short pays what its history shows, whatever expires or is swept
\* meanwhile: COMPLETED the price of its variant, FAILED nothing, and in the end it holds nothing.
\* No request is COMPLETED whose prediction had not succeeded, and what the gallery shows exists.
ImagesSettled ==
  /\ \A j \in Job : At(j, "done") /\ ~job[j].left =>
       /\ job[j].hold # 0 => ~IsActive(book, job[j].hold)
       /\ record[j].status = "COMPLETED" /\ job[j].hold # 0 => CapturedFor(j) = record[j].charged
       /\ record[j].status # "COMPLETED" => CapturedFor(j) = 0
  /\ \A j \in Job : record[j].status = "COMPLETED" => prediction[j] \in {"none", "succeeded"}
  /\ Gallery \subseteq objects
=============================================================================
