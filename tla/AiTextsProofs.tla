----------------------------- MODULE AiTextsProofs -----------------------------
(***************************************************************************)
(* The safety of AiTexts, and with it of AiImages and AiCatalogue, for any *)
(* number of jobs, texts, variants, prices, keys and faults.  A job knows  *)
(* what became of its hold because nobody else has its key; what a request *)
(* knows of the API key it was given stays true while the key is replaced  *)
(* or removed, because a replacement remembers who was using the old one.  *)
(***************************************************************************)
EXTENDS AiTexts, CreditBookTheorems

-----------------------------------------------------------------------------
(***************************************************************************)
(* Types.                                                                  *)
(***************************************************************************)
VariantRow == [exists : BOOLEAN, active : BOOLEAN, default : BOOLEAN, price : Price]
ChangeRow == {NoChange} \union [pc : {"setting"}, variant : Variant, sees : SUBSET Variant]
Providers == Provider \union {"none"}
CredentialRow ==
  [key : Nat, status : {"ACTIVE", "INVALID"}, provider : Providers, removed : BOOLEAN]

JobPlaces ==
  {"idle", "reserve", "create", "execute", "capture", "works", "persist", "complete",
   "release", "mark", "fail", "done"}
JobRow ==
  [pc : JobPlaces, key : Nat, cost : Nat, hold : Nat, auth : BOOLEAN, stored : BOOLEAN,
   left : BOOLEAN]
RecordRow ==
  [status : {"NONE", "PROCESSING", "COMPLETED", "FAILED"}, charged : Nat, stored : BOOLEAN]

CallPlaces == {"idle", "refuse", "resolve", "ask", "poll", "done", "failed"}
Prediction == {"none", "processing", "succeeded", "failed"}
CallRow ==
  [pc : CallPlaces, provider : Providers, seen : Prediction \union {"error"}, polls : Nat,
   auth : BOOLEAN]

TextPlaces ==
  {"idle", "create", "input", "fallback", "start", "execute", "works", "output", "complete",
   "mark", "fail", "done"}
TextRow ==
  [pc : TextPlaces, key : Nat, provider : Providers, auth : BOOLEAN, stored : BOOLEAN,
   left : BOOLEAN]
RequestRow ==
  [status : {"NONE", "QUEUED", "PROCESSING", "COMPLETED", "FAILED", "DELETED"},
   input : BOOLEAN, output : BOOLEAN, due : BOOLEAN]
HistoryRow == [state : {"none", "late", "kept"}, output : BOOLEAN]

TypeInv ==
  /\ variant \in [Variant -> VariantRow]
  /\ change \in [Admin -> ChangeRow]
  /\ credential \in CredentialRow
  /\ job \in [Job -> JobRow] /\ record \in [Job -> RecordRow]
  /\ call \in [Job -> CallRow] /\ prediction \in [Job -> Prediction]
  /\ text \in [Text -> TextRow] /\ row \in [Text -> RequestRow]
  /\ history \in [Text -> HistoryRow]

-----------------------------------------------------------------------------
(***************************************************************************)
(* The inductive invariant.                                                *)
(***************************************************************************)
\* OneDefault without counting.
AtMostOne == missed \/ \A v, w \in Defaults : v = w

Hold(j) == book.reservations[job[j].hold]
Unpaid(j) == Hold(j).status # "CAPTURED"
Gone(j) == Hold(j).status \notin {"ACTIVE", "CAPTURED"}
Paid(j, amount) == Hold(j).status = "CAPTURED" /\ Hold(j).capturedAmount = amount

\* What a job knows of its hold.
HoldInv(j) ==
  /\ job[j].hold \in DOMAIN book.reservations /\ Hold(j).idempotencyKey = j
  /\ job[j].cost # 0
  /\ job[j].pc \in {"create", "execute", "capture"} => Unpaid(j)
  /\ job[j].pc \in {"works", "persist", "complete"} => Paid(j, job[j].cost)
  /\ ~job[j].left =>
       /\ job[j].pc = "release" => Unpaid(j)
       /\ job[j].pc \in {"mark", "fail"} => Gone(j)
       /\ job[j].pc = "done" =>
            IF record[j].status = "COMPLETED" THEN Paid(j, record[j].charged) ELSE Gone(j)

\* Only a job on the platform's key holds credits.
CreditsInv(j) ==
  /\ job[j].pc \in {"idle", "reserve"} => job[j].hold = 0
  /\ job[j].pc = "idle" \/ job[j].hold # 0 => job[j].key = 0
  /\ job[j].pc = "reserve" => job[j].cost # 0 /\ job[j].key = 0
  /\ job[j].pc = "capture" => job[j].hold # 0
  /\ job[j].pc = "mark" => job[j].key # 0
  /\ job[j].hold # 0 => HoldInv(j)

Delivered(j) == prediction[j] \in {"none", "succeeded"}

\* A job whose adapter returned had its prediction succeed, or asked for none.
CallInv(j) ==
  /\ job[j].pc = "idle" => call[j].pc = "idle"
  /\ call[j].pc \in {"idle", "refuse", "resolve", "ask"} => prediction[j] = "none"
  /\ call[j].pc = "poll" /\ call[j].seen = "succeeded" => Delivered(j)
  /\ call[j].pc = "done" => Delivered(j)
  /\ job[j].pc \in {"capture", "works", "persist", "complete"} => call[j].pc = "done"
  /\ record[j].status = "COMPLETED" => job[j].pc = "done" /\ call[j].pc = "done"

StoreInv(j) == job[j].stored \/ record[j].stored => j \in objects

\* The key a request was given is the credential's, or was replaced meanwhile.
Known(key) == credential.key \in {0, key} \/ key \in {0} \union replaced
NeverHeld == credential.key = 0 /\ ~credential.removed

\* What a job or a text knows of the key it was given.
KeyInv(r) ==
  /\ r.pc # "done" => Known(r.key)
  /\ NeverHeld => r.key = 0
  /\ r.pc = "idle" => ~r.auth
  /\ r.auth => r.key \in {0} \union refused

CredentialInv ==
  /\ credential.key = 0 => credential.status = "ACTIVE"
  /\ BlameIsDeserved

\* An input or an output that was kept is where it can be found.
HistoryInv(t) ==
  /\ text[t].pc \notin {"idle", "done"} => text[t].key # 0
  /\ row[t].due => text[t].pc = "done"
  /\ text[t].pc \in {"start", "execute", "works", "output", "complete", "mark", "fail"} =>
       Shown(t).input
  /\ text[t].stored => text[t].pc \in {"complete", "done"}
  /\ text[t].pc = "complete" /\ text[t].stored => Kept(t) /\ history[t].output

\* What HistoryReadable says of one text.
Readable(t) ==
  Doing(t, "done") /\ ~text[t].left /\ row[t].status \in {"COMPLETED", "FAILED"} /\ ~row[t].due
    => Shown(t).input /\ (row[t].status = "COMPLETED" => Shown(t).output)

JobInv(j) == CreditsInv(j) /\ CallInv(j) /\ StoreInv(j) /\ KeyInv(job[j])
TextInv(t) == HistoryInv(t) /\ Readable(t) /\ KeyInv(text[t])
BookGood(b) == b \in Book /\ BookInv(b) /\ BookOk(b)

Inv ==
  /\ TypeInv /\ AtMostOne /\ CredentialInv /\ BookGood(book)
  /\ \A j \in Job : JobInv(j)
  /\ \A t \in Text : TextInv(t)

-----------------------------------------------------------------------------
(***************************************************************************)
(* Frames.                                                                 *)
(***************************************************************************)
\* The credential holds the same key, and nothing a request refused is forgotten.
SameKey ==
  /\ credential' \in CredentialRow /\ credential'.key = credential.key
  /\ credential'.removed = credential.removed
  /\ replaced' = replaced /\ refused \subseteq refused'

\* What a request knows of its key outlives the steps of others.
LEMMA KeyStays ==
  ASSUME SameKey, NEW r, KeyInv(r)
  PROVE  KeyInv(r)'
<1>1. Known(r.key)' <=> Known(r.key) BY DEF SameKey, Known
<1>2. NeverHeld' <=> NeverHeld BY DEF SameKey, NeverHeld
<1> QED BY <1>1, <1>2 DEF KeyInv, SameKey

\* A credential that is not judged stays justly judged.
LEMMA NotJudged ==
  ASSUME TypeInv, CredentialInv, UNCHANGED <<credential, blamed, replaced>>,
         refused \subseteq refused'
  PROVE  SameKey /\ CredentialInv'
  BY DEF TypeInv, CredentialInv, BlameIsDeserved, SameKey

\* markUsed judges by what the request learned of its own key.
LEMMA Judged ==
  ASSUME TypeInv, CredentialInv, NEW key, NEW failed \in BOOLEAN, MarkUsed(key, failed),
         UNCHANGED <<replaced, refused>>, failed => key # 0 /\ key \in refused /\ Known(key)
  PROVE  SameKey /\ CredentialInv'
<1>1. CASE credential.key = 0
  BY <1>1, NotJudged DEF MarkUsed
<1>2. CASE credential.key # 0
  <2> DEFINE status == IF failed THEN "INVALID" ELSE "ACTIVE"
  <2>1. /\ credential' = [credential EXCEPT !.status = status]
        /\ blamed' = IF failed THEN key ELSE blamed
    BY <1>2 DEF MarkUsed
  <2>2. /\ credential' \in CredentialRow /\ credential'.key = credential.key
        /\ credential'.removed = credential.removed /\ credential'.status = status
    BY <2>1 DEF TypeInv, CredentialRow
  <2>3. failed => key \in refused' /\ (key = credential'.key \/ key \in replaced')
    BY <1>2, <2>2 DEF Known
  <2>4. CredentialInv'
    BY <1>2, <2>1, <2>2, <2>3 DEF CredentialInv, BlameIsDeserved
  <2> QED BY <2>2, <2>4 DEF SameKey
<1> QED BY <1>1, <1>2

\* The part of the types that a step of a job touches.
JobTypes ==
  /\ job \in [Job -> JobRow] /\ record \in [Job -> RecordRow]
  /\ call \in [Job -> CallRow] /\ prediction \in [Job -> Prediction]

SameJob(i) ==
  /\ job'[i] = job[i] /\ record'[i] = record[i]
  /\ call'[i] = call[i] /\ prediction'[i] = prediction[i]

\* The other holds stay as they are.
OthersHeld(id) ==
  \A k \in DOMAIN book.reservations :
    k # id => k \in DOMAIN book'.reservations /\ book'.reservations[k] = book.reservations[k]

\* A job that stands still knows the same of everything after a step of another.
LEMMA OthersKeep ==
  ASSUME Inv, NEW i \in Job, NEW j \in Job, i # j, SameJob(i), SameKey,
         OthersHeld(job[j].hold), objects \subseteq objects'
  PROVE  JobInv(i)'
<1>1. JobInv(i) /\ JobInv(j) BY DEF Inv
<1>2. KeyInv(job[i])'
  <2>1. KeyInv(job[i]) BY <1>1 DEF JobInv
  <2>2. job'[i] = job[i] BY DEF SameJob
  <2> QED BY <2>1, <2>2, KeyStays DEF KeyInv, Known, NeverHeld, SameKey
<1>3. CallInv(i)' BY <1>1 DEF JobInv, CallInv, Delivered, SameJob
<1>4. StoreInv(i)' BY <1>1 DEF JobInv, StoreInv, SameJob
<1>5. CreditsInv(i)'
  <2>1. CASE job[i].hold = 0
    BY <1>1, <2>1 DEF JobInv, CreditsInv, SameJob
  <2>2. CASE job[i].hold # 0
    <3>1. HoldInv(i) BY <1>1, <2>2 DEF JobInv, CreditsInv
    <3>2. job[j].hold # job[i].hold
      BY <1>1, <2>2, <3>1 DEF JobInv, CreditsInv, HoldInv, Hold
    <3>3. job'[i].hold = job[i].hold /\ job[i].hold \in DOMAIN book'.reservations
          /\ Hold(i)' = Hold(i)
      BY <3>1, <3>2 DEF HoldInv, OthersHeld, Hold, SameJob
    <3>4. HoldInv(i)' BY <3>1, <3>3 DEF HoldInv, Unpaid, Gone, Paid, SameJob
    <3> QED BY <1>1, <2>2, <3>4 DEF JobInv, CreditsInv, SameJob
  <2> QED BY <2>1, <2>2
<1> QED BY <1>2, <1>3, <1>4, <1>5 DEF JobInv

\* A text that stands still, too.
LEMMA TextKeeps ==
  ASSUME Inv, NEW t \in Text, text'[t] = text[t], row'[t] = row[t], history'[t] = history[t],
         SameKey
  PROVE  TextInv(t)'
<1>1. TextInv(t) BY DEF Inv
<1>2. KeyInv(text[t])'
  BY <1>1, KeyStays DEF TextInv, KeyInv, Known, NeverHeld, SameKey
<1> QED BY <1>1, <1>2 DEF TextInv, HistoryInv, Readable, Doing, Shown, Kept

\* A step of one job.
LEMMA JobStepKeeps ==
  ASSUME Inv, NEW j \in Job, UNCHANGED <<textVars, catalogueVars>>, JobTypes',
         \A i \in Job : i # j => SameJob(i), objects \subseteq objects',
         BookGood(book'), OthersHeld(job[j].hold), SameKey, CredentialInv', JobInv(j)'
  PROVE  Inv'
<1>1. TypeInv' BY DEF Inv, TypeInv, JobTypes, SameKey, textVars, catalogueVars
<1>2. AtMostOne' BY DEF Inv, AtMostOne, Defaults, catalogueVars
<1>3. \A i \in Job : JobInv(i)' BY OthersKeep
<1>4. \A t \in Text : TextInv(t)' BY TextKeeps DEF textVars
<1> QED BY <1>1, <1>2, <1>3, <1>4 DEF Inv

-----------------------------------------------------------------------------
(***************************************************************************)
(* The steps of a job.                                                     *)
(***************************************************************************)
\* A job gets a new row.
LEMMA Moved ==
  ASSUME JobTypes, NEW j \in Job, NEW r \in JobRow, job' = [job EXCEPT ![j] = r]
  PROVE  /\ job' \in [Job -> JobRow] /\ job'[j] = r
         /\ \A i \in Job : i # j => job'[i] = job[i]
  BY DEF JobTypes

\* What a job has when it goes on to pc.
Goes(j, pc) ==
  /\ job' \in [Job -> JobRow] /\ \A i \in Job : i # j => job'[i] = job[i]
  /\ job'[j].pc = pc /\ job'[j].key = job[j].key /\ job'[j].cost = job[j].cost
  /\ job'[j].hold = job[j].hold /\ job'[j].auth = job[j].auth
  /\ job'[j].stored = job[j].stored

\* A job goes on with what it has.
LEMMA GoGoes ==
  ASSUME JobTypes, NEW j \in Job, NEW pc \in JobPlaces, Go(j, pc)
  PROVE  Goes(j, pc) /\ job'[j].left = job[j].left
<1> DEFINE r == [job[j] EXCEPT !.pc = pc]
<1>1. job[j] \in JobRow BY DEF JobTypes
<1>2. /\ r \in JobRow /\ r.pc = pc /\ r.key = job[j].key /\ r.cost = job[j].cost
      /\ r.hold = job[j].hold /\ r.auth = job[j].auth /\ r.stored = job[j].stored
      /\ r.left = job[j].left
  BY <1>1 DEF JobRow
<1>3. job' = [job EXCEPT ![j] = r] BY DEF Go
<1> HIDE DEF r
<1> QED BY <1>2, <1>3, Moved DEF Goes

\* A job that a fault sends on.
LEMMA LeftGoes ==
  ASSUME JobTypes, NEW j \in Job, NEW pc \in JobPlaces,
         job' = [job EXCEPT ![j].pc = pc, ![j].left = TRUE]
  PROVE  Goes(j, pc) /\ job'[j].left = TRUE
<1> DEFINE r == [job[j] EXCEPT !.pc = pc, !.left = TRUE]
<1>1. job[j] \in JobRow BY DEF JobTypes
<1>2. /\ r \in JobRow /\ r.pc = pc /\ r.key = job[j].key /\ r.cost = job[j].cost
      /\ r.hold = job[j].hold /\ r.auth = job[j].auth /\ r.stored = job[j].stored
      /\ r.left = TRUE
  BY <1>1 DEF JobRow
<1>3. job' = [job EXCEPT ![j] = r] BY DEF JobTypes
<1> HIDE DEF r
<1> QED BY <1>2, <1>3, Moved DEF Goes

\* A job that gets a hold.
LEMMA HoldSet ==
  ASSUME JobTypes, NEW j \in Job, NEW pc, NEW hold,
         job' = [job EXCEPT ![j].pc = pc, ![j].hold = hold]
  PROVE  job' = [job EXCEPT ![j] = [job[j] EXCEPT !.pc = pc, !.hold = hold]]
  BY DEF JobTypes

\* The places of a job.
LEMMA PlacesAre ==
  \A pc : pc \in JobPlaces <=>
    pc \in {"idle", "reserve", "create", "execute", "capture", "works", "persist", "complete",
            "release", "mark", "fail", "done"}
  BY DEF JobPlaces

\* What is known of a job and of its types.
LEMMA JobFacts ==
  ASSUME Inv, NEW j \in Job
  PROVE  /\ TypeInv /\ JobTypes /\ CredentialInv /\ BookGood(book)
         /\ CreditsInv(j) /\ CallInv(j) /\ StoreInv(j) /\ KeyInv(job[j])
  BY DEF Inv, TypeInv, JobTypes, JobInv

\* A step of a job that moves no credits and judges no key.
LEMMA QuietStep ==
  ASSUME Inv, NEW j \in Job, UNCHANGED <<textVars, catalogueVars, credentialVars, book>>,
         JobTypes', \A i \in Job : i # j => SameJob(i), objects \subseteq objects',
         CreditsInv(j)', CallInv(j)', StoreInv(j)', KeyInv(job[j])'
  PROVE  Inv'
<1>1. SameKey /\ CredentialInv' BY NotJudged DEF Inv, credentialVars
<1>2. BookGood(book') BY DEF Inv
<1>3. OthersHeld(job[j].hold) BY DEF OthersHeld
<1> QED BY <1>1, <1>2, <1>3, JobStepKeeps DEF JobInv

\* A step that leaves its job's key as it was.
LEMMA KeyKept ==
  ASSUME NEW j \in Job, KeyInv(job[j]), SameKey, job'[j].key = job[j].key,
         job'[j].auth => job[j].auth, job[j].pc = "done" => job'[j].pc = "done",
         job'[j].pc = "idle" => job[j].pc = "idle"
  PROVE  KeyInv(job[j])'
  BY DEF KeyInv, Known, NeverHeld, SameKey

\* A step that only moves the job.
LEMMA GoStep ==
  ASSUME Inv, NEW j \in Job, NEW pc \in JobPlaces, Goes(j, pc),
         UNCHANGED <<textVars, catalogueVars, credentialVars>>,
         UNCHANGED <<book, record, objects, providerVars>>,
         job[j].pc \notin {"idle", "done"}, pc # "idle",
         CreditsInv(j)', CallInv(j)'
  PROVE  Inv'
<1>1. JobTypes' BY JobFacts DEF JobTypes, Goes, providerVars
<1>2. \A i \in Job : i # j => SameJob(i) BY DEF Goes, SameJob, providerVars
<1>3. SameKey BY JobFacts, NotJudged DEF credentialVars
<1>4. KeyInv(job[j])' BY JobFacts, <1>3, KeyKept DEF Goes
<1>5. StoreInv(j)' BY JobFacts DEF StoreInv, Goes
<1> QED BY <1>1, <1>2, <1>4, <1>5, QuietStep

\* A capture that throws.
LEMMA CaptureThrowsKeeps ==
  ASSUME Inv, NEW j \in Job, CaptureThrows(j), UNCHANGED textVars PROVE Inv'
<1>1. /\ job[j].pc = "capture" /\ Goes(j, "release") /\ job'[j].left = job[j].left
      /\ UNCHANGED <<book, record, objects, providerVars, catalogueVars, credentialVars>>
  BY JobFacts, GoGoes, PlacesAre DEF CaptureThrows, At
<1>2. CreditsInv(j)' BY <1>1, JobFacts DEF CreditsInv, HoldInv, Hold, Unpaid, Paid, Gone, Goes
<1>3. CallInv(j)' BY <1>1, JobFacts DEF CallInv, Goes, providerVars, Delivered
<1> QED BY <1>1, <1>2, <1>3, GoStep, PlacesAre

\* A row that cannot be completed.
LEMMA CompleteThrowsKeeps ==
  ASSUME Inv, NEW j \in Job, CompleteThrows(j), UNCHANGED textVars PROVE Inv'
<1>1. /\ job[j].pc = "complete" /\ Goes(j, "release") /\ job'[j].left
      /\ UNCHANGED <<book, record, objects, providerVars, catalogueVars, credentialVars>>
  BY JobFacts, LeftGoes, PlacesAre DEF CompleteThrows, At
<1>2. CreditsInv(j)' BY <1>1, JobFacts DEF CreditsInv, HoldInv, Hold, Unpaid, Paid, Gone, Goes
<1>3. CallInv(j)' BY <1>1, JobFacts DEF CallInv, Goes, providerVars, Delivered
<1> QED BY <1>1, <1>2, <1>3, GoStep, PlacesAre

\* A release that throws.
LEMMA ReleaseThrowsKeeps ==
  ASSUME Inv, NEW j \in Job, ReleaseThrows(j), UNCHANGED textVars PROVE Inv'
<1>1. /\ job[j].pc = "release" /\ Goes(j, "fail") /\ job'[j].left
      /\ UNCHANGED <<book, record, objects, providerVars, catalogueVars, credentialVars>>
  BY JobFacts, LeftGoes, PlacesAre DEF ReleaseThrows, At
<1>2. CreditsInv(j)' BY <1>1, JobFacts DEF CreditsInv, HoldInv, Hold, Unpaid, Paid, Gone, Goes
<1>3. CallInv(j)' BY <1>1, JobFacts DEF CallInv, Goes, providerVars, Delivered
<1> QED BY <1>1, <1>2, <1>3, GoStep, PlacesAre

\* A process that dies.
LEMMA DieKeeps ==
  ASSUME Inv, NEW j \in Job, Die(j), UNCHANGED textVars PROVE Inv'
<1>1. /\ job[j].pc \notin {"idle", "done"} /\ Goes(j, "done") /\ job'[j].left
      /\ UNCHANGED <<book, record, objects, providerVars, catalogueVars, credentialVars>>
  BY JobFacts, LeftGoes, PlacesAre DEF Die
<1>2. CreditsInv(j)' BY <1>1, JobFacts DEF CreditsInv, HoldInv, Hold, Unpaid, Paid, Gone, Goes
<1>3. CallInv(j)' BY <1>1, JobFacts DEF CallInv, Goes, providerVars, Delivered
<1> QED BY <1>1, <1>2, <1>3, GoStep, PlacesAre

\* The row of a request is written.
LEMMA RecordStep ==
  ASSUME Inv, NEW j \in Job, NEW pc \in JobPlaces, Goes(j, pc), NEW x \in RecordRow,
         record' = [record EXCEPT ![j] = x], x.stored => record[j].stored \/ job[j].stored,
         UNCHANGED <<textVars, catalogueVars, credentialVars, book, objects, providerVars>>,
         job[j].pc \notin {"idle", "done"}, pc # "idle",
         record'[j] = x => CreditsInv(j)' /\ CallInv(j)'
  PROVE  Inv'
<1>1. record' \in [Job -> RecordRow] /\ record'[j] = x
      /\ \A i \in Job : i # j => record'[i] = record[i]
  BY JobFacts DEF JobTypes
<1>2. JobTypes' BY <1>1, JobFacts DEF JobTypes, Goes, providerVars
<1>3. \A i \in Job : i # j => SameJob(i) BY <1>1 DEF Goes, SameJob, providerVars
<1>4. SameKey BY JobFacts, NotJudged DEF credentialVars
<1>5. KeyInv(job[j])' BY JobFacts, <1>4, KeyKept DEF Goes
<1>6. StoreInv(j)' BY <1>1, JobFacts DEF StoreInv, Goes
<1> QED BY <1>1, <1>2, <1>3, <1>5, <1>6, QuietStep

\* The row of a request under way.
LEMMA CreateRecordKeeps ==
  ASSUME Inv, NEW j \in Job, CreateRecord(j), UNCHANGED textVars PROVE Inv'
<1> DEFINE x == [record[j] EXCEPT !.status = "PROCESSING"]
<1>1. /\ job[j].pc = "create" /\ Goes(j, "execute") /\ job'[j].left = job[j].left
      /\ record' = [record EXCEPT ![j] = x]
      /\ UNCHANGED <<book, objects, providerVars, catalogueVars, credentialVars>>
  BY JobFacts, GoGoes, PlacesAre DEF CreateRecord, At
<1>2. x \in RecordRow /\ x.status = "PROCESSING" /\ x.stored = record[j].stored
  BY JobFacts DEF JobTypes, RecordRow
<1> HIDE DEF x
<1>3. ASSUME record'[j] = x PROVE CreditsInv(j)'
  BY <1>1, <1>2, <1>3, JobFacts DEF CreditsInv, HoldInv, Hold, Unpaid, Paid, Gone, Goes
<1>4. ASSUME record'[j] = x PROVE CallInv(j)'
  BY <1>1, <1>2, <1>4, JobFacts DEF CallInv, Goes, providerVars, Delivered
<1> QED BY <1>1, <1>2, <1>3, <1>4, RecordStep, PlacesAre

\* The row of a request that failed.
LEMMA RecordFailedKeeps ==
  ASSUME Inv, NEW j \in Job, RecordFailed(j), UNCHANGED textVars PROVE Inv'
<1> DEFINE x == [record[j] EXCEPT !.status = "FAILED"]
<1>1. /\ job[j].pc = "fail" /\ Goes(j, "done") /\ job'[j].left = job[j].left
      /\ record' = [record EXCEPT ![j] = x]
      /\ UNCHANGED <<book, objects, providerVars, catalogueVars, credentialVars>>
  BY JobFacts, GoGoes, PlacesAre DEF RecordFailed, At
<1>2. x \in RecordRow /\ x.status = "FAILED" /\ x.stored = record[j].stored
  BY JobFacts DEF JobTypes, RecordRow
<1> HIDE DEF x
<1>3. ASSUME record'[j] = x PROVE CreditsInv(j)'
  BY <1>1, <1>2, <1>3, JobFacts DEF CreditsInv, HoldInv, Hold, Unpaid, Paid, Gone, Goes
<1>4. ASSUME record'[j] = x PROVE CallInv(j)'
  BY <1>1, <1>2, <1>4, JobFacts DEF CallInv, Goes, providerVars, Delivered
<1> QED BY <1>1, <1>2, <1>3, <1>4, RecordStep, PlacesAre

\* The row of a request that is paid for and delivered.
LEMMA CompleteKeeps ==
  ASSUME Inv, NEW j \in Job, Complete(j), UNCHANGED textVars PROVE Inv'
<1> DEFINE x == [status |-> "COMPLETED", charged |-> job[j].cost, stored |-> job[j].stored]
<1>1. /\ job[j].pc = "complete" /\ Goes(j, "done") /\ job'[j].left = job[j].left
      /\ record' = [record EXCEPT ![j] = x]
      /\ UNCHANGED <<book, objects, providerVars, catalogueVars, credentialVars>>
  BY JobFacts, GoGoes, PlacesAre DEF Complete, At
<1>2. x \in RecordRow /\ x.status = "COMPLETED" /\ x.stored = job[j].stored
      /\ x.charged = job[j].cost
  BY JobFacts DEF JobTypes, RecordRow, JobRow
<1> HIDE DEF x
<1>3. ASSUME record'[j] = x PROVE CreditsInv(j)'
  BY <1>1, <1>2, <1>3, JobFacts DEF CreditsInv, HoldInv, Hold, Unpaid, Paid, Gone, Goes
<1>4. ASSUME record'[j] = x PROVE CallInv(j)'
  BY <1>1, <1>2, <1>4, JobFacts DEF CallInv, Goes, providerVars, Delivered
<1> QED BY <1>1, <1>2, <1>3, <1>4, RecordStep, PlacesAre

\* An image is put into the storage, or not.
LEMMA PersistKeeps ==
  ASSUME Inv, NEW j \in Job, NEW put \in BOOLEAN, NEW signed \in BOOLEAN,
         Persist(j, put, signed), UNCHANGED textVars
  PROVE  Inv'
<1> DEFINE r == [job[j] EXCEPT !.pc = "complete", !.stored = signed]
<1>1. /\ job[j].pc = "persist" /\ job' = [job EXCEPT ![j] = r]
      /\ objects' = IF put THEN objects \union {j} ELSE objects
      /\ signed => put
      /\ UNCHANGED <<book, record, providerVars, catalogueVars, credentialVars>>
  BY JobFacts DEF Persist, At, JobTypes
<1>2. /\ r \in JobRow /\ r.pc = "complete" /\ r.key = job[j].key /\ r.cost = job[j].cost
      /\ r.hold = job[j].hold /\ r.auth = job[j].auth /\ r.stored = signed
      /\ r.left = job[j].left
  BY JobFacts, PlacesAre DEF JobTypes, JobRow
<1> HIDE DEF r
<1>3. /\ job' \in [Job -> JobRow] /\ job'[j] = r
      /\ \A i \in Job : i # j => job'[i] = job[i]
  BY <1>1, <1>2, JobFacts, Moved
<1>4. JobTypes' BY <1>1, <1>3, JobFacts DEF JobTypes, providerVars
<1>5. \A i \in Job : i # j => SameJob(i) BY <1>1, <1>3 DEF SameJob, providerVars
<1>6. KeyInv(job[j])'
  <2>1. SameKey BY <1>1, JobFacts, NotJudged DEF credentialVars
  <2> QED BY <1>1, <1>2, <1>3, <2>1, JobFacts, KeyKept
<1>7. StoreInv(j)' BY <1>1, <1>2, <1>3, JobFacts DEF StoreInv
<1>8. CreditsInv(j)'
  BY <1>1, <1>2, <1>3, JobFacts DEF CreditsInv, HoldInv, Hold, Unpaid, Paid, Gone
<1>9. CallInv(j)' BY <1>1, <1>2, <1>3, JobFacts DEF CallInv, providerVars, Delivered
<1> QED BY <1>1, <1>4, <1>5, <1>6, <1>7, <1>8, <1>9, QuietStep

\* A step that judges the key of a job.
LEMMA MarkStep ==
  ASSUME Inv, NEW j \in Job, NEW pc \in JobPlaces, Goes(j, pc),
         UNCHANGED <<textVars, catalogueVars, book, record, objects, providerVars>>,
         SameKey, CredentialInv', job[j].pc \notin {"idle", "done"}, pc # "idle",
         CreditsInv(j)', CallInv(j)'
  PROVE  Inv'
<1>1. JobTypes' BY JobFacts DEF JobTypes, Goes, providerVars
<1>2. \A i \in Job : i # j => SameJob(i) BY DEF Goes, SameJob, providerVars
<1>3. KeyInv(job[j])' BY JobFacts, KeyKept DEF Goes
<1>4. StoreInv(j)' BY JobFacts DEF StoreInv, Goes
<1>5. BookGood(book') /\ OthersHeld(job[j].hold) BY DEF Inv, OthersHeld
<1> QED BY <1>1, <1>2, <1>3, <1>4, <1>5, JobStepKeeps DEF JobInv

\* A key that worked.
LEMMA MarkWorksKeeps ==
  ASSUME Inv, NEW j \in Job, MarkWorks(j), UNCHANGED textVars PROVE Inv'
<1>1. /\ job[j].pc = "works" /\ Goes(j, "persist") /\ job'[j].left = job[j].left
      /\ UNCHANGED <<book, record, objects, providerVars, replaced, refused, catalogueVars>>
      /\ IF job[j].key # 0 THEN MarkUsed(job[j].key, FALSE) ELSE UNCHANGED <<credential, blamed>>
  BY JobFacts, GoGoes, PlacesAre DEF MarkWorks, At
<1>2. SameKey /\ CredentialInv'
  <2>1. CASE job[j].key = 0 BY <1>1, <2>1, JobFacts, NotJudged
  <2>2. CASE job[j].key # 0 BY <1>1, <2>2, JobFacts, Judged
  <2> QED BY <2>1, <2>2
<1>3. CreditsInv(j)' BY <1>1, JobFacts DEF CreditsInv, HoldInv, Hold, Unpaid, Paid, Gone, Goes
<1>4. CallInv(j)' BY <1>1, JobFacts DEF CallInv, Goes, providerVars, Delivered
<1> QED BY <1>1, <1>2, <1>3, <1>4, MarkStep, PlacesAre

\* A key that was refused, or another failure.
LEMMA MarkFailsKeeps ==
  ASSUME Inv, NEW j \in Job, MarkFails(j), UNCHANGED textVars PROVE Inv'
<1> DEFINE pc == IF record[j].status = "NONE" THEN "done" ELSE "fail"
<1>1. /\ job[j].pc = "mark" /\ Go(j, pc) /\ pc \in {"done", "fail"}
      /\ UNCHANGED <<book, record, objects, providerVars, replaced, refused, catalogueVars>>
      /\ MarkUsed(job[j].key, job[j].auth)
  BY DEF MarkFails, At
<1> HIDE DEF pc
<1>2. Goes(j, pc) /\ job'[j].left = job[j].left BY <1>1, JobFacts, GoGoes, PlacesAre
<1>3. SameKey /\ CredentialInv'
  <2>1. job[j].key # 0 BY <1>1, JobFacts DEF CreditsInv
  <2>2. job[j].auth \in BOOLEAN BY JobFacts DEF JobTypes, JobRow
  <2>3. Known(job[j].key) /\ (job[j].auth => job[j].key \in refused)
    BY <1>1, <2>1, JobFacts DEF KeyInv
  <2> QED BY <1>1, <2>1, <2>2, <2>3, JobFacts, Judged
<1>4. CreditsInv(j)' BY <1>1, <1>2, JobFacts DEF CreditsInv, HoldInv, Hold, Goes
<1>5. CallInv(j)' BY <1>1, <1>2, JobFacts DEF CallInv, Goes, providerVars, Delivered
<1> QED BY <1>1, <1>2, <1>3, <1>4, <1>5, MarkStep, PlacesAre

-----------------------------------------------------------------------------
(***************************************************************************)
(* The steps that move credits.                                            *)
(***************************************************************************)
\* A step that moves the credits of one job.
LEMMA CreditStep ==
  ASSUME Inv, NEW j \in Job, NEW pc \in JobPlaces, job'[j].pc = pc,
         job' \in [Job -> JobRow], \A i \in Job : i # j => job'[i] = job[i],
         job'[j].key = job[j].key, job'[j].auth = job[j].auth, job'[j].stored = job[j].stored,
         UNCHANGED <<textVars, catalogueVars, credentialVars, record, objects, providerVars>>,
         BookGood(book'), OthersHeld(job[j].hold),
         job[j].pc \notin {"idle", "done"}, pc # "idle", CreditsInv(j)', CallInv(j)'
  PROVE  Inv'
<1>1. JobTypes' BY JobFacts DEF JobTypes, providerVars
<1>2. \A i \in Job : i # j => SameJob(i) BY DEF SameJob, providerVars
<1>3. SameKey /\ CredentialInv' BY JobFacts, NotJudged DEF credentialVars
<1>4. KeyInv(job[j])' BY JobFacts, <1>3, KeyKept
<1>5. StoreInv(j)' BY JobFacts DEF StoreInv
<1> QED BY <1>1, <1>2, <1>3, <1>4, <1>5, JobStepKeeps DEF JobInv

\* The price is held, or the request ends here.
LEMMA ReserveHoldKeeps ==
  ASSUME Inv, NEW j \in Job, ReserveHold(j), UNCHANGED textVars PROVE Inv'
<1> DEFINE new == Len(book.reservations) + 1
           r == [job[j] EXCEPT !.pc = "create", !.hold = new]
           cost == job[j].cost
<1>1. /\ job[j].pc = "reserve"
      /\ UNCHANGED <<record, objects, providerVars, catalogueVars, credentialVars>>
      /\ job[j].hold = 0 /\ job[j].key = 0 /\ cost \in Nat \ {0} /\ j \in Key
      /\ BookGood(book)
  BY JobFacts, JobAssumption DEF ReserveHold, At, CreditsInv, JobTypes, JobRow
<1>2. CASE ~ReserveOk(book, j, cost)
  <2>1. Goes(j, "done") /\ UNCHANGED book
    BY <1>2, JobFacts, GoGoes, PlacesAre DEF ReserveHold
  <2>2. CreditsInv(j)' BY <1>1, <2>1 DEF CreditsInv, Goes
  <2>3. CallInv(j)' BY <1>1, <2>1, JobFacts DEF CallInv, Goes, providerVars, Delivered
  <2> QED BY <1>1, <2>1, <2>2, <2>3, GoStep, PlacesAre
<1>3. CASE ReserveOk(book, j, cost)
  <2>1. book' = Reserve(book, j, cost) /\ job' = [job EXCEPT ![j] = r]
    <3>1. /\ book' = Reserve(book, j, cost)
          /\ job' = [job EXCEPT ![j].pc = "create", ![j].hold = new]
      BY <1>3 DEF ReserveHold
    <3> QED BY <3>1, JobFacts, HoldSet
  <2>2. BookStep(book, book') BY <1>1, <1>3, <2>1, ReserveStep DEF BookGood
  <2>3. /\ BookOk(book') /\ new \in Nat \ {0}
        /\ DOMAIN book'.reservations = DOMAIN book.reservations \union {new}
        /\ book'.reservations[new].idempotencyKey = j
        /\ book'.reservations[new].status = "ACTIVE"
        /\ \A k \in DOMAIN book.reservations :
             k # new /\ book'.reservations[k] = book.reservations[k]
    BY <1>1, <1>3, <2>1, ReserveBook DEF BookGood
  <2> HIDE DEF new
  <2>4. /\ r \in JobRow /\ r.pc = "create" /\ r.key = job[j].key /\ r.cost = cost
        /\ r.hold = new /\ r.auth = job[j].auth /\ r.stored = job[j].stored
    <3>1. job[j] \in JobRow BY JobFacts DEF JobTypes
    <3>2. new \in Nat BY <2>3
    <3> QED BY <3>1, <3>2, PlacesAre DEF JobRow
  <2> HIDE DEF r
  <2>5. /\ job' \in [Job -> JobRow] /\ job'[j] = r
        /\ \A i \in Job : i # j => job'[i] = job[i]
    BY <2>1, <2>4, JobFacts, Moved
  <2>6. BookGood(book') BY <2>2, <2>3 DEF BookGood, BookStep
  <2>7. OthersHeld(job[j].hold) BY <2>3 DEF OthersHeld
  <2>8. CreditsInv(j)'
    BY <1>1, <2>3, <2>4, <2>5 DEF CreditsInv, HoldInv, Hold, Unpaid, Paid, Gone
  <2>9. CallInv(j)' BY <1>1, <2>4, <2>5, JobFacts DEF CallInv, providerVars, Delivered
  <2> QED BY <1>1, <2>4, <2>5, <2>6, <2>7, <2>8, <2>9, CreditStep, PlacesAre
<1> QED BY <1>2, <1>3

\* The hold is charged.
LEMMA CaptureHoldKeeps ==
  ASSUME Inv, NEW j \in Job, CaptureHold(j), UNCHANGED textVars PROVE Inv'
<1> DEFINE h == job[j].hold
           cost == job[j].cost
<1>1. /\ job[j].pc = "capture" /\ Goes(j, "works")
      /\ CaptureFits(book, j, h, cost) /\ book' = Capture(book, j, h, cost)
      /\ UNCHANGED <<record, objects, providerVars, catalogueVars, credentialVars>>
  BY JobFacts, GoGoes, PlacesAre DEF CaptureHold, CaptureOk, At
<1>2. /\ h # 0 /\ HoldInv(j) /\ cost \in Nat \ {0} /\ j \in Key /\ BookGood(book)
  BY <1>1, JobFacts, JobAssumption DEF CreditsInv, HoldInv, JobTypes, JobRow
<1>3. h \in DOMAIN book.reservations /\ book.reservations[h].idempotencyKey = j
  BY <1>2 DEF HoldInv, Hold
<1>4. BookStep(book, book') BY <1>1, <1>2, <1>3, CaptureStep DEF BookGood
<1>5. /\ BookOk(book') /\ Later(book, book')
      /\ DOMAIN book'.reservations = DOMAIN book.reservations
      /\ book'.reservations[h].status = "CAPTURED"
      /\ book'.reservations[h].capturedAmount = cost
      /\ \A k \in DOMAIN book.reservations : k # h =>
           book'.reservations[k] = book.reservations[k]
  BY <1>1, <1>2, <1>3, CaptureBook DEF BookGood
<1>6. BookGood(book') BY <1>4, <1>5 DEF BookGood, BookStep
<1>7. OthersHeld(h) BY <1>5 DEF OthersHeld
<1>8. book'.reservations[h].idempotencyKey = j BY <1>3, <1>5 DEF Later
<1>9. CreditsInv(j)'
  <2>1. HoldInv(j)' BY <1>1, <1>2, <1>3, <1>5, <1>8 DEF HoldInv, Hold, Unpaid, Paid, Gone, Goes
  <2> QED BY <1>1, <2>1, JobFacts DEF CreditsInv, Goes
<1>10. CallInv(j)' BY <1>1, JobFacts DEF CallInv, Goes, providerVars, Delivered
<1> QED BY <1>1, <1>6, <1>7, <1>9, <1>10, CreditStep, PlacesAre DEF Goes

\* The hold of a job whose release is refused was settled.
LEMMA RefusedIsSettled ==
  ASSUME BookGood(book), NEW j \in Job, HoldInv(j), ~ReleaseOk(book, j, job[j].hold)
  PROVE  Hold(j).status # "ACTIVE"
<1> DEFINE h == job[j].hold
<1>1. h \in DOMAIN book.reservations /\ book.reservations[h].idempotencyKey = j /\ j \in Key
  BY JobAssumption DEF HoldInv, Hold
<1>2. CASE HasEntry(book, "RESERVATION_RELEASE", j)
  <2>1. RowsTell(book) /\ KeysOnce(book) BY DEF BookGood, BookOk
  <2>2. PICK id \in DOMAIN book.reservations :
          book.reservations[id].idempotencyKey = j /\ book.reservations[id].status # "ACTIVE"
    BY <1>1, <1>2, <2>1 DEF RowsTell
  <2> QED BY <1>1, <2>1, <2>2 DEF KeysOnce, Hold
<1>3. CASE ~IsActive(book, h)
  BY <1>1, <1>3 DEF IsActive, Hold
<1>4. CASE IsActive(book, h) /\ ~HasEntry(book, "RESERVATION_RELEASE", j)
  <2>1. Backed(book) /\ book \in Book BY DEF BookGood, BookInv
  <2>2. book.reserved >= book.reservations[h].amount BY <1>4, <2>1, HoldIsCovered
  <2> QED BY <1>4, <2>2 DEF ReleaseOk
<1> QED BY <1>2, <1>3, <1>4

\* The catch gives the hold back, unless it was settled.
LEMMA ReleaseHoldKeeps ==
  ASSUME Inv, NEW j \in Job, ReleaseHold(j), UNCHANGED textVars PROVE Inv'
<1> DEFINE h == job[j].hold
           pc == IF job[j].key # 0 THEN "mark" ELSE "fail"
<1>1. /\ job[j].pc = "release" /\ Go(j, pc) /\ pc \in {"mark", "fail"}
      /\ pc = "mark" => job[j].key # 0
      /\ book' = IF h # 0 /\ ReleaseOk(book, j, h) THEN Release(book, j, h) ELSE book
      /\ UNCHANGED <<record, objects, providerVars, catalogueVars, credentialVars>>
  BY DEF ReleaseHold, At
<1> HIDE DEF pc
<1>2. Goes(j, pc) /\ job'[j].left = job[j].left BY <1>1, JobFacts, GoGoes, PlacesAre
<1>3. CallInv(j)' BY <1>1, <1>2, JobFacts DEF CallInv, Goes, providerVars, Delivered
<1>4. BookGood(book) /\ (h # 0 => HoldInv(j)) BY JobFacts DEF CreditsInv
<1>5. CASE h = 0
  <2>1. CreditsInv(j)' BY <1>1, <1>2, <1>5 DEF CreditsInv, Goes
  <2>2. UNCHANGED book BY <1>1, <1>5
  <2> QED BY <1>1, <1>2, <1>3, <2>1, <2>2, GoStep, PlacesAre
<1>6. CASE h # 0 /\ ~ReleaseOk(book, j, h)
  <2>1. UNCHANGED book /\ Hold(j).status # "ACTIVE" BY <1>1, <1>4, <1>6, RefusedIsSettled
  <2>2. HoldInv(j)'
    BY <1>1, <1>2, <1>4, <1>6, <2>1 DEF HoldInv, Hold, Unpaid, Paid, Gone, Goes
  <2>3. CreditsInv(j)' BY <1>1, <1>2, <2>2, JobFacts DEF CreditsInv, Goes
  <2> QED BY <1>1, <1>2, <1>3, <2>1, <2>3, GoStep, PlacesAre
<1>7. CASE h # 0 /\ ReleaseOk(book, j, h)
  <2>1. book' = Release(book, j, h) BY <1>1, <1>7
  <2>2. /\ h \in DOMAIN book.reservations /\ book.reservations[h].idempotencyKey = j
        /\ j \in Key
    BY <1>4, <1>7, JobAssumption DEF HoldInv, Hold
  <2>3. BookStep(book, book') BY <1>4, <1>7, <2>1, <2>2, ReleaseStep DEF BookGood
  <2>4. /\ BookOk(book') /\ Later(book, book')
        /\ DOMAIN book'.reservations = DOMAIN book.reservations
        /\ book'.reservations[h].status = "RELEASED"
        /\ \A k \in DOMAIN book.reservations : k # h =>
             book'.reservations[k] = book.reservations[k]
    BY <1>4, <1>7, <2>1, <2>2, ReleaseBook DEF BookGood
  <2>5. BookGood(book') BY <2>3, <2>4 DEF BookGood, BookStep
  <2>6. OthersHeld(h) BY <2>4 DEF OthersHeld
  <2>7. book'.reservations[h].idempotencyKey = j BY <2>2, <2>4 DEF Later
  <2>8. HoldInv(j)'
    BY <1>1, <1>2, <1>4, <1>7, <2>2, <2>4, <2>7 DEF HoldInv, Hold, Unpaid, Paid, Gone, Goes
  <2>9. CreditsInv(j)' BY <1>1, <1>2, <2>8, JobFacts DEF CreditsInv, Goes
  <2> QED BY <1>1, <1>2, <1>3, <2>5, <2>6, <2>9, CreditStep, PlacesAre DEF Goes
<1> QED BY <1>5, <1>6, <1>7

\* A hold reaches its expiry, or is swept.
LEMMA ExpiryStep ==
  ASSUME Inv, BookGood(book'), Later(book, book'),
         UNCHANGED <<textVars, record, job, objects, providerVars, catalogueVars, credentialVars>>,
         \A id \in DOMAIN book.reservations :
           /\ book'.reservations[id].status = "CAPTURED" <=>
                book.reservations[id].status = "CAPTURED"
           /\ book'.reservations[id].status = "ACTIVE" => book.reservations[id].status = "ACTIVE"
  PROVE  Inv'
<1>1. SameKey /\ CredentialInv' BY NotJudged DEF Inv, credentialVars
<1>2. TypeInv' BY <1>1 DEF Inv, TypeInv, textVars, providerVars, catalogueVars, credentialVars
<1>3. AtMostOne' BY DEF Inv, AtMostOne, Defaults, catalogueVars
<1>4. ASSUME NEW j \in Job PROVE JobInv(j)'
  <2>1. KeyInv(job[j])'
    BY <1>1, JobFacts, KeyStays DEF KeyInv, Known, NeverHeld, SameKey
  <2>2. CallInv(j)' /\ StoreInv(j)'
    BY JobFacts DEF CallInv, StoreInv, Delivered, providerVars
  <2>3. ASSUME job[j].hold # 0 PROVE HoldInv(j)'
    <3>1. HoldInv(j) BY <2>3, JobFacts DEF CreditsInv
    <3> DEFINE h == job[j].hold
    <3>2. h \in DOMAIN book.reservations BY <3>1 DEF HoldInv
    <3>3. /\ h \in DOMAIN book'.reservations
          /\ book'.reservations[h].idempotencyKey = book.reservations[h].idempotencyKey
          /\ book.reservations[h].status = "CAPTURED" =>
               book'.reservations[h].capturedAmount = book.reservations[h].capturedAmount
          /\ book'.reservations[h].status = "CAPTURED" <=> book.reservations[h].status = "CAPTURED"
          /\ book'.reservations[h].status = "ACTIVE" => book.reservations[h].status = "ACTIVE"
      BY <3>2 DEF Later
    <3> QED BY <3>1, <3>3 DEF HoldInv, Hold, Unpaid, Paid, Gone
  <2>4. CreditsInv(j)' BY <2>3, JobFacts DEF CreditsInv
  <2> QED BY <2>1, <2>2, <2>4 DEF JobInv
<1>5. \A t \in Text : TextInv(t)' BY <1>1, TextKeeps DEF textVars
<1> QED BY <1>1, <1>2, <1>3, <1>4, <1>5 DEF Inv

\* A hold reaches its expiry.
LEMMA HoldExpiresKeeps ==
  ASSUME Inv, NEW id \in DOMAIN book.reservations, HoldExpires(id), UNCHANGED textVars PROVE Inv'
<1>1. /\ book' = Overdue(book, id) /\ BookGood(book)
      /\ UNCHANGED <<record, job, objects, providerVars, catalogueVars, credentialVars>>
  BY DEF HoldExpires, Inv
<1>2. BookStep(book, book') BY <1>1, OverdueStep DEF BookGood
<1>3. /\ BookOk(book') /\ Later(book, book')
      /\ \A k \in DOMAIN book.reservations :
           book'.reservations[k].status = book.reservations[k].status
  <2>1. "reservations" \in DOMAIN book /\ "entries" \in DOMAIN book BY <1>1 DEF BookGood, Book
  <2> QED BY <1>1, <2>1, OverdueBook DEF BookGood
<1>4. BookGood(book') BY <1>2, <1>3 DEF BookGood, BookStep
<1> QED BY <1>1, <1>3, <1>4, ExpiryStep

\* The sweep gives an overdue hold back.
LEMMA SweepHoldKeeps ==
  ASSUME Inv, NEW id \in DOMAIN book.reservations, SweepHold(id), UNCHANGED textVars PROVE Inv'
<1> DEFINE m == Release(book, ExpireKey(id), id)
<1>1. /\ ReleaseOk(book, ExpireKey(id), id) /\ book' = MarkExpired(m, id) /\ BookGood(book)
      /\ UNCHANGED <<record, job, objects, providerVars, catalogueVars, credentialVars>>
  BY DEF SweepHold, Inv
<1>2. /\ BookOk(book') /\ Later(book, book')
      /\ DOMAIN book'.reservations = DOMAIN book.reservations
      /\ book'.reservations[id].status = "EXPIRED"
      /\ \A k \in DOMAIN book.reservations : k # id =>
           book'.reservations[k] = book.reservations[k]
  BY <1>1, SweepBook DEF BookGood
<1>3. BookStep(book, m) /\ id \in DOMAIN m.reservations
  <2>1. id \in Nat BY <1>1, ReservationFields DEF BookGood
  <2>2. ExpireKey(id) \in Key \union [expire : Nat] BY <2>1 DEF ExpireKey
  <2>3. BookStep(book, m) BY <1>1, <2>2, ReleaseStep DEF BookGood
  <2> QED BY <2>3 DEF BookStep
<1>4. BookStep(m, book')
  <2>1. m \in Book /\ BookInv(m) BY <1>3 DEF BookStep
  <2> QED BY <1>1, <1>3, <2>1, MarkExpiredStep
<1>5. BookGood(book') BY <1>2, <1>4 DEF BookGood, BookStep
<1>6. book.reservations[id].status = "ACTIVE" BY <1>1 DEF ReleaseOk, IsActive
<1>7. ASSUME NEW k \in DOMAIN book.reservations
      PROVE  /\ book'.reservations[k].status = "CAPTURED" <=>
                  book.reservations[k].status = "CAPTURED"
             /\ book'.reservations[k].status = "ACTIVE" => book.reservations[k].status = "ACTIVE"
  <2>1. CASE k = id BY <1>2, <1>6, <2>1
  <2>2. CASE k # id BY <1>2, <2>2
  <2> QED BY <2>1, <2>2
<1> QED BY <1>1, <1>2, <1>5, <1>7, ExpiryStep

-----------------------------------------------------------------------------
(***************************************************************************)
(* The steps of the provider.                                              *)
(***************************************************************************)
\* Prices and the first balance are amounts.
LEMMA AmountsAreNat == Price \subseteq Nat \ {0} /\ Balance \in Nat \ {0}
<1>1. MaxAmount \in Nat BY MaxAmountAssumption
<1>2. Price \subseteq 1..MaxAmount /\ Balance \in 1..MaxAmount BY PriceAssumption
<1> QED BY <1>1, <1>2

\* An adapter starts in one of three places.
LEMMA FirstSteps ==
  ASSUME NEW p, NEW in, NEW configured, NEW version
  PROVE  FirstStep(p, in, configured, version) \in {"refuse", "resolve", "ask"}
  BY DEF FirstStep

\* What the adapter of a request does first.
LEMMA CallStarts ==
  ASSUME JobTypes, NEW j \in Job, NEW p \in Provider, NEW step \in {"refuse", "resolve", "ask"},
         Calls(j, p, step)
  PROVE  /\ call' \in [Job -> CallRow] /\ call'[j].pc = step
         /\ \A i \in Job : i # j => call'[i] = call[i]
<1> DEFINE q == IF step = "refuse" THEN "none" ELSE p
           x == [NoCall EXCEPT !.pc = step, !.provider = q]
<1>1. q \in Providers BY DEF Providers
<1> HIDE DEF q
<1>2. x \in CallRow /\ x.pc = step BY <1>1 DEF NoCall, CallRow, CallPlaces, Prediction
<1>3. call' = [call EXCEPT ![j] = x] BY DEF Calls, q
<1> HIDE DEF x
<1> QED BY <1>2, <1>3 DEF JobTypes

\* A request begins.
LEMMA BeginStep ==
  ASSUME Inv, NEW j \in Job, NEW r \in JobRow, job' = [job EXCEPT ![j] = r],
         NEW p \in Provider, NEW step \in {"refuse", "resolve", "ask"}, Calls(j, p, step),
         UNCHANGED <<textVars, catalogueVars, credentialVars, book, record, objects, prediction>>,
         job[j].pc = "idle", r.pc \in {"reserve", "create"}, r.hold = 0, ~r.auth,
         r.stored = job[j].stored, KeyInv(r),
         r.pc = "reserve" => r.cost # 0 /\ r.key = 0
  PROVE  Inv'
<1>1. /\ job' \in [Job -> JobRow] /\ job'[j] = r /\ \A i \in Job : i # j => job'[i] = job[i]
  BY JobFacts, Moved
<1>2. /\ call' \in [Job -> CallRow] /\ call'[j].pc = step
      /\ \A i \in Job : i # j => call'[i] = call[i]
  BY JobFacts, CallStarts
<1>3. JobTypes' BY <1>1, <1>2, JobFacts DEF JobTypes
<1>4. \A i \in Job : i # j => SameJob(i) BY <1>1, <1>2 DEF SameJob
<1>5. CreditsInv(j)' BY <1>1 DEF CreditsInv
<1>6. CallInv(j)' BY <1>1, <1>2, JobFacts DEF CallInv, Delivered
<1>7. StoreInv(j)' BY <1>1, JobFacts DEF StoreInv
<1>8. KeyInv(job[j])' BY <1>1 DEF KeyInv, Known, NeverHeld, credentialVars
<1> QED BY <1>3, <1>4, <1>5, <1>6, <1>7, <1>8, QuietStep

\* A job's key and price are set when it begins.
LEMMA StartKeeps ==
  ASSUME Inv, NEW j \in Job, NEW v \in Variant, NEW p \in Provider, NEW in,
         Start(j, v, p, in), UNCHANGED textVars
  PROVE  Inv'
<1> DEFINE pc == IF Charging THEN "reserve" ELSE "create"
           price == variant[v].price
           r == [job[j] EXCEPT !.pc = pc, !.cost = price]
<1>1. /\ job[j].pc = "idle" /\ job' = [job EXCEPT ![j].pc = pc, ![j].cost = price]
      /\ UNCHANGED <<book, record, objects, prediction, catalogueVars, credentialVars>>
  BY DEF Start, At
<1>2. PICK step \in {"refuse", "resolve", "ask"} : Calls(j, p, step)
  BY FirstSteps DEF Start
<1>3. price \in Nat \ {0}
  <2>1. variant[v] \in VariantRow BY DEF Inv, TypeInv
  <2>2. price \in Price BY <2>1 DEF VariantRow
  <2> QED BY <2>2, AmountsAreNat
<1>4. pc \in {"reserve", "create"} OBVIOUS
<1> HIDE DEF pc, price
<1>5. job' = [job EXCEPT ![j] = r] BY <1>1, JobFacts DEF JobTypes
<1>6. job[j].hold = 0 /\ job[j].key = 0 /\ KeyInv(job[j]) /\ ~job[j].auth
  BY <1>1, JobFacts DEF CreditsInv, KeyInv
<1>7. /\ r \in JobRow /\ r.pc = pc /\ r.hold = 0 /\ r.key = 0 /\ r.cost = price
      /\ r.auth = job[j].auth /\ r.stored = job[j].stored
  <2>1. job[j] \in JobRow BY JobFacts DEF JobTypes
  <2> QED BY <1>3, <1>4, <1>6, <2>1, PlacesAre DEF JobRow
<1> HIDE DEF r
<1>8. KeyInv(r) BY <1>4, <1>6, <1>7 DEF KeyInv, Known
<1> QED BY <1>1, <1>2, <1>3, <1>4, <1>5, <1>6, <1>7, <1>8, BeginStep, ZenonT(90)

\* A request on the user's own key takes the key the credential has.
LEMMA StartOwnKeyKeeps ==
  ASSUME Inv, NEW j \in Job, NEW p \in Provider, NEW in,
         StartOwnKey(j, p, in), UNCHANGED textVars
  PROVE  Inv'
<1> DEFINE k == credential.key
           r == [job[j] EXCEPT !.pc = "create", !.key = k]
<1>1. /\ job[j].pc = "idle" /\ job' = [job EXCEPT ![j].pc = "create", ![j].key = k]
      /\ UNCHANGED <<book, record, objects, prediction, catalogueVars, credentialVars>>
      /\ k > 0
  BY DEF StartOwnKey, At
<1>2. PICK step \in {"refuse", "resolve", "ask"} : Calls(j, p, step)
  BY FirstSteps DEF StartOwnKey
<1>3. k \in Nat \ {0} BY <1>1 DEF Inv, TypeInv, CredentialRow
<1>4. job' = [job EXCEPT ![j] = r] BY <1>1, JobFacts DEF JobTypes
<1>5. job[j].hold = 0 /\ ~job[j].auth BY <1>1, JobFacts DEF CreditsInv, KeyInv
<1>6. /\ r \in JobRow /\ r.pc = "create" /\ r.hold = 0 /\ r.key = k
      /\ r.auth = job[j].auth /\ r.stored = job[j].stored
  <2>1. job[j] \in JobRow BY JobFacts DEF JobTypes
  <2> QED BY <1>3, <1>5, <2>1, PlacesAre DEF JobRow
<1>7. KeyInv(r) BY <1>3, <1>5, <1>6 DEF KeyInv, Known, NeverHeld
<1> HIDE DEF r
<1> QED BY <1>1, <1>2, <1>4, <1>5, <1>6, <1>7, BeginStep

\* A call gets a new row.
LEMMA CallMoved ==
  ASSUME JobTypes, NEW j \in Job, NEW x \in CallRow, call' = [call EXCEPT ![j] = x]
  PROVE  /\ call' \in [Job -> CallRow] /\ call'[j] = x
         /\ \A i \in Job : i # j => call'[i] = call[i]
  BY DEF JobTypes

\* A call that failed or delivered an image.
LEMMA CallEnds ==
  ASSUME JobTypes, NEW j \in Job, NEW auth \in BOOLEAN, Fails(j, auth) \/ Succeeds(j)
  PROVE  /\ call' \in [Job -> CallRow] /\ \A i \in Job : i # j => call'[i] = call[i]
         /\ Fails(j, auth) => call'[j].pc = "failed" /\ call'[j].auth = auth
         /\ Succeeds(j) => call'[j].pc = "done"
<1> DEFINE f == [NoCall EXCEPT !.pc = "failed", !.auth = auth]
           s == [NoCall EXCEPT !.pc = "done"]
<1>1. /\ f \in CallRow /\ f.pc = "failed" /\ f.auth = auth
      /\ s \in CallRow /\ s.pc = "done"
  BY DEF NoCall, CallRow, CallPlaces, Prediction, Providers
<1>2. /\ Fails(j, auth) <=> call' = [call EXCEPT ![j] = f]
      /\ Succeeds(j) <=> call' = [call EXCEPT ![j] = s]
  BY DEF Fails, Succeeds
<1> HIDE DEF f, s
<1>3. CASE Fails(j, auth)
  <2>1. /\ call' \in [Job -> CallRow] /\ call'[j] = f
        /\ \A i \in Job : i # j => call'[i] = call[i]
    BY <1>1, <1>2, <1>3, CallMoved
  <2>2. f.pc # s.pc BY <1>1
  <2>3. ~Succeeds(j)
    <3>1. ASSUME Succeeds(j) PROVE call'[j] = s BY <1>1, <1>2, <3>1, CallMoved
    <3> QED BY <2>1, <2>2, <3>1
  <2> QED BY <1>1, <2>1, <2>3
<1>4. CASE Succeeds(j)
  <2>1. /\ call' \in [Job -> CallRow] /\ call'[j] = s
        /\ \A i \in Job : i # j => call'[i] = call[i]
    BY <1>1, <1>2, <1>4, CallMoved
  <2>2. f.pc # s.pc BY <1>1
  <2>3. ~Fails(j, auth)
    <3>1. ASSUME Fails(j, auth) PROVE call'[j] = f BY <1>1, <1>2, <3>1, CallMoved
    <3> QED BY <2>1, <2>2, <3>1
  <2> QED BY <1>1, <2>1, <2>3
<1> QED BY <1>3, <1>4

\* What one step of an adapter makes of its call and its prediction.
CallStepped(j, refusal) ==
  /\ call' \in [Job -> CallRow] /\ prediction' \in [Job -> Prediction]
  /\ \A i \in Job : i # j => call'[i] = call[i] /\ prediction'[i] = prediction[i]
  /\ call'[j].pc \in {"ask", "poll", "done", "failed"}
  /\ call'[j].pc = "failed" /\ call'[j].auth => refusal
  /\ call'[j].pc = "ask" => prediction'[j] = "none"
  /\ call'[j].pc = "done" \/ (call'[j].pc = "poll" /\ call'[j].seen = "succeeded") =>
       Delivered(j)'

\* A call that fails.
LEMMA FailingStep ==
  ASSUME JobTypes, NEW j \in Job, NEW auth \in BOOLEAN, Fails(j, auth), UNCHANGED prediction,
         NEW refusal, auth => refusal
  PROVE  CallStepped(j, refusal)
  BY CallEnds DEF CallStepped, JobTypes

\* A call that ends with an answer of 200.
LEMMA DeliveringStep ==
  ASSUME JobTypes, NEW j \in Job, NEW a, Delivers(j, a), UNCHANGED prediction, Delivered(j),
         NEW refusal
  PROVE  CallStepped(j, refusal)
<1>1. CASE Fails(j, FALSE) BY <1>1, FailingStep
<1>2. CASE Succeeds(j)
  <2>1. FALSE \in BOOLEAN OBVIOUS
  <2> QED BY <1>2, <2>1, CallEnds DEF CallStepped, JobTypes, Delivered
<1> QED BY <1>1, <1>2 DEF Delivers

\* An error that reads as a refusal of the key was one.
LEMMA AuthErrors ==
  ASSUME NEW a \in Answer
  PROVE  LET errors == {ReplicateError(a), OpenAiError(a), GoogleError(a), FetchError(a)}
         IN \A e \in errors : /\ IsProviderAuthError(e) \in BOOLEAN
                              /\ IsProviderAuthError(e) => RefusesKey(a)
<1>1. a.words \in BOOLEAN BY DEF Answer
<1> QED BY <1>1 DEF IsProviderAuthError, RefusesKey, ReplicateError, OpenAiError, GoogleError,
                    FetchError

\* An answer of a provider.
LEMMA AnsweredStep ==
  ASSUME JobTypes, NEW j \in Job, CallInv(j), NEW a \in Answer, Answered(j, a)
  PROVE  CallStepped(j, RefusesKey(a))
<1>1. ASSUME NEW e \in {ReplicateError(a), OpenAiError(a), GoogleError(a)},
             FailsWith(j, e), UNCHANGED prediction
      PROVE  CallStepped(j, RefusesKey(a))
  BY <1>1, AuthErrors, FailingStep DEF FailsWith
<1>2. CASE AskOpenAi(j, a)
  BY <1>1, <1>2, DeliveringStep DEF AskOpenAi, CallInv, Delivered
<1>3. CASE AskGoogle(j, a)
  BY <1>1, <1>3, DeliveringStep DEF AskGoogle, CallInv, Delivered
<1>4. CASE ReadPrediction(j, a)
  BY <1>1, <1>4, DeliveringStep DEF ReadPrediction, CallInv
<1>5. CASE ResolveVersion(j, a)
  <2>1. CASE call' = [call EXCEPT ![j].pc = "ask"]
    <3> DEFINE x == [call[j] EXCEPT !.pc = "ask"]
    <3>1. x \in CallRow /\ x.pc = "ask"
      <4>1. call[j] \in CallRow BY DEF JobTypes
      <4> QED BY <4>1 DEF CallRow, CallPlaces
    <3>2. call' = [call EXCEPT ![j] = x] BY <2>1
    <3> HIDE DEF x
    <3>3. /\ call' \in [Job -> CallRow] /\ call'[j] = x
          /\ \A i \in Job : i # j => call'[i] = call[i]
      BY <3>1, <3>2, CallMoved
    <3>4. prediction' = prediction /\ prediction[j] = "none"
      BY <1>5 DEF ResolveVersion, CallInv
    <3> QED BY <3>1, <3>3, <3>4 DEF CallStepped, JobTypes
  <2>2. CASE Fails(j, FALSE) BY <1>5, <2>2, FailingStep DEF ResolveVersion
  <2>3. CASE FailsWith(j, ReplicateError(a)) BY <1>1, <1>5, <2>3 DEF ResolveVersion
  <2> QED BY <1>5, <2>1, <2>2, <2>3 DEF ResolveVersion
<1>6. CASE CreatePrediction(j, a)
  <2>1. CASE FailsWith(j, ReplicateError(a)) /\ UNCHANGED prediction BY <1>1, <2>1
  <2>2. ASSUME NEW s \in {"processing", "succeeded", "failed"},
               prediction' = [prediction EXCEPT ![j] = s],
               call' = [call EXCEPT ![j].pc = "poll", ![j].seen = s]
        PROVE  CallStepped(j, RefusesKey(a))
    <3> DEFINE x == [call[j] EXCEPT !.pc = "poll", !.seen = s]
    <3>1. x \in CallRow /\ x.pc = "poll" /\ x.seen = s
      <4>1. call[j] \in CallRow BY DEF JobTypes
      <4> QED BY <4>1 DEF CallRow, CallPlaces, Prediction
    <3>2. call' = [call EXCEPT ![j] = x] BY <2>2 DEF JobTypes
    <3> HIDE DEF x
    <3>3. /\ call' \in [Job -> CallRow] /\ call'[j] = x
          /\ \A i \in Job : i # j => call'[i] = call[i]
      BY <3>1, <3>2, CallMoved
    <3>4. /\ prediction' \in [Job -> Prediction] /\ prediction'[j] = s
          /\ \A i \in Job : i # j => prediction'[i] = prediction[i]
      BY <2>2 DEF JobTypes, Prediction
    <3> QED BY <3>1, <3>3, <3>4 DEF CallStepped, Delivered
  <2> QED BY <1>6, <2>1, <2>2 DEF CreatePrediction
<1> QED BY <1>2, <1>3, <1>4, <1>5, <1>6 DEF Answered

\* A poll, and a request that gets no answer.
LEMMA WaitedStep ==
  ASSUME JobTypes, NEW j \in Job, CallInv(j),
         (\E ok \in BOOLEAN : Poll(j, ok)) \/ Unreachable(j) \/ Refuses(j)
  PROVE  CallStepped(j, FALSE)
<1>1. CASE Unreachable(j) \/ Refuses(j)
  BY <1>1, FailingStep DEF Unreachable, Refuses
<1>2. ASSUME NEW ok \in BOOLEAN, Poll(j, ok) PROVE CallStepped(j, FALSE)
  <2> DEFINE more == call[j].polls + 1
             seen == IF ok THEN prediction[j] ELSE "error"
             x == [call[j] EXCEPT !.polls = more, !.seen = seen]
  <2>1. /\ call[j].pc = "poll" /\ UNCHANGED prediction
        /\ call' = [call EXCEPT ![j].polls = more, ![j].seen = seen]
    BY <1>2 DEF Poll
  <2>2. call[j] \in CallRow /\ prediction[j] \in Prediction BY DEF JobTypes
  <2>3. more \in Nat /\ seen \in Prediction \union {"error"}
        /\ (seen = "succeeded" => prediction[j] = "succeeded")
    BY <2>2 DEF CallRow
  <2> HIDE DEF more, seen
  <2>4. call' = [call EXCEPT ![j] = x] BY <2>1 DEF JobTypes
  <2>5. x \in CallRow /\ x.pc = "poll" /\ x.seen = seen BY <2>1, <2>2, <2>3 DEF CallRow
  <2> HIDE DEF x
  <2>6. /\ call' \in [Job -> CallRow] /\ call'[j] = x
        /\ \A i \in Job : i # j => call'[i] = call[i]
    BY <2>4, <2>5, CallMoved
  <2> QED BY <2>1, <2>3, <2>5, <2>6 DEF CallStepped, JobTypes, Delivered
<1> QED BY <1>1, <1>2

\* A request goes on as its adapter returns or throws.
LEMMA ProviderStep ==
  ASSUME Inv, NEW j \in Job, NEW refusal, job[j].pc = "execute", CallStepped(j, refusal),
         Returns(j), UNCHANGED <<textVars, catalogueVars, book, record, objects>>,
         UNCHANGED <<credential, blamed, replaced>>, refused \subseteq refused',
         refusal => job[j].key \in {0} \union refused'
  PROVE  Inv'
<1>1. SameKey /\ CredentialInv' BY JobFacts, NotJudged
<1>2. BookGood(book') /\ OthersHeld(job[j].hold) BY DEF Inv, OthersHeld
<1>3. ASSUME job' \in [Job -> JobRow], \A i \in Job : i # j => job'[i] = job[i],
             job'[j].key = job[j].key, job'[j].hold = job[j].hold, job'[j].cost = job[j].cost,
             job'[j].stored = job[j].stored,
             job'[j].pc \in {"execute", "capture", "works", "release"},
             job'[j].pc = "capture" => job[j].hold # 0,
             job'[j].pc = "works" => job[j].hold = 0,
             job'[j].pc \in {"capture", "works"} => call'[j].pc = "done",
             job'[j].auth => job'[j].key \in {0} \union refused'
      PROVE  Inv'
  <2>1. JobTypes' BY <1>3, JobFacts DEF JobTypes, CallStepped
  <2>2. \A i \in Job : i # j => SameJob(i) BY <1>3 DEF CallStepped, SameJob
  <2>3. StoreInv(j)' BY <1>3, JobFacts DEF StoreInv
  <2>4. CallInv(j)'
    <3>1. record'[j].status # "COMPLETED" BY JobFacts DEF CallInv
    <3> QED BY <1>3, <3>1 DEF CallInv, CallStepped
  <2>5. KeyInv(job[j])'
    <3>1. Known(job[j].key) /\ (NeverHeld => job[j].key = 0) BY JobFacts DEF KeyInv
    <3> QED BY <1>3, <3>1 DEF KeyInv, Known, NeverHeld
  <2>6. CreditsInv(j)'
    BY <1>3, JobFacts DEF CreditsInv, HoldInv, Hold, Unpaid, Paid, Gone
  <2> QED BY <1>1, <1>2, <2>1, <2>2, <2>3, <2>4, <2>5, <2>6, JobStepKeeps DEF JobInv
<1>4. KeyInv(job[j]) /\ SameKey BY <1>1, JobFacts
<1>5. CASE call'[j].pc = "done"
  <2> DEFINE pc == IF job[j].hold # 0 THEN "capture" ELSE "works"
  <2>1. Go(j, pc) BY <1>5 DEF Returns, Go
  <2>2. Goes(j, pc) BY <2>1, JobFacts, GoGoes, PlacesAre
  <2>3. job[j].auth => job[j].key \in {0} \union refused' BY <1>4 DEF KeyInv, SameKey
  <2> QED BY <1>3, <1>5, <2>2, <2>3 DEF Goes
<1>6. CASE call'[j].pc = "failed"
  <2> DEFINE auth == call'[j].auth
             r == [job[j] EXCEPT !.pc = "release", !.auth = auth]
  <2>1. job' = [job EXCEPT ![j].pc = "release", ![j].auth = auth] BY <1>6 DEF Returns
  <2>2. auth \in BOOLEAN /\ (auth => refusal) BY <1>6 DEF CallStepped, CallRow
  <2> HIDE DEF auth
  <2>3. job' = [job EXCEPT ![j] = r] BY <2>1, JobFacts DEF JobTypes
  <2>4. /\ r \in JobRow /\ r.pc = "release" /\ r.key = job[j].key /\ r.cost = job[j].cost
        /\ r.hold = job[j].hold /\ r.auth = auth /\ r.stored = job[j].stored
    <3>1. job[j] \in JobRow BY JobFacts DEF JobTypes
    <3> QED BY <2>2, <3>1, PlacesAre DEF JobRow
  <2> HIDE DEF r
  <2>5. /\ job' \in [Job -> JobRow] /\ job'[j] = r
        /\ \A i \in Job : i # j => job'[i] = job[i]
    BY <2>3, <2>4, JobFacts, Moved
  <2> QED BY <1>3, <2>2, <2>4, <2>5
<1>7. CASE call'[j].pc \notin {"done", "failed"}
  <2>1. job' = job BY <1>7 DEF Returns
  <2>2. job[j].auth => job[j].key \in {0} \union refused' BY <1>4 DEF KeyInv, SameKey
  <2> QED BY <1>3, <2>1, <2>2, JobFacts DEF JobTypes
<1> QED BY <1>5, <1>6, <1>7

\* An answer, and what its adapter makes of it.
LEMMA ProviderAnswersKeeps ==
  ASSUME Inv, NEW j \in Job, NEW a \in Answer, ProviderAnswers(j, a), UNCHANGED textVars
  PROVE  Inv'
<1>1. /\ job[j].pc = "execute" /\ Answered(j, a) /\ Returns(j)
      /\ refused' = refused \union (IF RefusesKey(a) THEN {job[j].key} \ {0} ELSE {})
      /\ UNCHANGED <<book, record, objects, credential, blamed, replaced, catalogueVars>>
  BY DEF ProviderAnswers, At
<1>2. CallStepped(j, RefusesKey(a)) BY <1>1, JobFacts, AnsweredStep
<1> QED BY <1>1, <1>2, ProviderStep

\* A poll, an unreachable provider, an adapter that refuses.
LEMMA ProviderWaitsKeeps ==
  ASSUME Inv, NEW j \in Job, ProviderWaits(j), UNCHANGED textVars PROVE Inv'
<1>1. /\ job[j].pc = "execute" /\ Returns(j)
      /\ (\E ok \in BOOLEAN : Poll(j, ok)) \/ Unreachable(j) \/ Refuses(j)
      /\ UNCHANGED <<book, record, objects, catalogueVars, credential, blamed, replaced, refused>>
  BY DEF ProviderWaits, At, credentialVars
<1>2. CallStepped(j, FALSE) BY <1>1, JobFacts, WaitedStep
<1> QED BY <1>1, <1>2, ProviderStep

\* A prediction ends at Replicate, whatever its request does.
LEMMA ReplicateWorksKeeps ==
  ASSUME Inv, NEW j \in Job, ReplicateWorks(j), UNCHANGED textVars PROVE Inv'
<1>1. PICK s \in {"succeeded", "failed"} : PredictionEnds(j, s)
  BY DEF ReplicateWorks
<1>2. /\ prediction[j] = "processing" /\ prediction' = [prediction EXCEPT ![j] = s]
      /\ UNCHANGED <<call, book, record, job, objects, catalogueVars, credentialVars>>
  BY <1>1 DEF PredictionEnds, ReplicateWorks
<1>3. /\ prediction' \in [Job -> Prediction] /\ prediction'[j] = s
      /\ \A i \in Job : i # j => prediction'[i] = prediction[i]
  BY <1>2, JobFacts DEF JobTypes, Prediction
<1>4. JobTypes' BY <1>2, <1>3, JobFacts DEF JobTypes
<1>5. \A i \in Job : i # j => SameJob(i) BY <1>2, <1>3 DEF SameJob
<1>6. CallInv(j)' BY <1>2, <1>3, JobFacts DEF CallInv, Delivered
<1>7. CreditsInv(j)' BY <1>2, JobFacts DEF CreditsInv, HoldInv, Hold, Unpaid, Paid, Gone
<1>8. StoreInv(j)' BY <1>2, JobFacts DEF StoreInv
<1>9. KeyInv(job[j])' BY <1>2, JobFacts DEF KeyInv, Known, NeverHeld, credentialVars
<1> QED BY <1>2, <1>4, <1>5, <1>6, <1>7, <1>8, <1>9, QuietStep

\* A test of the key holds no credits.
LEMMA TestKeyKeeps ==
  ASSUME Inv, NEW j \in Job, NEW a \in Answer, TestKey(j, a), UNCHANGED textVars PROVE Inv'
<1> DEFINE works == PingByokCredential(credential.provider, a)
           k == credential.key
           auth == ~works
           r == [job[j] EXCEPT !.pc = "mark", !.key = k, !.auth = auth]
<1>1. /\ job[j].pc = "idle" /\ k > 0 /\ auth \in BOOLEAN
      /\ job' = [job EXCEPT ![j].pc = "mark", ![j].key = k, ![j].auth = auth]
      /\ refused' = IF works THEN refused ELSE refused \union {k}
      /\ UNCHANGED <<book, record, objects, providerVars, catalogueVars>>
      /\ UNCHANGED <<credential, blamed, replaced>>
  BY DEF TestKey, At
<1>2. k \in Nat \ {0} BY <1>1 DEF Inv, TypeInv, CredentialRow
<1>3. auth => k \in refused' BY <1>1
<1>4. refused \subseteq refused' BY <1>1
<1> HIDE DEF auth
<1>5. job' = [job EXCEPT ![j] = r] BY <1>1, JobFacts DEF JobTypes
<1>6. job[j].hold = 0 /\ CreditsInv(j) BY <1>1, JobFacts DEF CreditsInv
<1>7. /\ r \in JobRow /\ r.pc = "mark" /\ r.key = k /\ r.hold = 0 /\ r.auth = auth
      /\ r.stored = job[j].stored
  <2>1. job[j] \in JobRow BY JobFacts DEF JobTypes
  <2> QED BY <1>1, <1>2, <1>6, <2>1, PlacesAre DEF JobRow
<1> HIDE DEF r
<1>8. /\ job' \in [Job -> JobRow] /\ job'[j] = r /\ \A i \in Job : i # j => job'[i] = job[i]
  BY <1>5, <1>7, JobFacts, Moved
<1>9. JobTypes' BY <1>1, <1>8, JobFacts DEF JobTypes, providerVars
<1>10. \A i \in Job : i # j => SameJob(i) BY <1>1, <1>8 DEF SameJob, providerVars
<1>11. SameKey /\ CredentialInv' BY <1>1, <1>4, JobFacts, NotJudged
<1>12. CreditsInv(j)' BY <1>2, <1>7, <1>8 DEF CreditsInv
<1>13. CallInv(j)' BY <1>1, <1>7, <1>8, JobFacts DEF CallInv, Delivered, providerVars
<1>14. StoreInv(j)' BY <1>1, <1>7, <1>8, JobFacts DEF StoreInv
<1>15. KeyInv(job[j])' BY <1>1, <1>2, <1>3, <1>7, <1>8 DEF KeyInv, Known, NeverHeld
<1>16. BookGood(book') /\ OthersHeld(job[j].hold) BY <1>1 DEF Inv, OthersHeld
<1> QED BY <1>1, <1>9, <1>10, <1>11, <1>12, <1>13, <1>14, <1>15, <1>16, JobStepKeeps DEF JobInv

-----------------------------------------------------------------------------
(***************************************************************************)
(* The catalogue and the credential.                                       *)
(***************************************************************************)
\* A step of the user or of an administrator, outside every request.
LEMMA ConfigureStep ==
  ASSUME Inv, UNCHANGED <<jobVars, textVars>>,
         variant' \in [Variant -> VariantRow], change' \in [Admin -> ChangeRow], AtMostOne',
         credential' \in CredentialRow, CredentialInv',
         \A j \in Job : KeyInv(job[j])', \A t \in Text : KeyInv(text[t])'
  PROVE  Inv'
<1>1. TypeInv' BY DEF Inv, TypeInv, jobVars, textVars, providerVars
<1>2. BookGood(book') BY DEF Inv, jobVars
<1>3. ASSUME NEW j \in Job PROVE JobInv(j)'
  <2>1. CreditsInv(j) /\ CallInv(j) /\ StoreInv(j) BY JobFacts
  <2>2. CreditsInv(j)'
    BY <2>1 DEF CreditsInv, HoldInv, Hold, Unpaid, Paid, Gone, jobVars
  <2>3. CallInv(j)' BY <2>1 DEF CallInv, Delivered, jobVars, providerVars
  <2>4. StoreInv(j)' BY <2>1 DEF StoreInv, jobVars
  <2> QED BY <2>2, <2>3, <2>4 DEF JobInv
<1>4. ASSUME NEW t \in Text PROVE TextInv(t)'
  <2>1. HistoryInv(t) /\ Readable(t) BY DEF Inv, TextInv
  <2>2. HistoryInv(t)' /\ Readable(t)'
    BY <2>1 DEF HistoryInv, Readable, Doing, Shown, Kept, textVars
  <2> QED BY <2>2 DEF TextInv
<1> QED BY <1>1, <1>2, <1>3, <1>4 DEF Inv

\* A step of the catalogue.
LEMMA CatalogueOnly ==
  ASSUME Inv, UNCHANGED <<jobVars, textVars, credentialVars>>,
         variant' \in [Variant -> VariantRow], change' \in [Admin -> ChangeRow], AtMostOne'
  PROVE  Inv'
<1>1. credential' \in CredentialRow /\ CredentialInv'
  BY DEF Inv, TypeInv, CredentialInv, BlameIsDeserved, credentialVars
<1>2. ASSUME NEW j \in Job PROVE KeyInv(job[j])'
  <2>1. KeyInv(job[j]) /\ job' = job BY JobFacts DEF jobVars
  <2> QED BY <2>1 DEF KeyInv, Known, NeverHeld, credentialVars
<1>3. ASSUME NEW t \in Text PROVE KeyInv(text[t])'
  <2>1. KeyInv(text[t]) /\ text' = text BY DEF Inv, TextInv, textVars
  <2> QED BY <2>1 DEF KeyInv, Known, NeverHeld, credentialVars
<1> QED BY <1>1, <1>2, <1>3, ConfigureStep

\* A variant gets a new row that is a default only if the old one was.
LEMMA VariantStep ==
  ASSUME Inv, NEW v \in Variant, NEW x \in VariantRow, x.default => variant[v].default,
         variant' = [variant EXCEPT ![v] = x],
         UNCHANGED <<jobVars, textVars, credentialVars, change, missed>>
  PROVE  Inv'
<1>1. /\ variant' \in [Variant -> VariantRow] /\ variant'[v] = x
      /\ \A w \in Variant : w # v => variant'[w] = variant[w]
  BY DEF Inv, TypeInv
<1>2. Defaults' \subseteq Defaults BY <1>1 DEF Defaults
<1>3. AtMostOne' BY <1>2 DEF Inv, AtMostOne
<1> QED BY <1>1, <1>3, CatalogueOnly DEF Inv, TypeInv

\* Variants come, change and go.
LEMMA VariantsKeep ==
  ASSUME Inv, UNCHANGED <<jobVars, textVars>>, NEW v \in Variant,
         CreateVariant(v) \/ DeleteVariant(v) \/
           \E active, default \in BOOLEAN, p \in Price : UpdateVariant(v, active, default, p)
  PROVE  Inv'
<1>1. variant[v] \in VariantRow /\ variant \in [Variant -> VariantRow] BY DEF Inv, TypeInv
<1>2. CASE CreateVariant(v)
  <2> DEFINE x == [variant[v] EXCEPT !.exists = TRUE, !.active = TRUE]
  <2>1. x \in VariantRow /\ x.default = variant[v].default BY <1>1 DEF VariantRow
  <2>2. /\ variant' = [variant EXCEPT ![v] = x]
        /\ UNCHANGED <<change, missed, credentialVars>>
    BY <1>1, <1>2 DEF CreateVariant
  <2> HIDE DEF x
  <2> QED BY <2>1, <2>2, VariantStep
<1>3. CASE DeleteVariant(v)
  <2> DEFINE x == [variant[v] EXCEPT !.active = FALSE, !.default = FALSE]
  <2>1. x \in VariantRow /\ ~x.default BY <1>1 DEF VariantRow
  <2>2. /\ variant' = [variant EXCEPT ![v] = x]
        /\ UNCHANGED <<change, missed, credentialVars>>
    BY <1>1, <1>3 DEF DeleteVariant
  <2> HIDE DEF x
  <2> QED BY <2>1, <2>2, VariantStep
<1>4. ASSUME NEW active \in BOOLEAN, NEW default \in BOOLEAN, NEW p \in Price,
             UpdateVariant(v, active, default, p)
      PROVE  Inv'
  <2> DEFINE x == [exists |-> TRUE, active |-> active, default |-> default, price |-> p]
  <2>1. x \in VariantRow /\ x.default = default BY DEF VariantRow
  <2>2. /\ variant' = [variant EXCEPT ![v] = x] /\ (default => variant[v].default)
        /\ UNCHANGED <<change, missed, credentialVars>>
    BY <1>4 DEF UpdateVariant
  <2> HIDE DEF x
  <2> QED BY <2>1, <2>2, VariantStep
<1> QED BY <1>2, <1>3, <1>4

\* A change under way is of a variant.
LEMMA ChangeNames ==
  ASSUME Inv, NEW a \in Admin, change[a].pc = "setting" PROVE change[a].variant \in Variant
<1>1. change[a] \in ChangeRow BY DEF Inv, TypeInv
<1>2. NoChange.pc = "idle" BY DEF NoChange
<1> QED BY <1>1, <1>2 DEF ChangeRow

\* A change of the default that saw every default leaves its own alone.
LEMMA DefaultsKeep ==
  ASSUME Inv, UNCHANGED <<jobVars, textVars>>, NEW a \in Admin,
         DefaultSet(a) \/ \E v \in Variant : DefaultClear(a, v)
  PROVE  Inv'
<1>1. variant \in [Variant -> VariantRow] /\ change \in [Admin -> ChangeRow] /\ AtMostOne
  BY DEF Inv, TypeInv
<1>2. ASSUME NEW v \in Variant, DefaultClear(a, v) PROVE Inv'
  <2> DEFINE x == [pc |-> "setting", variant |-> v, sees |-> Defaults]
  <2>1. x \in ChangeRow BY DEF ChangeRow, Defaults
  <2>2. /\ change' = [change EXCEPT ![a] = x]
        /\ UNCHANGED <<variant, missed, credentialVars>>
    BY <1>2 DEF DefaultClear
  <2> HIDE DEF x
  <2>3. change' \in [Admin -> ChangeRow] BY <1>1, <2>1, <2>2
  <2>4. AtMostOne' BY <1>1, <2>2 DEF AtMostOne, Defaults
  <2> QED BY <1>1, <2>2, <2>3, <2>4, CatalogueOnly
<1>3. CASE DefaultSet(a)
  <2> DEFINE v == change[a].variant
             sees == change[a].sees
             cleared == [w \in Variant |-> IF w \in sees
                                           THEN [variant[w] EXCEPT !.default = FALSE]
                                           ELSE variant[w]]
             x == [cleared[v] EXCEPT !.default = TRUE,
                                     !.active = variant[v].active \/ ~variant[v].exists,
                                     !.exists = TRUE]
  <2>1. /\ change[a].pc = "setting" /\ missed' = (Defaults # sees)
        /\ variant' = [cleared EXCEPT ![v].default = TRUE,
                                      ![v].active = variant[v].active \/ ~variant[v].exists,
                                      ![v].exists = TRUE]
        /\ change' = [change EXCEPT ![a] = NoChange] /\ UNCHANGED credentialVars
    BY <1>3 DEF DefaultSet
  <2>2. v \in Variant BY <2>1, ChangeNames
  <2>3. /\ cleared \in [Variant -> VariantRow]
        /\ \A w \in Variant : cleared[w].default <=> variant[w].default /\ w \notin sees
    <3>1. ASSUME NEW w \in Variant
          PROVE  /\ cleared[w] \in VariantRow
                 /\ cleared[w].default <=> variant[w].default /\ w \notin sees
      <4>1. variant[w] \in VariantRow BY <1>1
      <4> QED BY <4>1 DEF VariantRow
    <3>2. cleared = [w \in Variant |-> cleared[w]] OBVIOUS
    <3> HIDE DEF cleared
    <3> QED BY <3>1, <3>2
  <2>4. variant[v].active \in BOOLEAN /\ variant[v].exists \in BOOLEAN
    BY <1>1, <2>2 DEF VariantRow
  <2> HIDE DEF v, sees, cleared
  <2>5. variant' = [cleared EXCEPT ![v] = x] BY <2>1, <2>2, <2>3
  <2>6. x \in VariantRow
    <3>1. cleared[v] \in VariantRow BY <2>2, <2>3
    <3> QED BY <2>4, <3>1 DEF VariantRow
  <2> HIDE DEF x
  <2>7. /\ variant' \in [Variant -> VariantRow]
        /\ \A w \in Variant : w # v => variant'[w] = cleared[w]
    BY <2>2, <2>3, <2>5, <2>6
  <2>8. change' \in [Admin -> ChangeRow] BY <1>1, <2>1 DEF ChangeRow
  <2>9. AtMostOne'
    <3> SUFFICES ASSUME ~missed' PROVE \A w, u \in Defaults' : w = u BY DEF AtMostOne
    <3>1. Defaults = sees BY <2>1
    <3>2. ASSUME NEW w \in Defaults' PROVE w = v
      <4>1. w \in Variant /\ variant'[w].default BY <3>2 DEF Defaults
      <4>2. CASE w # v
        <5>1. variant[w].default /\ w \notin sees BY <2>3, <2>7, <4>1, <4>2
        <5> QED BY <3>1, <4>1, <5>1 DEF Defaults
      <4> QED BY <4>2
    <3> QED BY <3>2
  <2>10. UNCHANGED credentialVars BY <2>1
  <2> QED BY <2>7, <2>8, <2>9, <2>10, CatalogueOnly
<1> QED BY <1>2, <1>3

\* The operation type is switched on and off.
LEMMA SetTypeKeeps ==
  ASSUME Inv, UNCHANGED <<jobVars, textVars>>, NEW b \in BOOLEAN, SetType(b)
  PROVE  Inv'
<1>1. UNCHANGED <<variant, change, missed, credentialVars>> BY DEF SetType
<1>2. AtMostOne' BY <1>1 DEF Inv, AtMostOne, Defaults
<1> QED BY <1>1, <1>2, CatalogueOnly DEF Inv, TypeInv

\* A step of the credential.
LEMMA CredentialStep ==
  ASSUME Inv, UNCHANGED <<jobVars, textVars, catalogueVars>>, credential' \in CredentialRow,
         credential'.status = "ACTIVE", UNCHANGED refused,
         \A r : KeyInv(r) /\ (r \in {job[j] : j \in Job} \union {text[t] : t \in Text}) =>
                  /\ r.pc # "done" =>
                       credential'.key \in {0, r.key} \/ r.key \in {0} \union replaced'
                  /\ credential'.key = 0 /\ ~credential'.removed => r.key = 0
  PROVE  Inv'
<1>1. CredentialInv' BY DEF CredentialInv, BlameIsDeserved
<1>2. variant' \in [Variant -> VariantRow] /\ change' \in [Admin -> ChangeRow] /\ AtMostOne'
  BY DEF Inv, TypeInv, AtMostOne, Defaults, catalogueVars
<1>3. ASSUME NEW j \in Job PROVE KeyInv(job[j])'
  <2>1. KeyInv(job[j]) /\ job' = job BY JobFacts DEF jobVars
  <2> QED BY <2>1 DEF KeyInv, Known, NeverHeld
<1>4. ASSUME NEW t \in Text PROVE KeyInv(text[t])'
  <2>1. KeyInv(text[t]) /\ text' = text BY DEF Inv, TextInv, textVars
  <2> QED BY <2>1 DEF KeyInv, Known, NeverHeld
<1> QED BY <1>1, <1>2, <1>3, <1>4, ConfigureStep

\* A first key: nobody used another before.
LEMMA CreateCredentialKeeps ==
  ASSUME Inv, UNCHANGED <<jobVars, textVars>>, NEW p \in Provider, CreateCredential(p)
  PROVE  Inv'
<1> DEFINE x == [credential EXCEPT !.key = 1, !.provider = p]
<1>1. /\ NeverHeld /\ credential' = x
      /\ UNCHANGED <<blamed, replaced, refused, catalogueVars>>
  BY DEF CreateCredential, NeverHeld
<1>2. credential \in CredentialRow /\ credential.status = "ACTIVE"
  BY <1>1 DEF Inv, TypeInv, CredentialInv, NeverHeld
<1>3. x \in CredentialRow /\ x.key = 1 /\ x.status = "ACTIVE"
  BY <1>2 DEF CredentialRow, Providers
<1> HIDE DEF x
<1>4. \A r : KeyInv(r) => r.key = 0 BY <1>1 DEF KeyInv
<1> QED BY <1>1, <1>3, <1>4, CredentialStep

\* A key that is removed is nobody's fault.
LEMMA RemoveCredentialKeeps ==
  ASSUME Inv, UNCHANGED <<jobVars, textVars>>, RemoveCredential PROVE Inv'
<1> DEFINE x == [NoCredential EXCEPT !.removed = TRUE]
<1>1. credential' = x /\ UNCHANGED <<blamed, replaced, refused, catalogueVars>>
  BY DEF RemoveCredential
<1>2. x \in CredentialRow /\ x.key = 0 /\ x.status = "ACTIVE" /\ x.removed
  BY DEF CredentialRow, NoCredential, Providers
<1> HIDE DEF x
<1> QED BY <1>1, <1>2, CredentialStep

\* A key that is replaced while requests use it is remembered.
LEMMA ReplaceKeyKeeps ==
  ASSUME Inv, UNCHANGED <<jobVars, textVars>>, ReplaceKey(Using \union TextUsing) PROVE Inv'
<1> DEFINE more == credential.key + 1
           x == [credential EXCEPT !.key = more, !.status = "ACTIVE"]
<1>1. /\ credential' = x /\ credential.key \in 1 .. MaxKeys - 1
      /\ replaced' = replaced \union ({credential.key} \cap (Using \union TextUsing))
      /\ UNCHANGED <<blamed, refused, catalogueVars>>
  BY DEF ReplaceKey
<1>2. credential \in CredentialRow BY DEF Inv, TypeInv
<1>3. more \in Nat /\ more # 0 /\ credential.key # 0 BY <1>1, <1>2 DEF CredentialRow
<1> HIDE DEF more
<1>4. x \in CredentialRow /\ x.key # 0 /\ x.status = "ACTIVE" BY <1>2, <1>3 DEF CredentialRow
<1> HIDE DEF x
<1>5. ASSUME NEW r \in {job[j] : j \in Job} \union {text[t] : t \in Text},
             KeyInv(r), r.pc # "done"
      PROVE  r.key \in {0} \union replaced'
  <2>1. r.key \in {0} \union Using \union TextUsing
    BY <1>5 DEF Using, TextUsing, At, Doing
  <2>2. credential.key = r.key \/ r.key \in {0} \union replaced BY <1>3, <1>5 DEF KeyInv, Known
  <2> QED BY <1>1, <2>1, <2>2
<1> QED BY <1>1, <1>4, <1>5, CredentialStep

\* Whatever the user and the administrators do.
LEMMA ConfigureKeeps ==
  ASSUME Inv, Configure(Using \union TextUsing), UNCHANGED textVars PROVE Inv'
<1>1. UNCHANGED <<jobVars, textVars>> BY DEF Configure
<1>2. CASE CatalogueStep
  BY <1>1, <1>2, SetTypeKeeps, VariantsKeep, DefaultsKeep DEF CatalogueStep
<1> QED BY <1>1, <1>2, ReplaceKeyKeeps, RemoveCredentialKeeps, CreateCredentialKeeps DEF Configure

-----------------------------------------------------------------------------
(***************************************************************************)
(* The steps of a text.                                                    *)
(***************************************************************************)
\* The rows of the texts have their types, and only t's may change.
TextMoves(t) ==
  /\ text' \in [Text -> TextRow] /\ row' \in [Text -> RequestRow]
  /\ history' \in [Text -> HistoryRow]
  /\ \A s \in Text : s # t => text'[s] = text[s] /\ row'[s] = row[s] /\ history'[s] = history[s]

\* What is known of a text and of its types.
LEMMA TextFacts ==
  ASSUME Inv, NEW t \in Text
  PROVE  /\ text \in [Text -> TextRow] /\ row \in [Text -> RequestRow]
         /\ history \in [Text -> HistoryRow]
         /\ text[t] \in TextRow /\ row[t] \in RequestRow /\ history[t] \in HistoryRow
         /\ TypeInv /\ CredentialInv /\ HistoryInv(t) /\ Readable(t) /\ KeyInv(text[t])
  BY DEF Inv, TypeInv, TextInv

\* Texts touch no job, and leave the credential its key.
LEMMA TextsStepKeeps ==
  ASSUME Inv, UNCHANGED imageVars, SameKey, CredentialInv', text' \in [Text -> TextRow],
         row' \in [Text -> RequestRow], history' \in [Text -> HistoryRow],
         \A t \in Text : TextInv(t)'
  PROVE  Inv'
<1>1. TypeInv' BY DEF Inv, TypeInv, SameKey, imageVars, providerVars, catalogueVars
<1>2. AtMostOne' BY DEF Inv, AtMostOne, Defaults, imageVars, catalogueVars
<1>3. BookGood(book') BY DEF Inv, imageVars
<1>4. ASSUME NEW j \in Job PROVE JobInv(j)'
  <2>1. CreditsInv(j) /\ CallInv(j) /\ StoreInv(j) /\ KeyInv(job[j]) BY JobFacts
  <2>2. CreditsInv(j)'
    BY <2>1 DEF CreditsInv, HoldInv, Hold, Unpaid, Paid, Gone, imageVars
  <2>3. CallInv(j)' BY <2>1 DEF CallInv, Delivered, imageVars, providerVars
  <2>4. StoreInv(j)' BY <2>1 DEF StoreInv, imageVars
  <2>5. job' = job BY DEF imageVars
  <2>6. KeyInv(job[j])' BY <2>1, <2>5, KeyStays DEF KeyInv, Known, NeverHeld, SameKey
  <2> QED BY <2>2, <2>3, <2>4, <2>6 DEF JobInv
<1> QED BY <1>1, <1>2, <1>3, <1>4 DEF Inv

\* A step of one text.
LEMMA TextStepKeeps ==
  ASSUME Inv, NEW t \in Text, UNCHANGED imageVars, TextMoves(t), SameKey, CredentialInv',
         HistoryInv(t)', Readable(t)', KeyInv(text[t])'
  PROVE  Inv'
<1>1. \A s \in Text : TextInv(s)' BY TextKeeps DEF TextMoves, TextInv
<1> QED BY <1>1, TextsStepKeeps DEF TextMoves

\* What a text has when it goes on to pc.
TextGoesWith(t, pc, stored) ==
  /\ text' \in [Text -> TextRow] /\ \A s \in Text : s # t => text'[s] = text[s]
  /\ text'[t].pc = pc /\ text'[t].key = text[t].key /\ text'[t].auth = text[t].auth
  /\ text'[t].stored = stored

TextGoes(t, pc) == TextGoesWith(t, pc, text[t].stored)

\* A text gets a new row.
LEMMA TextSet ==
  ASSUME Inv, NEW t \in Text, NEW r \in TextRow, text' = [text EXCEPT ![t] = r]
  PROVE  /\ text' \in [Text -> TextRow] /\ text'[t] = r
         /\ \A s \in Text : s # t => text'[s] = text[s]
  BY TextFacts

\* A text goes on with what it has.
LEMMA GoTextGoes ==
  ASSUME Inv, NEW t \in Text, NEW pc \in TextPlaces, GoText(t, pc)
  PROVE  TextGoes(t, pc)
<1> DEFINE r == [text[t] EXCEPT !.pc = pc]
<1>1. /\ r \in TextRow /\ r.pc = pc /\ r.key = text[t].key /\ r.auth = text[t].auth
      /\ r.stored = text[t].stored
  <2>1. text[t] \in TextRow BY TextFacts
  <2> QED BY <2>1 DEF TextRow
<1>2. text' = [text EXCEPT ![t] = r] BY DEF GoText
<1> HIDE DEF r
<1> QED BY <1>1, <1>2, TextSet DEF TextGoes, TextGoesWith

\* The places of a text.
LEMMA TextPlacesAre ==
  \A pc : pc \in TextPlaces <=>
    pc \in {"idle", "create", "input", "fallback", "start", "execute", "works", "output",
            "complete", "mark", "fail", "done"}
  BY DEF TextPlaces

\* A step of a text that judges no key.
LEMMA TextGoStep ==
  ASSUME Inv, NEW t \in Text, NEW pc \in TextPlaces, NEW stored,
         TextGoesWith(t, pc, stored), TextMoves(t),
         UNCHANGED <<imageVars, credential, blamed, refused>>,
         text[t].pc \notin {"idle", "done"}, pc # "idle",
         HistoryInv(t)', Readable(t)'
  PROVE  Inv'
<1>1. SameKey /\ CredentialInv' BY TextFacts, NotJudged DEF imageVars
<1>2. KeyInv(text[t])'
  BY <1>1, TextFacts DEF TextGoes, TextGoesWith, KeyInv, Known, NeverHeld, SameKey
<1> QED BY <1>1, <1>2, TextStepKeeps

\* The row of a request is written.
LEMMA RowSet ==
  ASSUME Inv, NEW t \in Text, NEW pc, NEW stored, TextGoesWith(t, pc, stored),
         NEW x \in RequestRow, row' = [row EXCEPT ![t] = x], UNCHANGED history
  PROVE  TextMoves(t) /\ row'[t] = x
  BY TextFacts DEF TextMoves, TextGoesWith

\* The row of the store is written.
LEMMA HistorySet ==
  ASSUME Inv, NEW t \in Text, NEW x \in HistoryRow, history' = [history EXCEPT ![t] = x]
  PROVE  /\ history' \in [Text -> HistoryRow] /\ history'[t] = x
         /\ \A s \in Text : s # t => history'[s] = history[s]
  BY TextFacts

\* A request is given the key the user has.
LEMMA StartTextKeeps ==
  ASSUME Inv, NEW t \in Text, StartText(t), UNCHANGED imageVars PROVE Inv'
<1> DEFINE k == credential.key
           p == credential.provider
           r == [text[t] EXCEPT !.pc = "create", !.key = k, !.provider = p]
<1>1. /\ text[t].pc = "idle" /\ k > 0
      /\ text' = [text EXCEPT ![t].pc = "create", ![t].key = k, ![t].provider = p]
      /\ UNCHANGED <<row, history, credential, blamed, refused, replaced>>
  BY DEF StartText, Doing, imageVars
<1>2. k \in Nat \ {0} /\ p \in Providers BY <1>1 DEF Inv, TypeInv, CredentialRow
<1>3. text' = [text EXCEPT ![t] = r] BY <1>1, TextFacts
<1>4. /\ r \in TextRow /\ r.pc = "create" /\ r.key = k /\ r.auth = text[t].auth
      /\ r.stored = text[t].stored
  <2>1. text[t] \in TextRow BY TextFacts
  <2> QED BY <1>2, <2>1, TextPlacesAre DEF TextRow
<1> HIDE DEF r
<1>5. /\ text' \in [Text -> TextRow] /\ text'[t] = r
      /\ \A s \in Text : s # t => text'[s] = text[s]
  BY <1>3, <1>4, TextSet
<1>6. TextMoves(t) BY <1>1, <1>5, TextFacts DEF TextMoves
<1>7. SameKey /\ CredentialInv' BY <1>1, TextFacts, NotJudged
<1>8. HistoryInv(t)' BY <1>1, <1>2, <1>4, <1>5, TextFacts DEF HistoryInv
<1>9. Readable(t)' BY <1>4, <1>5 DEF Readable, Doing
<1>10. KeyInv(text[t])'
  <2>1. ~text[t].auth BY <1>1, TextFacts DEF KeyInv
  <2> QED BY <1>1, <1>2, <1>4, <1>5, <2>1 DEF KeyInv, Known, NeverHeld
<1> QED BY <1>6, <1>7, <1>8, <1>9, <1>10, TextStepKeeps

\* The row of a request, with its input unless the store is to have it.
LEMMA CreateRowKeeps ==
  ASSUME Inv, NEW t \in Text, CreateRow(t), UNCHANGED imageVars PROVE Inv'
<1> DEFINE pc == IF External THEN "input" ELSE "start"
           x == [row[t] EXCEPT !.status = "QUEUED", !.input = ~External]
<1>1. /\ text[t].pc = "create" /\ GoText(t, pc)
      /\ row' = [row EXCEPT ![t].status = "QUEUED", ![t].input = ~External]
      /\ UNCHANGED <<history, credential, blamed, refused>>
  BY DEF CreateRow, Doing
<1>2. /\ x \in RequestRow /\ x.input = ~External /\ x.due = row[t].due
  <2>1. row[t] \in RequestRow BY TextFacts
  <2> QED BY <2>1, ExternalAssumption DEF RequestRow
<1>3. row' = [row EXCEPT ![t] = x] BY <1>1, TextFacts
<1>4. pc \in {"input", "start"} /\ (pc = "start" => ~External) OBVIOUS
<1> HIDE DEF pc, x
<1>5. TextGoes(t, pc) BY <1>1, <1>4, GoTextGoes, TextPlacesAre
<1>6. TextMoves(t) /\ row'[t] = x BY <1>1, <1>2, <1>3, <1>5, RowSet DEF TextGoes
<1>7. HistoryInv(t)'
  BY <1>1, <1>2, <1>4, <1>5, <1>6, TextFacts DEF HistoryInv, TextGoes, TextGoesWith, Shown
<1>8. Readable(t)' BY <1>4, <1>5 DEF Readable, Doing, TextGoes, TextGoesWith
<1> QED BY <1>1, <1>4, <1>5, <1>6, <1>7, <1>8, TextPlacesAre, TextGoStep DEF TextGoes

\* The store may have the input without saying so.
LEMMA HistoryCreateKeeps ==
  ASSUME Inv, NEW t \in Text, HistoryCreate(t), UNCHANGED imageVars PROVE Inv'
<1>1. PICK state \in {"none", "late", "kept"} : history' = [history EXCEPT ![t].state = state]
  BY DEF HistoryCreate
<1> DEFINE x == [history[t] EXCEPT !.state = state]
<1>2. x \in HistoryRow /\ x.state = state
  <2>1. history[t] \in HistoryRow BY TextFacts
  <2> QED BY <2>1 DEF HistoryRow
<1>3. history' = [history EXCEPT ![t] = x] BY <1>1
<1> HIDE DEF x
<1>4. /\ history' \in [Text -> HistoryRow] /\ history'[t] = x
      /\ \A s \in Text : s # t => history'[s] = history[s]
  BY <1>2, <1>3, HistorySet
<1>5. ASSUME NEW pc \in {"start", "fallback"}, GoText(t, pc), pc = "start" => x.state = "kept"
      PROVE  Inv'
  <2>1. TextGoes(t, pc) BY <1>5, GoTextGoes, TextPlacesAre
  <2>2. text[t].pc = "input" /\ UNCHANGED <<row, credential, blamed, refused>>
    BY DEF HistoryCreate, Doing
  <2>3. TextMoves(t) BY <1>4, <2>1, <2>2, TextFacts DEF TextMoves, TextGoes, TextGoesWith
  <2>4. HistoryInv(t)'
    BY <1>4, <1>5, <2>1, <2>2, TextFacts DEF HistoryInv, TextGoes, TextGoesWith, Shown, Kept
  <2>5. Readable(t)' BY <1>5, <2>1 DEF Readable, Doing, TextGoes, TextGoesWith
  <2> QED BY <1>5, <2>1, <2>2, <2>3, <2>4, <2>5, TextPlacesAre, TextGoStep DEF TextGoes
<1>6. (x.state = "kept" /\ GoText(t, "start")) \/ GoText(t, "fallback")
  BY <1>4 DEF HistoryCreate
<1> QED BY <1>5, <1>6

\* An INSERT that nobody waits for.
LEMMA InsertLateKeeps ==
  ASSUME Inv, NEW t \in Text, InsertLate(t), UNCHANGED imageVars PROVE Inv'
<1> DEFINE x == [history[t] EXCEPT !.state = "kept"]
<1>1. /\ history[t].state = "late" /\ history' = [history EXCEPT ![t] = x]
      /\ UNCHANGED <<text, row, credential, blamed, refused, replaced>>
  BY DEF InsertLate, imageVars
<1>2. x \in HistoryRow /\ x.state = "kept"
  <2>1. history[t] \in HistoryRow BY TextFacts
  <2> QED BY <2>1 DEF HistoryRow
<1> HIDE DEF x
<1>3. /\ history' \in [Text -> HistoryRow] /\ history'[t] = x
      /\ \A s \in Text : s # t => history'[s] = history[s]
  BY <1>1, <1>2, HistorySet
<1>4. TextMoves(t) BY <1>1, <1>3, TextFacts DEF TextMoves
<1>5. SameKey /\ CredentialInv' BY <1>1, TextFacts, NotJudged
<1>6. ~Kept(t) /\ Kept(t)' BY <1>1, <1>2, <1>3 DEF Kept
<1>7. HistoryInv(t)' BY <1>1, <1>6, TextFacts DEF HistoryInv, Shown
<1>8. Readable(t)' BY <1>1, <1>6, TextFacts DEF Readable, Shown, Doing
<1>9. KeyInv(text[t])' BY <1>1, TextFacts DEF KeyInv, Known, NeverHeld
<1> QED BY <1>4, <1>5, <1>7, <1>8, <1>9, TextStepKeeps

\* What the store did not take the row keeps.
LEMMA InputFallbackKeeps ==
  ASSUME Inv, NEW t \in Text, InputFallback(t), UNCHANGED imageVars PROVE Inv'
<1> DEFINE x == [row[t] EXCEPT !.input = TRUE]
<1>1. /\ text[t].pc = "fallback" /\ GoText(t, "start") /\ row' = [row EXCEPT ![t] = x]
      /\ UNCHANGED <<history, credential, blamed, refused>>
  BY DEF InputFallback, Doing
<1>2. x \in RequestRow /\ x.input /\ x.due = row[t].due
  <2>1. row[t] \in RequestRow BY TextFacts
  <2> QED BY <2>1 DEF RequestRow
<1> HIDE DEF x
<1>3. TextGoes(t, "start") BY <1>1, GoTextGoes, TextPlacesAre
<1>4. TextMoves(t) /\ row'[t] = x BY <1>1, <1>2, <1>3, RowSet DEF TextGoes
<1>5. HistoryInv(t)'
  BY <1>1, <1>2, <1>3, <1>4, TextFacts DEF HistoryInv, TextGoes, TextGoesWith, Shown
<1>6. Readable(t)' BY <1>3 DEF Readable, Doing, TextGoes, TextGoesWith
<1> QED BY <1>1, <1>3, <1>4, <1>5, <1>6, TextPlacesAre, TextGoStep DEF TextGoes

\* A request that is being executed.
LEMMA ProcessTextKeeps ==
  ASSUME Inv, NEW t \in Text, ProcessText(t), UNCHANGED imageVars PROVE Inv'
<1> DEFINE x == [row[t] EXCEPT !.status = "PROCESSING"]
<1>1. /\ text[t].pc = "start" /\ GoText(t, "execute") /\ row' = [row EXCEPT ![t] = x]
      /\ UNCHANGED <<history, credential, blamed, refused>>
  BY DEF ProcessText, Doing
<1>2. x \in RequestRow /\ x.input = row[t].input /\ x.due = row[t].due
  <2>1. row[t] \in RequestRow BY TextFacts
  <2> QED BY <2>1 DEF RequestRow
<1> HIDE DEF x
<1>3. TextGoes(t, "execute") BY <1>1, GoTextGoes, TextPlacesAre
<1>4. TextMoves(t) /\ row'[t] = x BY <1>1, <1>2, <1>3, RowSet DEF TextGoes
<1>5. HistoryInv(t)'
  BY <1>1, <1>2, <1>3, <1>4, TextFacts DEF HistoryInv, TextGoes, TextGoesWith, Shown, Kept
<1>6. Readable(t)' BY <1>3 DEF Readable, Doing, TextGoes, TextGoesWith
<1> QED BY <1>1, <1>3, <1>4, <1>5, <1>6, TextPlacesAre, TextGoStep DEF TextGoes

\* A text that gets no answer.
LEMMA TextFailsKeeps ==
  ASSUME Inv, NEW t \in Text, TextFails(t), UNCHANGED imageVars PROVE Inv'
<1>1. /\ text[t].pc = "execute" /\ GoText(t, "mark")
      /\ UNCHANGED <<row, history, credential, blamed, refused>>
  BY DEF TextFails, Doing
<1>2. TextGoes(t, "mark") BY <1>1, GoTextGoes, TextPlacesAre
<1>3. TextMoves(t) BY <1>1, <1>2, TextFacts DEF TextMoves, TextGoes, TextGoesWith
<1>4. HistoryInv(t)' BY <1>1, <1>2, TextFacts DEF HistoryInv, TextGoes, TextGoesWith, Shown, Kept
<1>5. Readable(t)' BY <1>2 DEF Readable, Doing, TextGoes, TextGoesWith
<1> QED BY <1>1, <1>2, <1>3, <1>4, <1>5, TextPlacesAre, TextGoStep DEF TextGoes

\* A text whose process dies.
LEMMA TextDiesKeeps ==
  ASSUME Inv, NEW t \in Text, TextDies(t), UNCHANGED imageVars PROVE Inv'
<1> DEFINE r == [text[t] EXCEPT !.pc = "done", !.left = TRUE]
<1>1. /\ text[t].pc \notin {"idle", "done"}
      /\ text' = [text EXCEPT ![t].pc = "done", ![t].left = TRUE]
      /\ UNCHANGED <<row, history, credential, blamed, refused>>
  BY DEF TextDies
<1>2. /\ r \in TextRow /\ r.pc = "done" /\ r.left /\ r.key = text[t].key
      /\ r.auth = text[t].auth /\ r.stored = text[t].stored
  <2>1. text[t] \in TextRow BY TextFacts
  <2> QED BY <2>1, TextPlacesAre DEF TextRow
<1>3. text' = [text EXCEPT ![t] = r] BY <1>1, TextFacts
<1> HIDE DEF r
<1>4. TextGoes(t, "done") /\ text'[t].left BY <1>2, <1>3, TextSet DEF TextGoes, TextGoesWith
<1>5. TextMoves(t) BY <1>1, <1>4, TextFacts DEF TextMoves, TextGoes, TextGoesWith
<1>6. HistoryInv(t)' BY <1>4 DEF HistoryInv, TextGoes, TextGoesWith
<1>7. Readable(t)' BY <1>4 DEF Readable
<1> QED BY <1>1, <1>4, <1>5, <1>6, <1>7, TextPlacesAre, TextGoStep DEF TextGoes

\* An answer that refuses the key is remembered with the key it refused.
LEMMA TextAnswersKeeps ==
  ASSUME Inv, NEW t \in Text, NEW a \in Answer, TextAnswers(t, a), UNCHANGED imageVars
  PROVE  Inv'
<1>1. /\ text[t].pc = "execute"
      /\ refused' = refused \union (IF RefusesKey(a) THEN {text[t].key} ELSE {})
      /\ UNCHANGED <<row, history, credential, blamed, replaced>>
  BY DEF TextAnswers, Doing, imageVars
<1>2. SameKey /\ CredentialInv' BY <1>1, TextFacts, NotJudged
<1>3. ASSUME NEW r \in TextRow, text' = [text EXCEPT ![t] = r], r.pc \in {"works", "mark"},
             r.key = text[t].key, r.stored = text[t].stored,
             r.auth => text[t].auth \/ RefusesKey(a)
      PROVE  Inv'
  <2>1. /\ text' \in [Text -> TextRow] /\ text'[t] = r
        /\ \A s \in Text : s # t => text'[s] = text[s]
    BY <1>3, TextSet
  <2>2. TextMoves(t) BY <1>1, <2>1, TextFacts DEF TextMoves
  <2>3. HistoryInv(t)' BY <1>1, <1>3, <2>1, TextFacts DEF HistoryInv, Shown, Kept
  <2>4. Readable(t)' BY <1>3, <2>1 DEF Readable, Doing
  <2>5. KeyInv(text[t])'
    <3>1. r.auth => r.key \in {0} \union refused' BY <1>1, <1>3, TextFacts DEF KeyInv
    <3>2. Known(r.key) /\ (NeverHeld => r.key = 0) BY <1>1, <1>3, TextFacts DEF KeyInv
    <3> QED BY <1>1, <1>3, <2>1, <3>1, <3>2 DEF KeyInv, Known, NeverHeld
  <2> QED BY <1>2, <2>2, <2>3, <2>4, <2>5, TextStepKeeps
<1>4. text[t] \in TextRow BY TextFacts
<1>5. CASE GoText(t, "works")
  <2> DEFINE r == [text[t] EXCEPT !.pc = "works"]
  <2>1. /\ r \in TextRow /\ r.pc = "works" /\ r.key = text[t].key /\ r.auth = text[t].auth
        /\ r.stored = text[t].stored
    BY <1>4, TextPlacesAre DEF TextRow
  <2>2. text' = [text EXCEPT ![t] = r] BY <1>5 DEF GoText
  <2> HIDE DEF r
  <2> QED BY <1>3, <2>1, <2>2
<1>6. CASE ~GoText(t, "works")
  <2> DEFINE auth == a.status # 200 /\ IsProviderAuthError(FetchError(a))
             r == [text[t] EXCEPT !.pc = "mark", !.auth = auth]
  <2>1. text' = [text EXCEPT ![t].pc = "mark", ![t].auth = auth] BY <1>6 DEF TextAnswers
  <2>2. auth \in BOOLEAN /\ (auth => RefusesKey(a)) BY AuthErrors
  <2> HIDE DEF auth
  <2>3. text' = [text EXCEPT ![t] = r] BY <2>1, TextFacts
  <2>4. /\ r \in TextRow /\ r.pc = "mark" /\ r.key = text[t].key /\ r.auth = auth
        /\ r.stored = text[t].stored
    BY <1>4, <2>2, TextPlacesAre DEF TextRow
  <2> HIDE DEF r
  <2> QED BY <1>3, <2>2, <2>3, <2>4
<1> QED BY <1>5, <1>6

\* A judgement that may be lost.
LEMMA MarksOrNot ==
  ASSUME TypeInv, CredentialInv, NEW key, NEW failed \in BOOLEAN, Marks(key, failed),
         UNCHANGED <<replaced, refused>>, failed => key # 0 /\ key \in refused /\ Known(key)
  PROVE  SameKey /\ CredentialInv'
<1>1. CASE MarkUsed(key, failed) BY <1>1, Judged
<1>2. CASE UNCHANGED <<credential, blamed>> BY <1>2, NotJudged
<1> QED BY <1>1, <1>2 DEF Marks

\* A text that judges the key it used.
LEMMA TextJudges ==
  ASSUME Inv, NEW t \in Text, NEW pc \in {"output", "complete", "fail"}, GoText(t, pc),
         Marks(text[t].key, text[t].auth) \/ Marks(text[t].key, FALSE),
         text[t].pc \in {"works", "mark"}, UNCHANGED <<imageVars, row, history, refused>>,
         pc = "complete" => ~text[t].stored
  PROVE  Inv'
<1>1. TextGoes(t, pc) BY GoTextGoes, TextPlacesAre
<1>2. TextMoves(t) BY <1>1, TextFacts DEF TextMoves, TextGoes, TextGoesWith
<1>3. SameKey /\ CredentialInv'
  <2>1. text[t].auth \in BOOLEAN BY TextFacts DEF TextRow
  <2>2. text[t].auth => text[t].key # 0 /\ text[t].key \in refused /\ Known(text[t].key)
    BY TextFacts DEF KeyInv, HistoryInv
  <2> QED BY <2>1, <2>2, TextFacts, MarksOrNot DEF imageVars
<1>4. HistoryInv(t)' BY <1>1, TextFacts DEF HistoryInv, TextGoes, TextGoesWith, Shown, Kept
<1>5. Readable(t)' BY <1>1 DEF Readable, Doing, TextGoes, TextGoesWith
<1>6. KeyInv(text[t])'
  BY <1>1, <1>3, TextFacts DEF TextGoes, TextGoesWith, KeyInv, Known, NeverHeld, SameKey
<1> QED BY <1>2, <1>3, <1>4, <1>5, <1>6, TextStepKeeps

\* A text that worked.
LEMMA TextWorksKeeps ==
  ASSUME Inv, NEW t \in Text, TextWorks(t), UNCHANGED imageVars PROVE Inv'
<1> DEFINE pc == IF External THEN "output" ELSE "complete"
<1>1. /\ text[t].pc = "works" /\ Marks(text[t].key, FALSE) /\ GoText(t, pc)
      /\ UNCHANGED <<row, history, refused>>
  BY DEF TextWorks, Doing
<1>2. pc \in {"output", "complete"} OBVIOUS
<1> HIDE DEF pc
<1>3. ~text[t].stored BY <1>1, TextFacts DEF HistoryInv
<1> QED BY <1>1, <1>2, <1>3, TextJudges

\* A text that failed.
LEMMA MarkTextKeeps ==
  ASSUME Inv, NEW t \in Text, MarkText(t), UNCHANGED imageVars PROVE Inv'
<1>1. /\ text[t].pc = "mark" /\ Marks(text[t].key, text[t].auth) /\ GoText(t, "fail")
      /\ UNCHANGED <<row, history, refused>>
  BY DEF MarkText, Doing
<1> QED BY <1>1, TextJudges

\* Only an output the store has is left out of the row.
LEMMA HistoryCompleteKeeps ==
  ASSUME Inv, NEW t \in Text, HistoryComplete(t), UNCHANGED imageVars PROVE Inv'
<1>1. PICK written \in BOOLEAN, answered \in BOOLEAN :
        /\ answered => written
        /\ history' = [history EXCEPT ![t].output = written /\ Kept(t)]
        /\ text' = [text EXCEPT ![t].pc = "complete", ![t].stored = answered /\ Kept(t)]
  BY DEF HistoryComplete
<1>2. text[t].pc = "output" /\ UNCHANGED <<row, credential, blamed, refused>>
  BY DEF HistoryComplete, Doing
<1> DEFINE output == written /\ Kept(t)
           stored == answered /\ Kept(t)
           x == [history[t] EXCEPT !.output = output]
           r == [text[t] EXCEPT !.pc = "complete", !.stored = stored]
<1>3. output \in BOOLEAN /\ stored \in BOOLEAN /\ (stored => Kept(t) /\ output)
  BY <1>1 DEF Kept
<1>4. history' = [history EXCEPT ![t] = x] /\ text' = [text EXCEPT ![t] = r]
  BY <1>1, TextFacts
<1> HIDE DEF output, stored
<1>5. x \in HistoryRow /\ x.state = history[t].state /\ x.output = output
  <2>1. history[t] \in HistoryRow BY TextFacts
  <2> QED BY <1>3, <2>1 DEF HistoryRow
<1>6. /\ r \in TextRow /\ r.pc = "complete" /\ r.stored = stored /\ r.key = text[t].key
      /\ r.auth = text[t].auth
  <2>1. text[t] \in TextRow BY TextFacts
  <2> QED BY <1>3, <2>1, TextPlacesAre DEF TextRow
<1> HIDE DEF x, r
<1>7. /\ history' \in [Text -> HistoryRow] /\ history'[t] = x
      /\ \A s \in Text : s # t => history'[s] = history[s]
  BY <1>4, <1>5, HistorySet
<1>8. TextGoesWith(t, "complete", stored)
  BY <1>4, <1>6, TextSet DEF TextGoes, TextGoesWith
<1>9. TextMoves(t) BY <1>2, <1>7, <1>8, TextFacts DEF TextMoves, TextGoes, TextGoesWith
<1>10. HistoryInv(t)'
  BY <1>2, <1>3, <1>5, <1>7, <1>8, TextFacts DEF HistoryInv, TextGoes, TextGoesWith, Shown, Kept
<1>11. Readable(t)' BY <1>8 DEF Readable, Doing, TextGoes, TextGoesWith
<1> QED BY <1>2, <1>8, <1>9, <1>10, <1>11, TextPlacesAre, TextGoStep DEF TextGoes

\* The row ends with the output the store does not have.
LEMMA CompleteRowKeeps ==
  ASSUME Inv, NEW t \in Text, CompleteRow(t), UNCHANGED imageVars PROVE Inv'
<1> DEFINE output == ~text[t].stored
           x == [row[t] EXCEPT !.status = "COMPLETED", !.output = output]
<1>1. /\ text[t].pc = "complete" /\ GoText(t, "done")
      /\ row' = [row EXCEPT ![t].status = "COMPLETED", ![t].output = output]
      /\ UNCHANGED <<history, credential, blamed, refused>>
  BY DEF CompleteRow, Doing
<1>2. row' = [row EXCEPT ![t] = x] BY <1>1, TextFacts
<1>3. output \in BOOLEAN BY TextFacts DEF TextRow
<1>4. output \/ text[t].stored OBVIOUS
<1> HIDE DEF output
<1>5. x \in RequestRow /\ x.input = row[t].input /\ x.due = row[t].due /\ x.output = output
  <2>1. row[t] \in RequestRow BY TextFacts
  <2> QED BY <1>3, <2>1 DEF RequestRow
<1> HIDE DEF x
<1>6. TextGoes(t, "done") BY <1>1, GoTextGoes, TextPlacesAre
<1>7. TextMoves(t) /\ row'[t] = x BY <1>1, <1>2, <1>5, <1>6, RowSet DEF TextGoes
<1>8. HistoryInv(t)' BY <1>6 DEF HistoryInv, TextGoes, TextGoesWith
<1>9. Shown(t).input' /\ Shown(t).output'
  BY <1>1, <1>4, <1>5, <1>7, TextFacts DEF HistoryInv, Shown, Kept
<1>10. Readable(t)' BY <1>9 DEF Readable
<1> QED BY <1>1, <1>6, <1>7, <1>8, <1>10, TextPlacesAre, TextGoStep DEF TextGoes

\* The row of a request that failed.
LEMMA FailRowKeeps ==
  ASSUME Inv, NEW t \in Text, FailRow(t), UNCHANGED imageVars PROVE Inv'
<1> DEFINE x == [row[t] EXCEPT !.status = "FAILED"]
<1>1. /\ text[t].pc = "fail" /\ GoText(t, "done") /\ row' = [row EXCEPT ![t] = x]
      /\ UNCHANGED <<history, credential, blamed, refused>>
  BY DEF FailRow, Doing
<1>2. /\ x \in RequestRow /\ x.input = row[t].input /\ x.due = row[t].due
      /\ x.status = "FAILED"
  <2>1. row[t] \in RequestRow BY TextFacts
  <2> QED BY <2>1 DEF RequestRow
<1> HIDE DEF x
<1>3. TextGoes(t, "done") BY <1>1, GoTextGoes, TextPlacesAre
<1>4. TextMoves(t) /\ row'[t] = x BY <1>1, <1>2, <1>3, RowSet DEF TextGoes
<1>5. HistoryInv(t)' BY <1>3 DEF HistoryInv, TextGoes, TextGoesWith
<1>6. Shown(t).input' BY <1>1, <1>2, <1>4, TextFacts DEF HistoryInv, Shown, Kept
<1>7. Readable(t)' BY <1>2, <1>4, <1>6 DEF Readable
<1> QED BY <1>1, <1>3, <1>4, <1>5, <1>7, TextPlacesAre, TextGoStep DEF TextGoes

\* Retention only reaches what has ended.
LEMMA RowAgesKeeps ==
  ASSUME Inv, NEW t \in Text, RowAges(t), UNCHANGED imageVars PROVE Inv'
<1> DEFINE x == [row[t] EXCEPT !.due = TRUE]
<1>1. /\ text[t].pc = "done" /\ row' = [row EXCEPT ![t] = x]
      /\ UNCHANGED <<text, history, credential, blamed, refused, replaced>>
  BY DEF RowAges, Doing, imageVars
<1>2. x \in RequestRow /\ x.due
  <2>1. row[t] \in RequestRow BY TextFacts
  <2> QED BY <2>1 DEF RequestRow
<1> HIDE DEF x
<1>3. TextMoves(t) /\ row'[t] = x BY <1>1, <1>2, TextFacts DEF TextMoves
<1>4. SameKey /\ CredentialInv' BY <1>1, TextFacts, NotJudged
<1>5. HistoryInv(t)' BY <1>1 DEF HistoryInv
<1>6. Readable(t)' BY <1>2, <1>3 DEF Readable
<1>7. KeyInv(text[t])' BY <1>1, TextFacts DEF KeyInv, Known, NeverHeld
<1> QED BY <1>3, <1>4, <1>5, <1>6, <1>7, TextStepKeeps

\* Neither does the cleanup of the store ...
LEMMA CleanupHistoryKeeps ==
  ASSUME Inv, NEW expired \in SUBSET Text, CleanupHistory(expired), UNCHANGED imageVars
  PROVE  Inv'
<1>1. /\ \A t \in expired : row[t].due
      /\ history' = [t \in Text |-> IF t \in expired THEN NoEntry ELSE history[t]]
      /\ UNCHANGED <<text, row, credential, blamed, refused, replaced>>
  BY DEF CleanupHistory, imageVars
<1>2. SameKey /\ CredentialInv' BY <1>1, NotJudged DEF Inv
<1>3. text \in [Text -> TextRow] /\ row \in [Text -> RequestRow]
      /\ history \in [Text -> HistoryRow]
  BY DEF Inv, TypeInv
<1>4. NoEntry \in HistoryRow BY DEF NoEntry, HistoryRow
<1>5. history' \in [Text -> HistoryRow] BY <1>1, <1>3, <1>4
<1>6. ASSUME NEW t \in Text PROVE TextInv(t)'
  <2>1. CASE t \in expired
    <3>1. row[t].due /\ text[t].pc = "done" BY <1>1, <2>1, TextFacts DEF HistoryInv
    <3>2. HistoryInv(t)' BY <1>1, <3>1 DEF HistoryInv
    <3>3. Readable(t)' BY <1>1, <3>1 DEF Readable
    <3>4. KeyInv(text[t])' BY <1>1, TextFacts DEF KeyInv, Known, NeverHeld
    <3> QED BY <3>2, <3>3, <3>4 DEF TextInv
  <2>2. CASE t \notin expired
    <3>1. history'[t] = history[t] BY <1>1, <2>2
    <3> QED BY <1>1, <1>2, <3>1, TextKeeps
  <2> QED BY <2>1, <2>2
<1> QED BY <1>1, <1>2, <1>3, <1>5, <1>6, TextsStepKeeps

\* ... or of the rows.
LEMMA CleanupRowsKeeps ==
  ASSUME Inv, CleanupRows, UNCHANGED imageVars PROVE Inv'
<1> DEFINE x == [NoRow EXCEPT !.status = "DELETED"]
<1>1. /\ row' = [t \in Text |-> IF row[t].due THEN x ELSE row[t]]
      /\ UNCHANGED <<text, history, credential, blamed, refused, replaced>>
  BY DEF CleanupRows, imageVars
<1>2. SameKey /\ CredentialInv' BY <1>1, NotJudged DEF Inv
<1>3. text \in [Text -> TextRow] /\ row \in [Text -> RequestRow]
      /\ history \in [Text -> HistoryRow]
  BY DEF Inv, TypeInv
<1>4. x \in RequestRow /\ x.status = "DELETED" /\ ~x.due BY DEF NoRow, RequestRow
<1> HIDE DEF x
<1>5. row' \in [Text -> RequestRow] BY <1>1, <1>3, <1>4
<1>6. ASSUME NEW t \in Text PROVE TextInv(t)'
  <2>1. CASE row[t].due
    <3>1. row'[t] = x BY <1>1, <2>1
    <3>2. text[t].pc = "done" BY <2>1, TextFacts DEF HistoryInv
    <3>3. HistoryInv(t)' BY <1>1, <3>2 DEF HistoryInv
    <3>4. Readable(t)' BY <1>4, <3>1 DEF Readable
    <3>5. KeyInv(text[t])' BY <1>1, TextFacts DEF KeyInv, Known, NeverHeld
    <3> QED BY <3>3, <3>4, <3>5 DEF TextInv
  <2>2. CASE ~row[t].due
    <3>1. row'[t] = row[t] BY <1>1, <2>2
    <3> QED BY <1>1, <1>2, <3>1, TextKeeps
  <2> QED BY <2>1, <2>2
<1> QED BY <1>1, <1>2, <1>3, <1>5, <1>6, TextsStepKeeps

\* Whatever a text does.
LEMMA TextStepInv ==
  ASSUME Inv, NEW t \in Text, TextStep(t), UNCHANGED imageVars PROVE Inv'
  BY StartTextKeeps, CreateRowKeeps, HistoryCreateKeeps, InsertLateKeeps, InputFallbackKeeps,
     ProcessTextKeeps, TextFailsKeeps, TextWorksKeeps, HistoryCompleteKeeps, CompleteRowKeeps,
     MarkTextKeeps, FailRowKeeps, TextDiesKeeps, RowAgesKeeps, TextAnswersKeeps
  DEF TextStep

-----------------------------------------------------------------------------
(***************************************************************************)
(* The theorems.                                                           *)
(***************************************************************************)
\* The user's credits before any job: a grant.
LEMMA FirstBook ==
  ASSUME NEW k \in Key PROVE BookGood(Mutate(NewBook, "ADMIN_GRANT", k, Balance))
<1> DEFINE e == MutateEntry(NewBook, "ADMIN_GRANT", k, Balance)
           b == Mutate(NewBook, "ADMIN_GRANT", k, Balance)
<1>1. /\ b.reservations = << >> /\ b.entries = Append(<< >>, e)
      /\ {"entries", "reservations"} \subseteq DOMAIN b
  BY DEF Mutate, Updated, NewBook
<1>2. e.type = "ADMIN_GRANT" BY DEF MutateEntry, Entry
<1>3. b \in Book /\ BookInv(b)
  <2>1. Balance \in Nat /\ "ADMIN_GRANT" \in Credits BY AmountsAreNat DEF Credits
  <2>2. MutateOk(NewBook, "ADMIN_GRANT", k, Balance)
    <3>1. NewBook.available = 0 /\ NewBook.entries = << >> BY DEF NewBook
    <3>2. DOMAIN NewBook.entries = {} BY <3>1
    <3> QED BY <2>1, <3>1, <3>2 DEF MutateOk, HasEntry
  <2>3. NewBook \in Book /\ BookInv(NewBook) BY NewBookType, NewBookInv
  <2>4. BookStep(NewBook, b) BY <2>1, <2>2, <2>3, MutateStep
  <2> QED BY <2>4 DEF BookStep
<1> HIDE DEF e, b
<1>4. /\ \E S : b.entries \in Seq(S)
      /\ \A t, key : HasEntry(b, t, key) => e.type = t
  <2> DEFINE nothing == [entries |-> << >>]
  <2>1. nothing.entries = << >> OBVIOUS
  <2>2. nothing.entries \in Seq({}) BY <2>1
  <2>3. \A t, key : ~HasEntry(nothing, t, key) BY <2>1 DEF HasEntry
  <2> HIDE DEF nothing
  <2>4. \E S : nothing.entries \in Seq(S) BY <2>2
  <2>5. b.entries = Append(nothing.entries, e) BY <1>1, <2>1
  <2>6. /\ \E S : b.entries \in Seq(S)
        /\ \A t, key : HasEntry(b, t, key) <=>
             HasEntry(nothing, t, key) \/ (e.type = t /\ e.idempotencyKey = key)
    BY <2>4, <2>5, EntriesGrow
  <2> QED BY <2>3, <2>6
<1>5. BookOk(b)
  <2>1. b.reservations \in Seq(Reservation) /\ DOMAIN b.reservations = {} BY <1>1
  <2> QED BY <1>1, <1>2, <1>4, <2>1 DEF BookOk, KeysOnce, RowsTell, PaidIfCaptured
<1> QED BY <1>3, <1>5 DEF BookGood, b

\* The invariant holds at first.
LEMMA InitInv == TextsInit => Inv
<1> SUFFICES ASSUME TextsInit PROVE Inv OBVIOUS
<1>1. BookGood(book)
  <2>1. \E k \in Key : k \notin Job BY JobAssumption
  <2>2. (CHOOSE k \in Key \ Job : TRUE) \in Key BY <2>1
  <2> QED BY <2>2, FirstBook DEF TextsInit, Init
<1>2. /\ \A j \in Job : /\ job[j] = NewJob /\ record[j] = NoRecord
                        /\ call[j] = NoCall /\ prediction[j] = "none"
      /\ \A t \in Text : text[t] = NewText /\ row[t] = NoRow /\ history[t] = NoEntry
      /\ credential = NoCredential /\ \A v \in Variant : ~variant[v].default
  BY DEF TextsInit, Init, CatalogueInit, ProvidersInit, NoVariant
<1>3. TypeInv
  <2>1. \A p \in Price : NoVariant(p) \in VariantRow BY DEF NoVariant, VariantRow
  <2>2. NoChange \in ChangeRow BY DEF ChangeRow
  <2>3. NoCredential \in CredentialRow BY DEF NoCredential, CredentialRow, Providers
  <2>4. NewJob \in JobRow BY DEF NewJob, JobRow, JobPlaces
  <2>5. NoRecord \in RecordRow BY DEF NoRecord, RecordRow
  <2>6. NoCall \in CallRow BY DEF NoCall, CallRow, CallPlaces, Providers, Prediction
  <2>7. NewText \in TextRow BY DEF NewText, TextRow, TextPlaces, Providers
  <2>8. NoRow \in RequestRow /\ NoEntry \in HistoryRow
    BY DEF NoRow, RequestRow, NoEntry, HistoryRow
  <2>9. variant \in [Variant -> VariantRow]
    BY <2>1 DEF TextsInit, Init, CatalogueInit
  <2>10. change \in [Admin -> ChangeRow] /\ credential \in CredentialRow
    BY <2>2, <2>3 DEF TextsInit, Init, CatalogueInit
  <2>11. job \in [Job -> JobRow] /\ record \in [Job -> RecordRow]
    BY <2>4, <2>5 DEF TextsInit, Init
  <2>12. call \in [Job -> CallRow] /\ prediction \in [Job -> Prediction]
    BY <2>6 DEF TextsInit, Init, ProvidersInit, Prediction
  <2>13. /\ text \in [Text -> TextRow] /\ row \in [Text -> RequestRow]
         /\ history \in [Text -> HistoryRow]
    BY <2>7, <2>8 DEF TextsInit
  <2> QED BY <2>9, <2>10, <2>11, <2>12, <2>13 DEF TypeInv
<1>4. AtMostOne BY <1>2 DEF AtMostOne, Defaults
<1>5. CredentialInv BY <1>2 DEF CredentialInv, BlameIsDeserved, NoCredential
<1>6. ASSUME NEW j \in Job PROVE JobInv(j)
  BY <1>2 DEF JobInv, CreditsInv, CallInv, StoreInv, KeyInv, Known, Delivered, NewJob, NoCall,
              NoRecord
<1>7. ASSUME NEW t \in Text PROVE TextInv(t)
  BY <1>2 DEF TextInv, HistoryInv, Readable, KeyInv, Known, Doing, NewText, NoRow
<1> QED BY <1>1, <1>3, <1>4, <1>5, <1>6, <1>7 DEF Inv

\* Whatever a job does.
LEMMA JobsStepInv ==
  ASSUME Inv, JobsNext, UNCHANGED textVars PROVE Inv'
<1>1. ASSUME NEW j \in Job, JobStep(j) PROVE Inv'
  BY <1>1, StartKeeps, StartOwnKeyKeeps, ReserveHoldKeeps, CreateRecordKeeps,
     ProviderWaitsKeeps, ReplicateWorksKeeps, ProviderAnswersKeeps, TestKeyKeeps, PersistKeeps,
     CaptureHoldKeeps, CaptureThrowsKeeps, MarkWorksKeeps, CompleteKeeps, CompleteThrowsKeeps,
     ReleaseHoldKeeps, ReleaseThrowsKeeps, MarkFailsKeeps, RecordFailedKeeps, DieKeeps
  DEF JobStep
<1> QED BY <1>1, HoldExpiresKeeps, SweepHoldKeeps DEF JobsNext

\* Every step keeps the invariant.
LEMMA StepInv == Inv /\ [TextsNext]_<<vars, textVars>> => Inv'
<1> SUFFICES ASSUME Inv, [TextsNext]_<<vars, textVars>> PROVE Inv' OBVIOUS
<1>1. CASE JobsNext /\ UNCHANGED textVars BY <1>1, JobsStepInv
<1>2. CASE Configure(Using \union TextUsing) /\ UNCHANGED textVars BY <1>2, ConfigureKeeps
<1>3. CASE (\E t \in Text : TextStep(t)) /\ UNCHANGED imageVars BY <1>3, TextStepInv
<1>4. CASE (\E expired \in SUBSET Text : CleanupHistory(expired)) /\ UNCHANGED imageVars
  BY <1>4, CleanupHistoryKeeps
<1>5. CASE CleanupRows /\ UNCHANGED imageVars BY <1>5, CleanupRowsKeeps
<1>6. CASE UNCHANGED <<vars, textVars>>
  <2>1. UNCHANGED <<jobVars, textVars, catalogueVars, credentialVars>> BY <1>6 DEF vars
  <2> QED BY <2>1, CatalogueOnly DEF Inv, TypeInv, AtMostOne, Defaults, catalogueVars
<1> QED BY <1>1, <1>2, <1>3, <1>4, <1>5, <1>6 DEF TextsNext

\* The invariant of the operations on images and texts.
THEOREM TextsInvariance == TextsSpec => []Inv
<1> QED BY InitInv, StepInv, PTL DEF TextsSpec

\* The rows of jobs, texts, the catalogue and the credential keep their types.
THEOREM TextsTyped == TextsSpec => []TypeInv
<1>1. Inv => TypeInv BY DEF Inv
<1> QED BY <1>1, TextsInvariance, PTL

\* An image request pays for what it delivers, and the gallery shows what exists.
THEOREM ImagesAreSettled == TextsSpec => []ImagesSettled
<1>1. ASSUME Inv PROVE ImagesSettled
  <2>1. ASSUME NEW j \in Job, At(j, "done"), ~job[j].left
        PROVE  /\ job[j].hold # 0 => ~IsActive(book, job[j].hold)
               /\ record[j].status = "COMPLETED" /\ job[j].hold # 0 =>
                    CapturedFor(j) = record[j].charged
               /\ record[j].status # "COMPLETED" => CapturedFor(j) = 0
    <3>1. job[j].pc = "done" BY <2>1 DEF At
    <3>2. CASE job[j].hold = 0 BY <3>2 DEF CapturedFor
    <3>3. CASE job[j].hold # 0
      <4>1. HoldInv(j) BY <1>1, <3>3, JobFacts DEF CreditsInv
      <4>2. CASE record[j].status = "COMPLETED"
        <5>1. Paid(j, record[j].charged) BY <2>1, <3>1, <4>1, <4>2 DEF HoldInv
        <5> QED BY <3>3, <4>2, <5>1 DEF Paid, Hold, IsActive, CapturedFor
      <4>3. CASE record[j].status # "COMPLETED"
        <5>1. Gone(j) /\ job[j].hold \in DOMAIN book.reservations
          BY <2>1, <3>1, <4>1, <4>3 DEF HoldInv
        <5>2. Hold(j).capturedAmount = 0
          <6>1. PaidIfCaptured(book) BY <1>1 DEF Inv, BookGood, BookOk
          <6> QED BY <5>1, <6>1 DEF PaidIfCaptured, Gone, Hold
        <5> QED BY <3>3, <4>3, <5>1, <5>2 DEF Gone, Hold, IsActive, CapturedFor
      <4> QED BY <4>2, <4>3
    <3> QED BY <3>2, <3>3
  <2>2. ASSUME NEW j \in Job, record[j].status = "COMPLETED"
        PROVE  prediction[j] \in {"none", "succeeded"}
    BY <1>1, <2>2, JobFacts DEF CallInv, Delivered
  <2>3. Gallery \subseteq objects BY <1>1, JobFacts DEF Gallery, StoreInv
  <2> QED BY <2>1, <2>2, <2>3 DEF ImagesSettled
<1> QED BY <1>1, TextsInvariance, PTL

\* The user's key is INVALID only for what a provider said of it.
THEOREM BlameIsJust == TextsSpec => []BlameIsDeserved
<1>1. Inv => BlameIsDeserved BY DEF Inv, CredentialInv
<1> QED BY <1>1, TextsInvariance, PTL

\* A type has two defaults only after changes that did not see each other.
THEOREM DefaultIsOne == TextsSpec => []OneDefault
<1>1. ASSUME Inv PROVE OneDefault
  <2>1. CASE missed BY <2>1 DEF OneDefault
  <2>2. CASE Defaults = {} BY <2>2, FS_EmptySet DEF OneDefault
  <2>3. ASSUME ~missed, NEW v \in Defaults PROVE OneDefault
    <3>1. Defaults = {v} BY <1>1, <2>3 DEF Inv, AtMostOne
    <3>2. Cardinality(Defaults) = 1 BY <3>1, FS_Singleton
    <3> QED BY <3>2 DEF OneDefault
  <2> QED BY <2>1, <2>2, <2>3
<1> QED BY <1>1, TextsInvariance, PTL

\* A request that ended can be read until retention is due to delete it.
THEOREM HistoryIsReadable == TextsSpec => []HistoryReadable
<1>1. Inv => HistoryReadable BY DEF Inv, TextInv, Readable, HistoryReadable
<1> QED BY <1>1, TextsInvariance, PTL
===============================================================================
