--------------------------- MODULE AiRequestsProofs ---------------------------
(***************************************************************************)
(* The safety of AiRequests for any number of calls, keys, faults and any  *)
(* costs.  What a call knows of its hold stays true however the sweep and  *)
(* the other calls of its key move, because a reservation is settled once  *)
(* and keeps the amount it was settled with.                               *)
(***************************************************************************)
EXTENDS AiRequests, CreditBookTheorems

-----------------------------------------------------------------------------
(***************************************************************************)
(* The calls and their rows.                                               *)
(***************************************************************************)
Places ==
  Ended \union {"reserve", "create", "start", "execute", "capture", "captureFailed",
                "release", "fail", "complete"}
RecordStatus == {"NONE", "QUEUED", "PROCESSING", "COMPLETED", "FAILED", "CANCELLED"}
ErrorCodes == {"none", "CREDIT_CAPTURE_FAILED", "PROVIDER_ERROR"}

TypeInv ==
  /\ {"entries", "reservations"} \subseteq DOMAIN book
  /\ record \in [Call -> [status : RecordStatus, errorCode : ErrorCodes, charged : Nat]]
  /\ call \in [Call -> [pc : Places, hold : Nat, cost : Nat, left : BOOLEAN]]

HoldOf(c) == book.reservations[call[c].hold]

\* The call has captured its cost, or its cost is nothing.
Paid(c) ==
  IF call[c].hold = 0 THEN call[c].cost = 0
  ELSE HoldOf(c).status = "CAPTURED" /\ HoldOf(c).capturedAmount = call[c].cost

CallInv(c) ==
  /\ call[c].pc \in {"idle", "reserve", "conflict"} => call[c].hold = 0
  /\ call[c].pc \in {"capture", "captureFailed", "release"} => Charged(c)
  /\ call[c].pc = "capture" => call[c].cost # 0
  /\ Charged(c) =>
       call[c].hold \in DOMAIN book.reservations /\ HoldOf(c).idempotencyKey = KeyOf[c]
  /\ call[c].pc = "complete" => Paid(c)
  /\ call[c].pc = "dead" /\ call[c].cost # 0 => Paid(c)
  /\ call[c].pc = "fail" /\ Charged(c) /\ ~call[c].left => HoldOf(c).status # "ACTIVE"
  /\ call[c].pc \in {"idle", "reserve", "create", "conflict"} => record[c].status = "NONE"
  /\ record[c].status = "NONE" =>
       /\ call[c].pc \in {"idle", "reserve", "create", "conflict", "done", "dead"}
       /\ call[c].pc = "dead" => call[c].cost = 0
  /\ record[c].status = "FAILED" =>
       /\ call[c].pc \in {"fail", "done", "dead"}
       /\ call[c].pc = "dead" => call[c].cost = 0
  /\ record[c].charged # 0 =>
       /\ call[c].pc = "done" /\ record[c].status = "COMPLETED" /\ Charged(c)
       /\ HoldOf(c).status = "CAPTURED" /\ HoldOf(c).capturedAmount = record[c].charged

\* An Idempotency-Key has one row.
Owned ==
  \A c, d \in Keyed :
    KeyOf[c] = KeyOf[d] /\ record[c].status # "NONE" /\ record[d].status # "NONE" => c = d

\* A call that captured a hold has recorded it, is about to, or died before it did.
Carries(c, id) ==
  /\ call[c].hold = id
  /\ \/ call[c].pc \in {"complete", "dead"} /\ call[c].cost = HoldOf(c).capturedAmount
     \/ record[c].charged = HoldOf(c).capturedAmount

Carried ==
  \A id \in DOMAIN book.reservations :
    book.reservations[id].status = "CAPTURED" => \E c \in Call : Carries(c, id)

\* The call that NoForgottenHold asks for.
Minds(c, id) == call[c].hold = id /\ (call[c].pc \notin Ended \/ call[c].left)

Inv ==
  /\ BookOk(book) /\ TypeInv
  /\ \A c \in Call : CallInv(c)
  /\ Owned /\ Carried /\ NoForgottenHold

-----------------------------------------------------------------------------
(***************************************************************************)
(* A step of one call.                                                     *)
(***************************************************************************)
\* The fields of a call and of its row.
LEMMA CallFields ==
  ASSUME TypeInv, NEW c \in Call
  PROVE  /\ call[c].pc \in Places /\ call[c].hold \in Nat /\ call[c].cost \in Nat
         /\ call[c].left \in BOOLEAN /\ record[c].status \in RecordStatus
         /\ record[c].charged \in Nat
  BY DEF TypeInv

\* A call that stands still knows the same of its hold after any step.
LEMMA OthersKeep ==
  ASSUME Inv, NEW d \in Call, call'[d] = call[d], record'[d] = record[d], Later(book, book')
  PROVE  CallInv(d)'
<1>1. CallInv(d) BY DEF Inv
<1>2. CASE ~Charged(d)
  BY <1>1, <1>2 DEF CallInv, Charged, Paid
<1>3. CASE Charged(d)
  <2>1. /\ call[d].hold \in DOMAIN book.reservations
        /\ HoldOf(d).idempotencyKey = KeyOf[d]
    BY <1>1, <1>3 DEF CallInv
  <2>2. /\ call'[d].hold \in DOMAIN book'.reservations
        /\ HoldOf(d)'.idempotencyKey = KeyOf[d]
        /\ HoldOf(d).status # "ACTIVE" =>
             /\ HoldOf(d)'.status # "ACTIVE" /\ HoldOf(d)'.capturedAmount = HoldOf(d).capturedAmount
             /\ HoldOf(d)'.status = "CAPTURED" <=> HoldOf(d).status = "CAPTURED"
    BY <2>1 DEF Later, HoldOf
  <2> HIDE DEF HoldOf
  <2> QED BY <1>1, <1>3, <2>1, <2>2 DEF CallInv, Charged, Paid
<1> QED BY <1>2, <1>3

\* What one call may do to the rest.
LEMMA StepKeeps ==
  ASSUME Inv, TypeInv', NEW c \in Call,
         BookOk(book'), Later(book, book'),
         \A d \in Call : d # c => call'[d] = call[d] /\ record'[d] = record[d],
         CallInv(c)',
         c \in Keyed /\ record'[c].status # "NONE" =>
           record[c].status # "NONE" \/ ~RowWithKey(KeyOf[c]),
         \A id \in DOMAIN book'.reservations : book'.reservations[id].status = "CAPTURED" =>
           \/ Carries(c, id)'
           \/ /\ id \in DOMAIN book.reservations /\ book.reservations[id].status = "CAPTURED"
              /\ ~Carries(c, id),
         \A id \in DOMAIN book'.reservations : book'.reservations[id].status = "ACTIVE" =>
           \/ Minds(c, id)'
           \/ /\ id \in DOMAIN book.reservations /\ book.reservations[id].status = "ACTIVE"
              /\ ~Minds(c, id)
  PROVE  Inv'
<1>1. \A d \in Call : CallInv(d)'
  <2> SUFFICES ASSUME NEW d \in Call PROVE CallInv(d)' OBVIOUS
  <2>1. CASE d = c BY <2>1
  <2>2. CASE d # c BY <2>2, OthersKeep
  <2> QED BY <2>1, <2>2
<1>2. Owned'
  <2> SUFFICES ASSUME NEW d \in Keyed, NEW e \in Keyed, KeyOf[d] = KeyOf[e],
                      record'[d].status # "NONE", record'[e].status # "NONE", d # e
               PROVE  FALSE
    BY DEF Owned
  <2>1. d \in Call /\ e \in Call BY CallAssumption
  <2>2. Owned BY DEF Inv
  <2>3. CASE d # c /\ e # c BY <2>1, <2>2, <2>3 DEF Owned
  <2>4. CASE d = c
    <3>1. record[e].status # "NONE" BY <2>1, <2>4
    <3>2. RowWithKey(KeyOf[c]) BY <2>4, <3>1 DEF RowWithKey
    <3>3. record[c].status # "NONE" BY <2>4, <3>2
    <3> QED BY <2>2, <2>4, <3>1, <3>3 DEF Owned
  <2>5. CASE e = c
    <3>1. record[d].status # "NONE" BY <2>1, <2>5
    <3>2. RowWithKey(KeyOf[c]) BY <2>5, <3>1 DEF RowWithKey
    <3>3. record[c].status # "NONE" BY <2>5, <3>2
    <3> QED BY <2>2, <2>5, <3>1, <3>3 DEF Owned
  <2> QED BY <2>3, <2>4, <2>5
<1>3. Carried'
  <2> SUFFICES ASSUME NEW id \in DOMAIN book'.reservations,
                      book'.reservations[id].status = "CAPTURED", ~Carries(c, id)'
               PROVE  \E d \in Call : Carries(d, id)'
    BY DEF Carried
  <2>1. /\ id \in DOMAIN book.reservations /\ book.reservations[id].status = "CAPTURED"
        /\ ~Carries(c, id)
    OBVIOUS
  <2>2. PICK d \in Call : Carries(d, id) BY <2>1 DEF Inv, Carried
  <2>3. d # c BY <2>1, <2>2
  <2>4. call'[d] = call[d] /\ record'[d] = record[d] BY <2>3
  <2>5. book'.reservations[id].capturedAmount = book.reservations[id].capturedAmount
    BY <2>1 DEF Later
  <2>6. Carries(d, id)' BY <2>2, <2>4, <2>5 DEF Carries, HoldOf
  <2> QED BY <2>6
<1>4. NoForgottenHold'
  <2> SUFFICES ASSUME NEW id \in DOMAIN book'.reservations,
                      book'.reservations[id].status = "ACTIVE", ~Minds(c, id)'
               PROVE  \E d \in Call : Minds(d, id)'
    BY DEF NoForgottenHold, IsActive, Minds
  <2>1. /\ id \in DOMAIN book.reservations /\ book.reservations[id].status = "ACTIVE"
        /\ ~Minds(c, id)
    OBVIOUS
  <2>2. PICK d \in Call : Minds(d, id) BY <2>1 DEF Inv, NoForgottenHold, IsActive, Minds
  <2>3. d # c BY <2>1, <2>2
  <2>4. call'[d] = call[d] BY <2>3
  <2>5. Minds(d, id)' BY <2>2, <2>4 DEF Minds
  <2> QED BY <2>5
<1> QED BY <1>1, <1>2, <1>3, <1>4 DEF Inv

\* A book is later than itself.
LEMMA LaterSame == ASSUME NEW b PROVE Later(b, b) BY DEF Later

\* A step of one call that moves no credits.
LEMMA QuietStep ==
  ASSUME Inv, TypeInv', NEW c \in Call, UNCHANGED book,
         \A d \in Call : d # c => call'[d] = call[d] /\ record'[d] = record[d],
         CallInv(c)',
         c \in Keyed /\ record'[c].status # "NONE" =>
           record[c].status # "NONE" \/ ~RowWithKey(KeyOf[c]),
         \A id \in DOMAIN book.reservations :
           Carries(c, id) /\ book.reservations[id].status = "CAPTURED" => Carries(c, id)',
         Charged(c) /\ HoldOf(c).status = "ACTIVE" /\ (call[c].pc \notin Ended \/ call[c].left) =>
           call'[c].hold = call[c].hold /\ (call'[c].pc \notin Ended \/ call'[c].left)
  PROVE  Inv'
<1>1. BookOk(book') /\ Later(book, book') BY LaterSame DEF Inv
<1>2. ASSUME NEW id \in DOMAIN book'.reservations, book'.reservations[id].status = "CAPTURED"
      PROVE  \/ Carries(c, id)'
             \/ /\ id \in DOMAIN book.reservations /\ book.reservations[id].status = "CAPTURED"
                /\ ~Carries(c, id)
  BY <1>2
<1>3. ASSUME NEW id \in DOMAIN book'.reservations, book'.reservations[id].status = "ACTIVE"
      PROVE  \/ Minds(c, id)'
             \/ /\ id \in DOMAIN book.reservations /\ book.reservations[id].status = "ACTIVE"
                /\ ~Minds(c, id)
  <2>1. id # 0 BY ReservationRow DEF Inv, BookOk
  <2> QED BY <1>3, <2>1 DEF Minds, Charged, HoldOf
<1> QED BY <1>1, <1>2, <1>3, StepKeeps

\* A call that goes on takes what it knows with it.
LEMMA Goes ==
  ASSUME TypeInv, NEW c \in Call, NEW pc \in Places, Go(c, pc)
  PROVE  /\ call' \in [Call -> [pc : Places, hold : Nat, cost : Nat, left : BOOLEAN]]
         /\ call'[c].pc = pc /\ call'[c].hold = call[c].hold /\ call'[c].cost = call[c].cost
         /\ call'[c].left = call[c].left /\ \A d \in Call : d # c => call'[d] = call[d]
<1>1. call[c] \in [pc : Places, hold : Nat, cost : Nat, left : BOOLEAN] BY DEF TypeInv
<1> DEFINE x == [call[c] EXCEPT !.pc = pc]
<1>2. /\ x \in [pc : Places, hold : Nat, cost : Nat, left : BOOLEAN]
      /\ x.pc = pc /\ x.hold = call[c].hold /\ x.cost = call[c].cost /\ x.left = call[c].left
  BY <1>1
<1>3. call' = [call EXCEPT ![c] = x] BY DEF Go
<1> HIDE DEF x
<1> QED BY <1>2, <1>3 DEF TypeInv

\* The places of a call.
LEMMA PlacesAre ==
  \A pc : pc \in Places <=>
    pc \in {"idle", "done", "conflict", "dead", "reserve", "create", "start", "execute",
            "capture", "captureFailed", "release", "fail", "complete"}
  BY DEF Places, Ended

\* A call that finds no row with its key starts.
LEMMA LookupKeeps == ASSUME Inv, NEW c \in Call, Lookup(c) PROVE Inv'
<1>1. TypeInv BY DEF Inv
<1>2. PICK pc \in {"reserve", "create"} : Go(c, pc) BY DEF Lookup
<1>3. /\ TypeInv' /\ UNCHANGED <<book, record>>
      /\ call'[c].pc = pc /\ call'[c].hold = call[c].hold /\ call'[c].cost = call[c].cost
      /\ call'[c].left = call[c].left /\ \A d \in Call : d # c => call'[d] = call[d]
  BY <1>1, <1>2, Goes, PlacesAre DEF TypeInv, Lookup
<1>4. call[c].pc = "idle" BY DEF Lookup
<1>5. CallInv(c) BY DEF Inv
<1>6. CallInv(c)' BY <1>3, <1>4, <1>5 DEF CallInv, Charged, HoldOf, Paid
<1>7. \A id \in DOMAIN book.reservations : Carries(c, id) => Carries(c, id)'
  BY <1>3, <1>4 DEF Carries, HoldOf
<1> QED BY <1>3, <1>4, <1>5, <1>6, <1>7, QuietStep DEF CallInv, Charged, HoldOf

\* Only a call that captured and is about to say so, died or is done carries a capture.
LEMMA CarriersAreLate ==
  ASSUME Inv, NEW c \in Call, NEW id \in DOMAIN book.reservations, Carries(c, id),
         book.reservations[id].status = "CAPTURED"
  PROVE  call[c].pc \in {"complete", "dead", "done"} /\ Charged(c)
<1>1. CallInv(c) BY DEF Inv
<1>2. book.reservations[id].capturedAmount # 0 BY DEF Inv, BookOk, PaidIfCaptured
<1>3. id # 0 BY ReservationRow DEF Inv, BookOk
<1> QED BY <1>1, <1>2, <1>3 DEF CallInv, Carries, HoldOf, Charged

\* A key that has a reservation gets it back, if it was made for the same request.
LEMMA ReserveAgainKeeps == ASSUME Inv, NEW c \in Call, ReserveAgain(c) PROVE Inv'
<1> DEFINE id == CHOOSE i \in DOMAIN book.reservations :
                   book.reservations[i].idempotencyKey = KeyOf[c]
<1>1. TypeInv /\ CallInv(c) BY DEF Inv
<1>2. id \in DOMAIN book.reservations /\ book.reservations[id].idempotencyKey = KeyOf[c]
  BY DEF ReserveAgain, HasReservation
<1>3. id \in Nat \ {0} BY <1>2, ReservationRow DEF Inv, BookOk
<1>4. call[c].pc = "reserve" /\ UNCHANGED <<book, record>>
  BY DEF ReserveAgain
<1>5. \/ call' = [call EXCEPT ![c].pc = "create", ![c].hold = id]
      \/ call' = [call EXCEPT ![c].pc = "conflict"]
  BY Zenon DEF ReserveAgain
<1> HIDE DEF id
<1>6. /\ TypeInv' /\ call'[c].cost = call[c].cost /\ call'[c].left = call[c].left
      /\ \/ call'[c].pc = "create" /\ call'[c].hold = id
         \/ call'[c].pc = "conflict" /\ call'[c].hold = call[c].hold
      /\ \A d \in Call : d # c => call'[d] = call[d]
  <2>1. CASE call' = [call EXCEPT ![c].pc = "create", ![c].hold = id]
    <3> DEFINE row == [call[c] EXCEPT !.pc = "create", !.hold = id]
    <3>1. /\ row \in [pc : Places, hold : Nat, cost : Nat, left : BOOLEAN]
          /\ row.pc = "create" /\ row.hold = id
          /\ row.cost = call[c].cost /\ row.left = call[c].left
      BY <1>1, <1>3, PlacesAre DEF TypeInv
    <3>2. call' = [call EXCEPT ![c] = row] BY <2>1
    <3> HIDE DEF row
    <3> QED BY <1>1, <1>4, <3>1, <3>2 DEF TypeInv
  <2>2. CASE call' = [call EXCEPT ![c].pc = "conflict"]
    BY <1>1, <1>4, <2>2, PlacesAre DEF TypeInv
  <2> QED BY <1>5, <2>1, <2>2
<1>7. CallInv(c)' BY <1>1, <1>2, <1>3, <1>4, <1>6 DEF CallInv, Charged, HoldOf, Paid
<1>8. \A i \in DOMAIN book.reservations :
        Carries(c, i) /\ book.reservations[i].status = "CAPTURED" => Carries(c, i)'
  BY <1>4, CarriersAreLate
<1> QED BY <1>1, <1>4, <1>6, <1>7, <1>8, QuietStep DEF CallInv, Charged

\* A balance that does not cover the estimate ends the call.
LEMMA ReserveInsufficientKeeps == ASSUME Inv, NEW c \in Call, ReserveInsufficient(c) PROVE Inv'
<1>1. TypeInv /\ CallInv(c) BY DEF Inv
<1>2. /\ TypeInv' /\ UNCHANGED <<book, record>> /\ call[c].pc = "reserve"
      /\ call'[c].pc = "done" /\ call'[c].hold = call[c].hold /\ call'[c].cost = call[c].cost
      /\ call'[c].left = call[c].left /\ \A d \in Call : d # c => call'[d] = call[d]
  BY <1>1, Goes, PlacesAre DEF TypeInv, ReserveInsufficient
<1>3. CallInv(c)' BY <1>1, <1>2 DEF CallInv, Charged, HoldOf, Paid
<1>4. \A i \in DOMAIN book.reservations :
        Carries(c, i) /\ book.reservations[i].status = "CAPTURED" => Carries(c, i)'
  BY <1>2, CarriersAreLate
<1> QED BY <1>1, <1>2, <1>3, <1>4, QuietStep DEF CallInv, Charged

\* The row is created, or its key has a row and the call ends.
LEMMA CreateRecordKeeps == ASSUME Inv, NEW c \in Call, CreateRecord(c) PROVE Inv'
<1>1. TypeInv /\ CallInv(c) /\ call[c].pc = "create" /\ UNCHANGED book
  BY DEF Inv, CreateRecord
<1>2. \A i \in DOMAIN book.reservations :
        Carries(c, i) /\ book.reservations[i].status = "CAPTURED" => Carries(c, i)'
  BY <1>1, CarriersAreLate
<1>3. CASE c \in Keyed /\ RowWithKey(KeyOf[c])
  <2>1. UNCHANGED record /\ call' = [call EXCEPT ![c].pc = "done", ![c].left = TRUE]
    BY <1>3 DEF CreateRecord
  <2>2. /\ TypeInv' /\ call'[c].pc = "done" /\ call'[c].left = TRUE
        /\ call'[c].hold = call[c].hold /\ call'[c].cost = call[c].cost
        /\ \A d \in Call : d # c => call'[d] = call[d]
    BY ZenonT(90), <1>1, <2>1, PlacesAre DEF TypeInv
  <2>3. CallInv(c)' BY <1>1, <2>1, <2>2 DEF CallInv, Charged, HoldOf, Paid
  <2> QED BY <1>1, <1>2, <2>1, <2>2, <2>3, QuietStep
<1>4. CASE ~(c \in Keyed /\ RowWithKey(KeyOf[c]))
  <2>1. record' = [record EXCEPT ![c].status = "QUEUED"] /\ Go(c, "start")
    BY <1>4 DEF CreateRecord
  <2>2. /\ call'[c].pc = "start" /\ call'[c].hold = call[c].hold
        /\ call'[c].cost = call[c].cost /\ call'[c].left = call[c].left
        /\ call' \in [Call -> [pc : Places, hold : Nat, cost : Nat, left : BOOLEAN]]
        /\ \A d \in Call : d # c => call'[d] = call[d]
    BY <1>1, <2>1, Goes, PlacesAre
  <2>3. /\ TypeInv' /\ record'[c].status = "QUEUED" /\ record'[c].charged = record[c].charged
        /\ \A d \in Call : d # c => record'[d] = record[d]
    BY ZenonT(90), <1>1, <2>1, <2>2 DEF TypeInv, RecordStatus
  <2>4. CallInv(c)' BY <1>1, <2>2, <2>3 DEF CallInv, Charged, HoldOf, Paid
  <2>5. call'[c].pc \notin Ended BY <2>2 DEF Ended
  <2> QED BY <1>1, <1>2, <1>4, <2>2, <2>3, <2>4, <2>5, QuietStep
<1> QED BY <1>3, <1>4

\* The row is set to PROCESSING.
LEMMA StartProcessingKeeps == ASSUME Inv, NEW c \in Call, StartProcessing(c) PROVE Inv'
<1>1. TypeInv /\ CallInv(c) /\ call[c].pc = "start" /\ UNCHANGED book
  BY DEF Inv, StartProcessing
<1>2. record' = [record EXCEPT ![c].status = "PROCESSING"] /\ Go(c, "execute")
  BY DEF StartProcessing
<1>3. /\ call'[c].pc = "execute" /\ call'[c].hold = call[c].hold
      /\ call'[c].cost = call[c].cost /\ call'[c].left = call[c].left
      /\ call' \in [Call -> [pc : Places, hold : Nat, cost : Nat, left : BOOLEAN]]
      /\ \A d \in Call : d # c => call'[d] = call[d]
  BY <1>1, <1>2, Goes, PlacesAre
<1>4. /\ TypeInv' /\ record'[c].status = "PROCESSING" /\ record'[c].charged = record[c].charged
      /\ \A d \in Call : d # c => record'[d] = record[d]
  BY <1>1, <1>2, <1>3 DEF TypeInv, RecordStatus
<1>5. CallInv(c)' BY <1>1, <1>3, <1>4 DEF CallInv, Charged, HoldOf, Paid
<1>6. call'[c].pc \notin Ended /\ record[c].status # "NONE" BY <1>1, <1>3 DEF Ended, CallInv
<1>7. \A i \in DOMAIN book.reservations :
        Carries(c, i) /\ book.reservations[i].status = "CAPTURED" => Carries(c, i)'
  BY <1>1, CarriersAreLate
<1> QED BY <1>1, <1>3, <1>4, <1>5, <1>6, <1>7, QuietStep

\* The provider answers, at some cost.
LEMMA ProviderAnswersKeeps == ASSUME Inv, NEW c \in Call, ProviderAnswers(c) PROVE Inv'
<1>1. TypeInv /\ CallInv(c) /\ call[c].pc = "execute" /\ UNCHANGED <<book, record>>
  BY DEF Inv, ProviderAnswers
<1>2. PICK cost \in Cost :
        call' = [call EXCEPT ![c].pc = IF Charged(c) THEN "capture" ELSE "complete",
                             ![c].cost = IF Charged(c) THEN cost ELSE 0]
  BY DEF ProviderAnswers
<1>3. cost \in Nat /\ cost # 0 BY CostAssumption, MaxAmountAssumption
<1>4. /\ TypeInv' /\ call'[c].hold = call[c].hold /\ call'[c].left = call[c].left
      /\ \A d \in Call : d # c => call'[d] = call[d]
      /\ Charged(c) => call'[c].pc = "capture" /\ call'[c].cost = cost
      /\ ~Charged(c) => call'[c].pc = "complete" /\ call'[c].cost = 0
  BY ZenonT(90), <1>1, <1>2, <1>3, PlacesAre DEF TypeInv
<1>5. CallInv(c)' BY <1>1, <1>3, <1>4 DEF CallInv, Charged, HoldOf, Paid
<1>6. call'[c].pc \notin Ended BY <1>4 DEF Ended
<1>7. \A i \in DOMAIN book.reservations :
        Carries(c, i) /\ book.reservations[i].status = "CAPTURED" => Carries(c, i)'
  BY <1>1, CarriersAreLate
<1> QED BY <1>1, <1>4, <1>5, <1>6, <1>7, QuietStep

\* The provider fails, and a charged call goes on to release its hold.
LEMMA ProviderFailsKeeps == ASSUME Inv, NEW c \in Call, ProviderFails(c) PROVE Inv'
<1>1. TypeInv /\ CallInv(c) /\ call[c].pc = "execute" /\ UNCHANGED <<book, record>>
  BY DEF Inv, ProviderFails
<1>2. PICK pc \in {"release", "fail"} : Go(c, pc) /\ (pc = "release" <=> Charged(c))
  BY DEF ProviderFails
<1>3. /\ TypeInv' /\ call'[c].pc = pc /\ call'[c].hold = call[c].hold
      /\ call'[c].cost = call[c].cost /\ call'[c].left = call[c].left
      /\ \A d \in Call : d # c => call'[d] = call[d]
  BY <1>1, <1>2, Goes, PlacesAre DEF TypeInv
<1>4. CallInv(c)' BY <1>1, <1>2, <1>3 DEF CallInv, Charged, HoldOf, Paid
<1>5. call'[c].pc \notin Ended BY <1>3 DEF Ended
<1>6. \A i \in DOMAIN book.reservations :
        Carries(c, i) /\ book.reservations[i].status = "CAPTURED" => Carries(c, i)'
  BY <1>1, CarriersAreLate
<1> QED BY <1>1, <1>3, <1>4, <1>5, <1>6, QuietStep

\* A row with the key of a call's hold tells how the hold was settled.
LEMMA RowsTellHolds ==
  ASSUME Inv, NEW c \in Call, Charged(c)
  PROVE  /\ CapturedBefore(c) => HoldOf(c).status = "CAPTURED"
         /\ ReleasedBefore(c) => HoldOf(c).status # "ACTIVE"
<1>1. /\ call[c].hold \in DOMAIN book.reservations /\ HoldOf(c).idempotencyKey = KeyOf[c]
      /\ KeyOf[c] \in Key
  BY CallAssumption DEF Inv, CallInv
<1>2. RowsTell(book) /\ KeysOnce(book) BY DEF Inv, BookOk
<1>3. ASSUME CapturedBefore(c) PROVE HoldOf(c).status = "CAPTURED"
  <2>1. PICK id \in DOMAIN book.reservations :
          /\ book.reservations[id].idempotencyKey = KeyOf[c]
          /\ book.reservations[id].status = "CAPTURED"
    BY <1>1, <1>2, <1>3 DEF RowsTell, CapturedBefore
  <2> QED BY <1>1, <1>2, <2>1 DEF KeysOnce, HoldOf
<1>4. ASSUME ReleasedBefore(c) PROVE HoldOf(c).status # "ACTIVE"
  <2>1. PICK id \in DOMAIN book.reservations :
          /\ book.reservations[id].idempotencyKey = KeyOf[c]
          /\ book.reservations[id].status # "ACTIVE"
    BY <1>1, <1>2, <1>4 DEF RowsTell, ReleasedBefore
  <2> QED BY <1>1, <1>2, <2>1 DEF KeysOnce, HoldOf
<1> QED BY <1>3, <1>4

\* A capture that was already made is reported again.
LEMMA CaptureAgainKeeps == ASSUME Inv, NEW c \in Call, CaptureAgain(c) PROVE Inv'
<1>1. TypeInv /\ CallInv(c) /\ call[c].pc = "capture" /\ UNCHANGED <<book, record>>
  BY DEF Inv, CaptureAgain
<1>2. Charged(c) BY <1>1 DEF CallInv
<1>3. /\ TypeInv' /\ call'[c].pc = "complete" /\ call'[c].hold = call[c].hold
      /\ call'[c].cost = call[c].cost /\ call'[c].left = call[c].left
      /\ \A d \in Call : d # c => call'[d] = call[d]
  BY <1>1, Goes, PlacesAre DEF TypeInv, CaptureAgain
<1>4. HoldOf(c).status = "CAPTURED" /\ HoldOf(c).capturedAmount = call[c].cost
  BY <1>2, RowsTellHolds DEF CaptureAgain, SameCapture, HoldOf
<1>5. CallInv(c)' BY <1>1, <1>2, <1>3, <1>4 DEF CallInv, Charged, HoldOf, Paid
<1>6. call'[c].pc \notin Ended BY <1>3 DEF Ended
<1>7. \A i \in DOMAIN book.reservations :
        Carries(c, i) /\ book.reservations[i].status = "CAPTURED" => Carries(c, i)'
  BY <1>1, CarriersAreLate
<1>8. record'[c].status # "NONE" => record[c].status # "NONE" BY <1>1
<1>9. \A d \in Call : d # c => call'[d] = call[d] /\ record'[d] = record[d] BY <1>1, <1>3
<1> QED BY <1>1, <1>3, <1>5, <1>6, <1>7, <1>8, <1>9, QuietStep

\* A capture that throws leaves the book as it is.
LEMMA CaptureThrowsKeeps == ASSUME Inv, NEW c \in Call, CaptureThrows(c) PROVE Inv'
<1>1. TypeInv /\ CallInv(c) /\ call[c].pc = "capture" /\ UNCHANGED <<book, record>>
  BY DEF Inv, CaptureThrows
<1>2. /\ TypeInv' /\ call'[c].pc = "captureFailed" /\ call'[c].hold = call[c].hold
      /\ call'[c].cost = call[c].cost /\ call'[c].left = call[c].left
      /\ \A d \in Call : d # c => call'[d] = call[d]
  BY <1>1, Goes, PlacesAre DEF TypeInv, CaptureThrows
<1>3. CallInv(c)' BY <1>1, <1>2 DEF CallInv, Charged, HoldOf, Paid
<1>4. call'[c].pc \notin Ended BY <1>2 DEF Ended
<1>5. \A i \in DOMAIN book.reservations :
        Carries(c, i) /\ book.reservations[i].status = "CAPTURED" => Carries(c, i)'
  BY <1>1, CarriersAreLate
<1> QED BY <1>1, <1>2, <1>3, <1>4, <1>5, QuietStep

\* A row marked FAILED keeps its charge.
LEMMA Fails ==
  ASSUME TypeInv, NEW c \in Call, NEW code \in ErrorCodes,
         record' = [record EXCEPT ![c].status = "FAILED", ![c].errorCode = code]
  PROVE  /\ record' \in [Call -> [status : RecordStatus, errorCode : ErrorCodes, charged : Nat]]
         /\ record'[c].status = "FAILED" /\ record'[c].charged = record[c].charged
         /\ \A d \in Call : d # c => record'[d] = record[d]
<1> DEFINE r == [record[c] EXCEPT !.status = "FAILED", !.errorCode = code]
<1>1. record \in [Call -> [status : RecordStatus, errorCode : ErrorCodes, charged : Nat]]
  BY DEF TypeInv
<1>2. /\ r \in [status : RecordStatus, errorCode : ErrorCodes, charged : Nat]
      /\ r.status = "FAILED" /\ r.charged = record[c].charged
  BY <1>1 DEF RecordStatus
<1>3. record' = [record EXCEPT ![c] = r] OBVIOUS
<1> HIDE DEF r
<1> QED BY <1>1, <1>2, <1>3

\* The row says that the capture failed, and the hold is left.
LEMMA RecordCaptureFailedKeeps ==
  ASSUME Inv, NEW c \in Call, RecordCaptureFailed(c) PROVE Inv'
<1>1. TypeInv /\ CallInv(c) /\ call[c].pc = "captureFailed" /\ UNCHANGED book
  BY DEF Inv, RecordCaptureFailed
<1>2. record' = [record EXCEPT ![c].status = "FAILED",
                               ![c].errorCode = "CREDIT_CAPTURE_FAILED"]
  BY DEF RecordCaptureFailed
<1>3. /\ call' \in [Call -> [pc : Places, hold : Nat, cost : Nat, left : BOOLEAN]]
      /\ call'[c].pc = "fail" /\ call'[c].left = TRUE
      /\ call'[c].hold = call[c].hold /\ call'[c].cost = call[c].cost
      /\ \A d \in Call : d # c => call'[d] = call[d]
  <2>1. call' = [call EXCEPT ![c].pc = "fail", ![c].left = TRUE] BY DEF RecordCaptureFailed
  <2> QED BY ZenonT(90), <1>1, <2>1, PlacesAre DEF TypeInv
<1>4. /\ TypeInv' /\ record'[c].status = "FAILED" /\ record'[c].charged = record[c].charged
      /\ \A d \in Call : d # c => record'[d] = record[d]
  BY <1>1, <1>2, <1>3, Fails DEF TypeInv, ErrorCodes
<1>5. CallInv(c)' BY <1>1, <1>3, <1>4 DEF CallInv, Charged, HoldOf, Paid
<1>6. record[c].status # "NONE" BY <1>1 DEF CallInv
<1>7. \A i \in DOMAIN book.reservations :
        Carries(c, i) /\ book.reservations[i].status = "CAPTURED" => Carries(c, i)'
  BY <1>1, CarriersAreLate
<1> QED BY <1>1, <1>3, <1>4, <1>5, <1>6, <1>7, QuietStep

\* The write of that row fails, and the call goes on to release its hold.
LEMMA RecordCaptureThrowsKeeps ==
  ASSUME Inv, NEW c \in Call, RecordCaptureThrows(c) PROVE Inv'
<1>1. TypeInv /\ CallInv(c) /\ call[c].pc = "captureFailed" /\ UNCHANGED <<book, record>>
  BY DEF Inv, RecordCaptureThrows
<1>2. /\ TypeInv' /\ call'[c].pc = "release" /\ call'[c].hold = call[c].hold
      /\ call'[c].cost = call[c].cost /\ call'[c].left = call[c].left
      /\ \A d \in Call : d # c => call'[d] = call[d]
  BY <1>1, Goes, PlacesAre DEF TypeInv, RecordCaptureThrows
<1>3. CallInv(c)' BY <1>1, <1>2 DEF CallInv, Charged, HoldOf, Paid
<1>4. call'[c].pc \notin Ended BY <1>2 DEF Ended
<1>5. \A i \in DOMAIN book.reservations :
        Carries(c, i) /\ book.reservations[i].status = "CAPTURED" => Carries(c, i)'
  BY <1>1, CarriersAreLate
<1> QED BY <1>1, <1>2, <1>3, <1>4, <1>5, QuietStep

\* The outer catch sets the row to FAILED.
LEMMA RecordFailedKeeps == ASSUME Inv, NEW c \in Call, RecordFailed(c) PROVE Inv'
<1>1. TypeInv /\ CallInv(c) /\ call[c].pc = "fail" /\ UNCHANGED book
  BY DEF Inv, RecordFailed
<1>2. /\ record' = [record EXCEPT ![c].status = "FAILED", ![c].errorCode = "PROVIDER_ERROR"]
      /\ Go(c, "done")
  BY DEF RecordFailed
<1>3. /\ call' \in [Call -> [pc : Places, hold : Nat, cost : Nat, left : BOOLEAN]]
      /\ call'[c].pc = "done" /\ call'[c].left = call[c].left
      /\ call'[c].hold = call[c].hold /\ call'[c].cost = call[c].cost
      /\ \A d \in Call : d # c => call'[d] = call[d]
  BY <1>1, <1>2, Goes, PlacesAre
<1>4. /\ TypeInv' /\ record'[c].status = "FAILED" /\ record'[c].charged = record[c].charged
      /\ \A d \in Call : d # c => record'[d] = record[d]
  BY <1>1, <1>2, <1>3, Fails DEF TypeInv, ErrorCodes
<1>5. CallInv(c)' BY <1>1, <1>3, <1>4 DEF CallInv, Charged, HoldOf, Paid
<1>6. record[c].status # "NONE" BY <1>1 DEF CallInv
<1>7. \A i \in DOMAIN book.reservations :
        Carries(c, i) /\ book.reservations[i].status = "CAPTURED" => Carries(c, i)'
  BY <1>1, CarriersAreLate
<1>8. Charged(c) /\ HoldOf(c).status = "ACTIVE" => call[c].left BY <1>1 DEF CallInv
<1> QED BY <1>1, <1>3, <1>4, <1>5, <1>6, <1>7, <1>8, QuietStep

\* A release that was already made changes nothing.
LEMMA ReleaseAgainKeeps == ASSUME Inv, NEW c \in Call, ReleaseAgain(c) PROVE Inv'
<1>1. TypeInv /\ CallInv(c) /\ call[c].pc = "release" /\ UNCHANGED <<book, record>>
  BY DEF Inv, ReleaseAgain
<1>2. Charged(c) /\ HoldOf(c).status # "ACTIVE"
  BY <1>1, RowsTellHolds DEF CallInv, ReleaseAgain
<1>3. /\ TypeInv' /\ call'[c].pc = "fail" /\ call'[c].hold = call[c].hold
      /\ call'[c].cost = call[c].cost /\ call'[c].left = call[c].left
      /\ \A d \in Call : d # c => call'[d] = call[d]
  BY <1>1, Goes, PlacesAre DEF TypeInv, ReleaseAgain
<1>4. CallInv(c)' BY <1>1, <1>2, <1>3 DEF CallInv, Charged, HoldOf, Paid
<1>5. \A i \in DOMAIN book.reservations :
        Carries(c, i) /\ book.reservations[i].status = "CAPTURED" => Carries(c, i)'
  BY <1>1, CarriersAreLate
<1> QED BY <1>1, <1>2, <1>3, <1>4, <1>5, QuietStep

\* A release that throws leaves the hold to the sweep.
LEMMA ReleaseThrowsKeeps == ASSUME Inv, NEW c \in Call, ReleaseThrows(c) PROVE Inv'
<1>1. TypeInv /\ CallInv(c) /\ call[c].pc = "release" /\ UNCHANGED <<book, record>>
  BY DEF Inv, ReleaseThrows
<1>2. /\ TypeInv' /\ call'[c].pc = "fail" /\ call'[c].left = TRUE
      /\ call'[c].hold = call[c].hold /\ call'[c].cost = call[c].cost
      /\ \A d \in Call : d # c => call'[d] = call[d]
  <2>1. call' = [call EXCEPT ![c].pc = "fail", ![c].left = TRUE] BY DEF ReleaseThrows
  <2> QED BY ZenonT(90), <1>1, <2>1, PlacesAre DEF TypeInv
<1>3. CallInv(c)' BY <1>1, <1>2 DEF CallInv, Charged, HoldOf, Paid
<1>4. \A i \in DOMAIN book.reservations :
        Carries(c, i) /\ book.reservations[i].status = "CAPTURED" => Carries(c, i)'
  BY <1>1, CarriersAreLate
<1> QED BY <1>1, <1>2, <1>3, <1>4, QuietStep

\* The row is set to COMPLETED, with the cost of the call.
LEMMA CompleteKeeps == ASSUME Inv, NEW c \in Call, Complete(c) PROVE Inv'
<1>1. TypeInv /\ CallInv(c) /\ call[c].pc = "complete" /\ UNCHANGED book
  BY DEF Inv, Complete
<1>2. record' = [record EXCEPT ![c].status = "COMPLETED", ![c].charged = call[c].cost]
  BY DEF Complete
<1>3. /\ call' \in [Call -> [pc : Places, hold : Nat, cost : Nat, left : BOOLEAN]]
      /\ call'[c].pc = "done" /\ call'[c].left = call[c].left
      /\ call'[c].hold = call[c].hold /\ call'[c].cost = call[c].cost
      /\ \A d \in Call : d # c => call'[d] = call[d]
  BY <1>1, Goes, PlacesAre DEF Complete
<1>4. /\ TypeInv' /\ record'[c].status = "COMPLETED" /\ record'[c].charged = call[c].cost
      /\ \A d \in Call : d # c => record'[d] = record[d]
  <2>1. call[c].cost \in Nat BY <1>1 DEF TypeInv
  <2> QED BY ZenonT(90), <1>1, <1>2, <1>3, <2>1 DEF TypeInv, RecordStatus
<1>5. Paid(c) BY <1>1 DEF CallInv
<1>6. CallInv(c)' BY <1>1, <1>3, <1>4, <1>5 DEF CallInv, Charged, HoldOf, Paid
<1>7. record[c].status # "NONE" BY <1>1 DEF CallInv
<1>8. \A i \in DOMAIN book.reservations :
        Carries(c, i) /\ book.reservations[i].status = "CAPTURED" => Carries(c, i)'
  <2> SUFFICES ASSUME NEW i \in DOMAIN book.reservations, Carries(c, i),
                      book.reservations[i].status = "CAPTURED"
               PROVE  Carries(c, i)'
    OBVIOUS
  <2>1. Charged(c) BY CarriersAreLate
  <2> QED BY <1>1, <1>3, <1>4, <1>5, <2>1 DEF Carries, Paid, HoldOf, Charged
<1>9. Charged(c) => HoldOf(c).status # "ACTIVE" BY <1>5 DEF Paid, Charged
<1> QED BY <1>1, <1>3, <1>4, <1>6, <1>7, <1>8, <1>9, QuietStep

\* The process dies between two steps of a call.
LEMMA DieKeeps == ASSUME Inv, NEW c \in Call, Die(c) PROVE Inv'
<1>1. TypeInv /\ CallInv(c) /\ call[c].pc \notin Ended /\ UNCHANGED <<book, record>>
  BY DEF Inv, Die
<1> DEFINE kept == IF call[c].pc = "complete" THEN call[c].cost ELSE 0
<1>2. call' = [call EXCEPT ![c].pc = "dead", ![c].left = TRUE, ![c].cost = kept]
  BY DEF Die
<1>3. kept \in Nat BY <1>1 DEF TypeInv
<1>4. (call[c].pc = "complete" => kept = call[c].cost)
      /\ (call[c].pc # "complete" => kept = 0)
  OBVIOUS
<1> HIDE DEF kept
<1>5. /\ TypeInv' /\ call'[c].pc = "dead" /\ call'[c].left = TRUE
      /\ call'[c].hold = call[c].hold /\ call'[c].cost = kept
      /\ \A d \in Call : d # c => call'[d] = call[d]
  BY <1>1, <1>2, <1>3, PlacesAre DEF TypeInv
<1>6. CallInv(c)' BY <1>1, <1>4, <1>5 DEF CallInv, Charged, HoldOf, Paid, Ended
<1>7. \A i \in DOMAIN book.reservations :
        Carries(c, i) /\ book.reservations[i].status = "CAPTURED" => Carries(c, i)'
  <2> SUFFICES ASSUME NEW i \in DOMAIN book.reservations, Carries(c, i),
                      book.reservations[i].status = "CAPTURED"
               PROVE  Carries(c, i)'
    OBVIOUS
  <2>1. call[c].pc = "complete" BY <1>1, CarriersAreLate DEF Ended
  <2> QED BY <1>1, <1>4, <1>5, <2>1 DEF Carries, HoldOf
<1> QED BY <1>1, <1>5, <1>6, <1>7, QuietStep

\* The user cancels a request that has not finished.
LEMMA CancelKeeps == ASSUME Inv, NEW c \in Call, Cancel(c) PROVE Inv'
<1>1. TypeInv /\ CallInv(c) /\ UNCHANGED <<book, call>> /\ record[c].status = "QUEUED"
  BY DEF Inv, Cancel
<1>2. /\ TypeInv' /\ record'[c].status = "CANCELLED" /\ record'[c].charged = record[c].charged
      /\ \A d \in Call : d # c => record'[d] = record[d]
  <2>1. record' = [record EXCEPT ![c].status = "CANCELLED"] BY DEF Cancel
  <2> QED BY <1>1, <2>1 DEF TypeInv, RecordStatus
<1>3. CallInv(c)' BY <1>1, <1>2 DEF CallInv, Charged, HoldOf, Paid
<1>4. \A i \in DOMAIN book.reservations : Carries(c, i) => Carries(c, i)'
  BY <1>1, <1>2 DEF Carries, HoldOf
<1> QED BY <1>1, <1>2, <1>3, <1>4, QuietStep

-----------------------------------------------------------------------------
(***************************************************************************)
(* Steps that move credits.                                                *)
(***************************************************************************)
LEMMA ReserveHoldKeeps == ASSUME Inv, NEW c \in Call, ReserveHold(c) PROVE Inv'
<1> DEFINE new == Len(book.reservations) + 1
<1>1. /\ TypeInv /\ CallInv(c) /\ call[c].pc = "reserve" /\ UNCHANGED record
      /\ BookOk(book) /\ ReserveOk(book, KeyOf[c], Estimate)
      /\ book' = Reserve(book, KeyOf[c], Estimate)
      /\ call' = [call EXCEPT ![c].pc = "create", ![c].hold = new]
  BY DEF Inv, ReserveHold
<1>2. KeyOf[c] \in Key /\ Estimate \in Nat \ {0}
  BY CallAssumption, CostAssumption, MaxAmountAssumption
<1>3. /\ BookOk(book') /\ Later(book, book') /\ new \in Nat \ {0}
      /\ DOMAIN book'.reservations = DOMAIN book.reservations \union {new}
      /\ book'.reservations[new].idempotencyKey = KeyOf[c]
      /\ book'.reservations[new].status = "ACTIVE"
      /\ \A j \in DOMAIN book.reservations :
           j # new /\ book'.reservations[j] = book.reservations[j]
  BY <1>1, <1>2, ReserveBook
<1> HIDE DEF new
<1>4. /\ TypeInv' /\ call'[c].pc = "create" /\ call'[c].hold = new
      /\ call'[c].left = call[c].left /\ call'[c].cost = call[c].cost
      /\ \A d \in Call : d # c => call'[d] = call[d]
  <2>1. call' = [call EXCEPT ![c].pc = "create", ![c].hold = new] BY <1>1
  <2>2. TypeInv /\ UNCHANGED record /\ new \in Nat BY <1>1, <1>3
  <2>3. {"entries", "reservations"} \subseteq DOMAIN book' BY <1>1 DEF Reserve, Updated
  <2> QED BY ZenonT(90), <2>1, <2>2, <2>3, PlacesAre DEF TypeInv
<1>5. CallInv(c)' BY <1>1, <1>3, <1>4 DEF CallInv, Charged, HoldOf, Paid
<1>6. ASSUME NEW id \in DOMAIN book'.reservations, book'.reservations[id].status = "CAPTURED"
      PROVE  /\ id \in DOMAIN book.reservations /\ book.reservations[id].status = "CAPTURED"
             /\ ~Carries(c, id)
  BY <1>1, <1>3, <1>6, CarriersAreLate
<1>7. ASSUME NEW id \in DOMAIN book'.reservations, book'.reservations[id].status = "ACTIVE"
      PROVE  \/ Minds(c, id)'
             \/ /\ id \in DOMAIN book.reservations /\ book.reservations[id].status = "ACTIVE"
                /\ ~Minds(c, id)
  <2>1. CASE id = new BY <1>4, <2>1 DEF Minds, Ended
  <2>2. CASE id # new
    <3>1. id \in DOMAIN book.reservations /\ book.reservations[id].status = "ACTIVE"
      BY <1>3, <1>7, <2>2
    <3>2. id # 0 /\ call[c].hold = 0
      BY <1>1, <3>1, ReservationRow DEF CallInv, BookOk
    <3> QED BY <3>1, <3>2 DEF Minds
  <2> QED BY <2>1, <2>2
<1> QED BY <1>1, <1>3, <1>4, <1>5, <1>6, <1>7, StepKeeps

\* A capture charges the hold and releases the rest of it.
LEMMA CaptureHoldKeeps == ASSUME Inv, NEW c \in Call, CaptureHold(c) PROVE Inv'
<1> DEFINE h == call[c].hold
           n == call[c].cost
<1>1. /\ TypeInv /\ CallInv(c) /\ call[c].pc = "capture" /\ UNCHANGED record
      /\ BookOk(book) /\ CaptureFits(book, KeyOf[c], h, n)
      /\ book' = Capture(book, KeyOf[c], h, n) /\ Go(c, "complete")
  BY DEF Inv, CaptureHold, CaptureOk
<1>2. /\ KeyOf[c] \in Key /\ n \in Nat \ {0} /\ Charged(c)
      /\ book.reservations[h].idempotencyKey = KeyOf[c]
  BY <1>1, CallAssumption DEF CallInv, TypeInv, Charged, HoldOf
<1> HIDE DEF h, n
<1>3. /\ BookOk(book') /\ Later(book, book')
      /\ h \in DOMAIN book.reservations /\ book.reservations[h].status = "ACTIVE"
      /\ DOMAIN book'.reservations = DOMAIN book.reservations
      /\ book'.reservations[h].status = "CAPTURED"
      /\ book'.reservations[h].capturedAmount = n
      /\ \A j \in DOMAIN book.reservations : j # h =>
           book'.reservations[j] = book.reservations[j]
  BY <1>1, <1>2, CaptureBook
<1>4. /\ TypeInv' /\ call'[c].pc = "complete" /\ call'[c].hold = h
      /\ call'[c].left = call[c].left /\ call'[c].cost = n
      /\ \A d \in Call : d # c => call'[d] = call[d]
  <2>1. {"entries", "reservations"} \subseteq DOMAIN book' BY <1>1 DEF Capture, Updated
  <2>2. TypeInv /\ UNCHANGED record /\ Go(c, "complete") BY <1>1
  <2> QED BY <2>1, <2>2, Goes, PlacesAre DEF TypeInv, h, n
<1>5. book'.reservations[h].idempotencyKey = KeyOf[c] BY <1>2, <1>3 DEF Later
<1>6. CallInv(c)'
  <2>1. /\ record'[c].status \notin {"NONE", "FAILED"} /\ record'[c].charged = 0
        /\ call'[c].hold # 0
    BY <1>1, <1>2, <1>4 DEF CallInv, Charged, h
  <2> QED BY <1>3, <1>4, <1>5, <2>1 DEF CallInv, Charged, HoldOf, Paid
<1>7. ASSUME NEW id \in DOMAIN book'.reservations, book'.reservations[id].status = "CAPTURED"
      PROVE  \/ Carries(c, id)'
             \/ /\ id \in DOMAIN book.reservations /\ book.reservations[id].status = "CAPTURED"
                /\ ~Carries(c, id)
  <2>1. CASE id = h BY <1>3, <1>4, <2>1 DEF Carries, HoldOf
  <2>2. CASE id # h BY <1>1, <1>3, <1>7, <2>2, CarriersAreLate
  <2> QED BY <2>1, <2>2
<1>8. ASSUME NEW id \in DOMAIN book'.reservations, book'.reservations[id].status = "ACTIVE"
      PROVE  /\ id \in DOMAIN book.reservations /\ book.reservations[id].status = "ACTIVE"
             /\ ~Minds(c, id)
  BY <1>3, <1>8 DEF Minds, h
<1> QED BY <1>1, <1>3, <1>4, <1>6, <1>7, <1>8, StepKeeps

\* A release gives back a hold that is active.
LEMMA ReleaseHoldKeeps == ASSUME Inv, NEW c \in Call, ReleaseHold(c) PROVE Inv'
<1> DEFINE h == call[c].hold
<1>1. /\ TypeInv /\ CallInv(c) /\ call[c].pc = "release" /\ UNCHANGED record
      /\ BookOk(book) /\ ReleaseOk(book, KeyOf[c], h)
      /\ book' = Release(book, KeyOf[c], h) /\ Go(c, "fail")
  BY DEF Inv, ReleaseHold
<1>2. Charged(c) /\ book.reservations[h].idempotencyKey = KeyOf[c]
  BY <1>1 DEF CallInv, Charged, HoldOf
<1> HIDE DEF h
<1>3. /\ BookOk(book') /\ Later(book, book')
      /\ h \in DOMAIN book.reservations /\ book.reservations[h].status = "ACTIVE"
      /\ DOMAIN book'.reservations = DOMAIN book.reservations
      /\ book'.reservations[h].status = "RELEASED"
      /\ \A j \in DOMAIN book.reservations : j # h =>
           book'.reservations[j] = book.reservations[j]
  BY <1>1, <1>2, ReleaseBook
<1>4. /\ TypeInv' /\ call'[c].pc = "fail" /\ call'[c].hold = h
      /\ call'[c].left = call[c].left /\ call'[c].cost = call[c].cost
      /\ \A d \in Call : d # c => call'[d] = call[d]
  <2>1. {"entries", "reservations"} \subseteq DOMAIN book' BY <1>1 DEF Release, Updated
  <2>2. TypeInv /\ UNCHANGED record /\ Go(c, "fail") BY <1>1
  <2> QED BY <2>1, <2>2, Goes, PlacesAre DEF TypeInv, h
<1>5. book'.reservations[h].idempotencyKey = KeyOf[c] BY <1>2, <1>3 DEF Later
<1>6. CallInv(c)' BY <1>1, <1>3, <1>4, <1>5 DEF CallInv, Charged, HoldOf, Paid
<1>7. ASSUME NEW id \in DOMAIN book'.reservations, book'.reservations[id].status = "CAPTURED"
      PROVE  /\ id \in DOMAIN book.reservations /\ book.reservations[id].status = "CAPTURED"
             /\ ~Carries(c, id)
  BY <1>1, <1>3, <1>7, CarriersAreLate
<1>8. ASSUME NEW id \in DOMAIN book'.reservations, book'.reservations[id].status = "ACTIVE"
      PROVE  /\ id \in DOMAIN book.reservations /\ book.reservations[id].status = "ACTIVE"
             /\ ~Minds(c, id)
  BY <1>3, <1>8 DEF Minds, h
<1> QED BY <1>1, <1>3, <1>4, <1>6, <1>7, <1>8, StepKeeps

\* What happens to a hold without its calls: each stays as it is.
LEMMA ExpiryKeeps ==
  ASSUME Inv, BookOk(book'), Later(book, book'), UNCHANGED <<record, call>>,
         {"entries", "reservations"} \subseteq DOMAIN book',
         DOMAIN book'.reservations = DOMAIN book.reservations,
         \A id \in DOMAIN book.reservations :
           /\ book'.reservations[id].status = "CAPTURED"
                => book.reservations[id].status = "CAPTURED"
           /\ book'.reservations[id].status = "ACTIVE" => book.reservations[id].status = "ACTIVE"
  PROVE  Inv'
<1>1. TypeInv' BY DEF Inv, TypeInv
<1>2. \A d \in Call : CallInv(d)' BY OthersKeep
<1>3. Owned' BY DEF Inv, Owned
<1>4. Carried'
  <2> SUFFICES ASSUME NEW id \in DOMAIN book'.reservations,
                      book'.reservations[id].status = "CAPTURED"
               PROVE  \E d \in Call : Carries(d, id)'
    BY DEF Carried
  <2>1. id \in DOMAIN book.reservations /\ book.reservations[id].status = "CAPTURED" OBVIOUS
  <2>2. PICK d \in Call : Carries(d, id) BY <2>1 DEF Inv, Carried
  <2>3. book'.reservations[id].capturedAmount = book.reservations[id].capturedAmount
    BY <2>1 DEF Later
  <2> QED BY <2>2, <2>3 DEF Carries, HoldOf
<1>5. NoForgottenHold' BY DEF Inv, NoForgottenHold, IsActive
<1> QED BY <1>1, <1>2, <1>3, <1>4, <1>5 DEF Inv

\* A hold reaches its expiry.
LEMMA HoldExpiresKeeps ==
  ASSUME Inv, NEW id \in DOMAIN book.reservations, HoldExpires(id) PROVE Inv'
<1>1. /\ BookOk(book) /\ "reservations" \in DOMAIN book /\ "entries" \in DOMAIN book
      /\ book' = Overdue(book, id) /\ UNCHANGED <<record, call>>
  BY DEF Inv, TypeInv, HoldExpires
<1>2. /\ BookOk(book') /\ Later(book, book')
      /\ DOMAIN book'.reservations = DOMAIN book.reservations
      /\ \A j \in DOMAIN book.reservations :
           book'.reservations[j].status = book.reservations[j].status
  BY <1>1, OverdueBook
<1>3. {"entries", "reservations"} \subseteq DOMAIN book' BY <1>1 DEF Overdue
<1> QED BY <1>1, <1>2, <1>3, ExpiryKeeps

\* The sweep expires a hold that is past its expiry.
LEMMA SweepHoldKeeps ==
  ASSUME Inv, NEW id \in DOMAIN book.reservations, SweepHold(id) PROVE Inv'
<1>1. /\ BookOk(book) /\ ReleaseOk(book, ExpireKey(id), id)
      /\ book' = MarkExpired(Release(book, ExpireKey(id), id), id)
      /\ UNCHANGED <<record, call>>
  BY DEF Inv, SweepHold
<1>2. /\ BookOk(book') /\ Later(book, book')
      /\ DOMAIN book'.reservations = DOMAIN book.reservations
      /\ book'.reservations[id].status = "EXPIRED"
      /\ \A j \in DOMAIN book.reservations : j # id =>
           book'.reservations[j] = book.reservations[j]
  BY <1>1, SweepBook
<1>3. {"entries", "reservations"} \subseteq DOMAIN book'
  BY <1>1 DEF MarkExpired, Release, Updated
<1>4. ASSUME NEW j \in DOMAIN book.reservations
      PROVE  /\ book'.reservations[j].status = "CAPTURED" =>
                  book.reservations[j].status = "CAPTURED"
             /\ book'.reservations[j].status = "ACTIVE" => book.reservations[j].status = "ACTIVE"
  <2>1. CASE j = id BY <1>2, <2>1
  <2>2. CASE j # id BY <1>2, <2>2
  <2> QED BY <2>1, <2>2
<1> QED BY <1>1, <1>2, <1>3, <1>4, ExpiryKeeps

-----------------------------------------------------------------------------
(***************************************************************************)
(* The theorems.                                                           *)
(***************************************************************************)
\* The invariant holds when the user has his first credits and nothing else.
LEMMA InitInv == Init => Inv
<1> SUFFICES ASSUME Init PROVE Inv OBVIOUS
<1> DEFINE k == CHOOSE key \in Key : TRUE
           e == MutateEntry(NewBook, "ADMIN_GRANT", k, Balance)
<1>1. /\ book.reservations = << >> /\ book.entries = Append(<< >>, e)
      /\ {"entries", "reservations"} \subseteq DOMAIN book
  BY DEF Init, Mutate, Updated, NewBook
<1>2. e.type = "ADMIN_GRANT" BY DEF MutateEntry, Entry
<1> HIDE DEF e
<1>3. /\ \E S : book.entries \in Seq(S)
      /\ \A t, key : HasEntry(book, t, key) => e.type = t
  <2> DEFINE nothing == [entries |-> << >>]
  <2>1. nothing.entries = << >> OBVIOUS
  <2>2. nothing.entries \in Seq({}) BY <2>1
  <2>3. \A t, key : ~HasEntry(nothing, t, key) BY <2>1 DEF HasEntry
  <2> HIDE DEF nothing
  <2>4. \E S : nothing.entries \in Seq(S) BY <2>2
  <2>5. book.entries = Append(nothing.entries, e) BY <1>1, <2>1
  <2>6. /\ \E S : book.entries \in Seq(S)
        /\ \A t, key : HasEntry(book, t, key) <=>
             HasEntry(nothing, t, key) \/ (e.type = t /\ e.idempotencyKey = key)
    BY <2>4, <2>5, EntriesGrow
  <2> QED BY <2>3, <2>6
<1>4. BookOk(book)
  <2>1. book.reservations \in Seq(Reservation) /\ DOMAIN book.reservations = {} BY <1>1
  <2> QED BY <1>2, <1>3, <2>1 DEF BookOk, KeysOnce, RowsTell, PaidIfCaptured
<1>5. DOMAIN book.reservations = {} BY <1>1
<1>6. \A c \in Call : call[c] = NewCall /\ record[c] = NoRecord BY DEF Init
<1>7. TypeInv
  <2>1. NewCall \in [pc : Places, hold : Nat, cost : Nat, left : BOOLEAN]
    BY PlacesAre DEF NewCall
  <2>2. NoRecord \in [status : RecordStatus, errorCode : ErrorCodes, charged : Nat]
    BY DEF NoRecord, RecordStatus, ErrorCodes
  <2> QED BY <1>1, <2>1, <2>2 DEF Init, TypeInv
<1>8. \A c \in Call : CallInv(c)
  BY <1>6 DEF CallInv, NewCall, NoRecord, Charged
<1>9. Owned BY <1>6, CallAssumption DEF Owned, NoRecord
<1>10. Carried /\ NoForgottenHold BY <1>5 DEF Carried, NoForgottenHold
<1> QED BY <1>4, <1>7, <1>8, <1>9, <1>10 DEF Inv

\* Every step keeps it.
LEMMA StepInv == Inv /\ [Next]_vars => Inv'
<1> SUFFICES ASSUME Inv, [Next]_vars PROVE Inv' OBVIOUS
<1>1. ASSUME NEW c \in Call, Step(c) PROVE Inv'
  BY <1>1, LookupKeeps, ReserveHoldKeeps, ReserveAgainKeeps, ReserveInsufficientKeeps,
     CreateRecordKeeps, StartProcessingKeeps, ProviderAnswersKeeps, ProviderFailsKeeps,
     CaptureHoldKeeps, CaptureAgainKeeps, CaptureThrowsKeeps, RecordCaptureFailedKeeps,
     RecordCaptureThrowsKeeps, ReleaseHoldKeeps, ReleaseAgainKeeps, ReleaseThrowsKeeps,
     RecordFailedKeeps, CompleteKeeps DEF Step
<1>2. ASSUME NEW c \in Call, Die(c) \/ Cancel(c) PROVE Inv'
  BY <1>2, DieKeeps, CancelKeeps
<1>3. ASSUME NEW id \in DOMAIN book.reservations, HoldExpires(id) \/ SweepHold(id) PROVE Inv'
  BY <1>3, HoldExpiresKeeps, SweepHoldKeeps
<1>4. CASE UNCHANGED vars
  <2>1. UNCHANGED <<book, record, call>> BY <1>4 DEF vars
  <2>2. /\ BookOk(book') /\ Later(book, book') /\ {"entries", "reservations"} \subseteq DOMAIN book'
        /\ DOMAIN book'.reservations = DOMAIN book.reservations
    BY <2>1, LaterSame DEF Inv, TypeInv
  <2> QED BY <2>1, <2>2, ExpiryKeeps
<1> QED BY <1>1, <1>2, <1>3, <1>4 DEF Next

\* The inductive invariant holds in every state.
THEOREM RequestsInvariance == Spec => []Inv
<1> QED BY InitInv, StepInv, PTL DEF Spec

\* No path of the code forgets a hold.
THEOREM HoldsAreMinded == Spec => []NoForgottenHold
<1>1. Inv => NoForgottenHold BY DEF Inv
<1> QED BY <1>1, RequestsInvariance, PTL

\* A request with an Idempotency-Key that is FAILED was not charged.
THEOREM FailuresAreFree == Spec => []FailedIsFree
<1>1. ASSUME Inv PROVE FailedIsFree
  <2> SUFFICES ASSUME NEW c \in Keyed, record[c].status = "FAILED", Charged(c),
                      HoldOf(c).status = "CAPTURED"
               PROVE  FALSE
    BY DEF FailedIsFree, HoldOf
  <2>1. c \in Call /\ CallInv(c) /\ Carried /\ Owned BY <1>1, CallAssumption DEF Inv
  <2> DEFINE id == call[c].hold
  <2>2. /\ id \in DOMAIN book.reservations /\ book.reservations[id].idempotencyKey = KeyOf[c]
        /\ book.reservations[id].status = "CAPTURED"
    BY <2>1 DEF CallInv, HoldOf
  <2>3. PICK d \in Call : Carries(d, id) BY <2>1, <2>2 DEF Carried
  <2>4. CallInv(d) BY <1>1 DEF Inv
  <2>5. book.reservations[id].capturedAmount # 0
    BY <1>1, <2>2 DEF Inv, BookOk, PaidIfCaptured
  <2>6. Charged(d) /\ KeyOf[d] = KeyOf[c] BY <2>2, <2>3, <2>4 DEF Carries, CallInv, HoldOf, Charged
  <2>7. d \in Keyed BY <2>6, CallAssumption
  <2>8. record[d].status # "NONE" BY <2>3, <2>4, <2>5 DEF Carries, CallInv, HoldOf
  <2>9. d = c BY <2>1, <2>6, <2>7, <2>8 DEF Owned
  <2> QED BY <2>3, <2>4, <2>5, <2>9 DEF Carries, CallInv, HoldOf
<1> QED BY <1>1, RequestsInvariance, PTL

\* A key has one hold at most, and its charge is that hold's.
LEMMA CapturedOfOne ==
  ASSUME Inv, NEW k \in Key
  PROVE  /\ \A i \in DOMAIN book.reservations : book.reservations[i].idempotencyKey = k =>
              Captured(k) = book.reservations[i].capturedAmount
         /\ Captured(k) \in Nat
         /\ Captured(k) # 0 => \E i \in DOMAIN book.reservations :
              /\ book.reservations[i].idempotencyKey = k
              /\ book.reservations[i].status = "CAPTURED"
              /\ Captured(k) = book.reservations[i].capturedAmount
<1> DEFINE ids == {id \in DOMAIN book.reservations : book.reservations[id].idempotencyKey = k}
           f == CapturedAmounts(book.reservations)
<1>1. Captured(k) = SumFunctionOnSet(f, ids) BY DEF Captured
<1>2. \A i \in DOMAIN book.reservations :
        f[i] = book.reservations[i].capturedAmount /\ book.reservations[i].capturedAmount \in Nat
  BY ReservationRow DEF CapturedAmounts, Inv, BookOk
<1>3. ASSUME NEW i \in ids PROVE Captured(k) = book.reservations[i].capturedAmount
  <2>1. ids = {i} BY DEF Inv, BookOk, KeysOnce
  <2>2. IsFiniteSet({i}) BY FS_Singleton
  <2>3. f[i] \in Int BY <1>2
  <2> HIDE DEF f, ids
  <2>4. SumFunctionOnSet(f, {i}) = f[i] BY <2>2, <2>3, SumOnly
  <2>5. SumFunctionOnSet(f, ids) = f[i] BY <2>1, <2>4, Zenon
  <2> QED BY <1>1, <1>2, <2>5 DEF ids
<1>4. CASE ids = {}
  <2>1. SumFunctionOnSet(f, ids) = 0 BY <1>4, SumEmpty
  <2> QED BY <1>1, <1>4, <2>1
<1>5. CASE ids # {}
  <2>1. PICK i \in ids : TRUE BY <1>5
  <2>2. Captured(k) = book.reservations[i].capturedAmount BY <1>3
  <2>3. Captured(k) \in Nat BY <1>2, <2>2
  <2>4. Captured(k) # 0 => book.reservations[i].status = "CAPTURED"
    BY <2>2 DEF Inv, BookOk, PaidIfCaptured
  <2> QED BY <1>3, <2>2, <2>3, <2>4
<1> QED BY <1>4, <1>5

\* What the history and the calls on their way to it say of one key.
LEMMA Charges ==
  ASSUME Inv, NEW k \in Key
  PROVE  LET unrecorded == {c \in CallsOf(k) : call[c].pc \in {"complete", "dead"}}
         IN /\ IsFiniteSet(CallsOf(k)) /\ IsFiniteSet(unrecorded)
            /\ Recorded(k) \in Nat /\ Unrecorded(k) \in Nat
            /\ \A c \in CallsOf(k) : record[c].charged <= Recorded(k)
            /\ \A c \in unrecorded : call[c].cost <= Unrecorded(k)
            /\ (\A c \in CallsOf(k) : record[c].charged = 0) => Recorded(k) = 0
            /\ (\A c \in unrecorded : call[c].cost = 0) => Unrecorded(k) = 0
            /\ \A c \in CallsOf(k) :
                 (\A d \in CallsOf(k) : d # c => record[d].charged = 0) =>
                   Recorded(k) = record[c].charged
            /\ \A c \in unrecorded :
                 (\A d \in unrecorded : d # c => call[d].cost = 0) =>
                   Unrecorded(k) = call[c].cost
<1> DEFINE C == CallsOf(k)
           D == {c \in CallsOf(k) : call[c].pc \in {"complete", "dead"}}
           f == [c \in Call |-> record[c].charged]
           g == [c \in Call |-> call[c].cost]
<1>1. C \subseteq Call /\ D \subseteq C BY DEF CallsOf
<1>2. IsFiniteSet(C) /\ IsFiniteSet(D) BY <1>1, CallAssumption, FS_Subset
<1>3. \A c \in Call : f[c] = record[c].charged /\ g[c] = call[c].cost
  OBVIOUS
<1>4. \A c \in Call : record[c].charged \in Nat /\ call[c].cost \in Nat
  BY CallFields DEF Inv
<1>5. Recorded(k) = SumFunctionOnSet(f, C) /\ Unrecorded(k) = SumFunctionOnSet(g, D)
  BY DEF Recorded, Unrecorded
<1> HIDE DEF C, D, f, g
<1>6. /\ \A c \in C : f[c] = record[c].charged /\ f[c] \in Nat /\ f[c] \in Int
      /\ \A c \in D : g[c] = call[c].cost /\ g[c] \in Nat /\ g[c] \in Int
  BY <1>1, <1>3, <1>4
<1>7. /\ Recorded(k) \in Nat /\ \A c \in C : f[c] <= Recorded(k)
      /\ Unrecorded(k) \in Nat /\ \A c \in D : g[c] <= Unrecorded(k)
  BY <1>2, <1>5, <1>6, SumAtLeast
<1>8. (\A c \in C : f[c] = 0) => Recorded(k) = 0 BY <1>2, <1>5, SumZero
<1>9. (\A c \in D : g[c] = 0) => Unrecorded(k) = 0 BY <1>2, <1>5, SumZero
<1>10. \A c \in C : (\A d \in C : d # c => f[d] = 0) => Recorded(k) = f[c]
  BY <1>2, <1>5, <1>6, SumOnly
<1>11. \A c \in D : (\A d \in D : d # c => g[d] = 0) => Unrecorded(k) = g[c]
  BY <1>2, <1>5, <1>6, SumOnly
<1> QED BY <1>2, <1>6, <1>7, <1>8, <1>9, <1>10, <1>11 DEF C, D

\* What the hold of an Idempotency-Key paid is what the history shows, save what calls
\* captured that have yet to write it or died before; without one it is never more.
THEOREM ChargesAreRecorded == Spec => []ChargesRecorded
<1>1. ASSUME Inv PROVE ChargesRecorded
  <2> DEFINE D(k) == {c \in CallsOf(k) : call[c].pc \in {"complete", "dead"}}
  <2>1. ASSUME NEW k \in Key, Captured(k) # 0
        PROVE  \E c \in CallsOf(k) :
                 \/ c \in D(k) /\ call[c].cost = Captured(k)
                 \/ record[c].charged = Captured(k)
    <3>1. PICK i \in DOMAIN book.reservations :
            /\ book.reservations[i].idempotencyKey = k
            /\ book.reservations[i].status = "CAPTURED"
            /\ Captured(k) = book.reservations[i].capturedAmount
      BY <1>1, <2>1, CapturedOfOne
    <3>2. PICK c \in Call : Carries(c, i) BY <1>1, <3>1 DEF Inv, Carried
    <3>3. Charged(c) BY <1>1, <3>1, <3>2, CarriersAreLate
    <3>4. KeyOf[c] = k BY <1>1, <3>1, <3>2, <3>3 DEF Inv, CallInv, Carries, HoldOf
    <3> QED BY <3>1, <3>2, <3>4 DEF Carries, HoldOf, CallsOf
  <2>2. ASSUME NEW k \in Key PROVE Captured(k) <= Recorded(k) + Unrecorded(k)
    <3>1. Captured(k) \in Nat /\ Recorded(k) \in Nat /\ Unrecorded(k) \in Nat
      BY <1>1, CapturedOfOne, Charges
    <3>2. CASE Captured(k) = 0 BY <3>1, <3>2
    <3>3. CASE Captured(k) # 0
      <4>1. PICK c \in CallsOf(k) : \/ c \in D(k) /\ call[c].cost = Captured(k)
                                    \/ record[c].charged = Captured(k)
        BY <2>1, <3>3
      <4>2. Captured(k) <= Recorded(k) \/ Captured(k) <= Unrecorded(k)
        BY <1>1, <4>1, Charges
      <4> QED BY <3>1, <4>2
    <3> QED BY <3>2, <3>3
  <2>3. ASSUME NEW e \in Keyed PROVE Captured(KeyOf[e]) = Recorded(KeyOf[e]) + Unrecorded(KeyOf[e])
    <3> DEFINE k == KeyOf[e]
    <3>1. k \in Key /\ CallsOf(k) \subseteq Keyed /\ CallsOf(k) \subseteq Call
      BY CallAssumption DEF CallsOf
    <3>2. \A c \in CallsOf(k) : KeyOf[c] = k BY DEF CallsOf
    <3> HIDE DEF k
    <3>3. \A c \in CallsOf(k) : CallInv(c) BY <1>1, <3>1 DEF Inv
    <3>4. \A c \in CallsOf(k) : record[c].charged # 0 =>
            c \notin D(k) /\ record[c].status # "NONE" /\ record[c].charged = Captured(k)
      <4> SUFFICES ASSUME NEW c \in CallsOf(k), record[c].charged # 0
                   PROVE  /\ c \notin D(k) /\ record[c].status # "NONE"
                          /\ record[c].charged = Captured(k)
        OBVIOUS
      <4>1. /\ call[c].pc = "done" /\ record[c].status = "COMPLETED"
            /\ call[c].hold \in DOMAIN book.reservations
            /\ book.reservations[call[c].hold].idempotencyKey = k
            /\ book.reservations[call[c].hold].capturedAmount = record[c].charged
        BY <3>2, <3>3 DEF CallInv, HoldOf
      <4>2. Captured(k) = book.reservations[call[c].hold].capturedAmount
        BY <1>1, <3>1, <4>1, CapturedOfOne
      <4> QED BY <4>1, <4>2
    <3>5. \A c \in D(k) : call[c].cost # 0 =>
            record[c].status # "NONE" /\ call[c].cost = Captured(k)
      <4> SUFFICES ASSUME NEW c \in D(k), call[c].cost # 0
                   PROVE  record[c].status # "NONE" /\ call[c].cost = Captured(k)
        OBVIOUS
      <4>1. CallInv(c) /\ KeyOf[c] = k /\ call[c].pc \in {"complete", "dead"} BY <3>2, <3>3
      <4>2. record[c].status # "NONE" /\ Paid(c) BY <4>1 DEF CallInv
      <4>3. /\ call[c].hold \in DOMAIN book.reservations
            /\ book.reservations[call[c].hold].idempotencyKey = k
            /\ book.reservations[call[c].hold].capturedAmount = call[c].cost
        BY <4>1, <4>2 DEF CallInv, Paid, HoldOf, Charged
      <4>4. Captured(k) = book.reservations[call[c].hold].capturedAmount
        BY <1>1, <3>1, <4>3, CapturedOfOne
      <4> QED BY <4>2, <4>3, <4>4
    <3>6. \A c, d \in CallsOf(k) :
            record[c].status # "NONE" /\ record[d].status # "NONE" => c = d
      BY <1>1, <3>1, <3>2 DEF Inv, Owned
    <3>7. Captured(k) \in Nat BY <1>1, <3>1, CapturedOfOne
    <3>8. ASSUME NEW c \in CallsOf(k), record[c].charged # 0
          PROVE  Captured(k) = Recorded(k) + Unrecorded(k)
      <4>1. \A d \in CallsOf(k) : d # c => record[d].charged = 0 BY <3>4, <3>6, <3>8
      <4>2. \A d \in D(k) : call[d].cost = 0 BY <3>4, <3>5, <3>6, <3>8
      <4>3. Recorded(k) = record[c].charged /\ Unrecorded(k) = 0
        BY <1>1, <3>1, <4>1, <4>2, Charges
      <4> QED BY <3>4, <3>7, <3>8, <4>3
    <3>9. ASSUME NEW c \in D(k), call[c].cost # 0
          PROVE  Captured(k) = Recorded(k) + Unrecorded(k)
      <4>1. \A d \in D(k) : d # c => call[d].cost = 0 BY <3>5, <3>6, <3>9
      <4>2. \A d \in CallsOf(k) : record[d].charged = 0 BY <3>4, <3>5, <3>6, <3>9
      <4>3. Recorded(k) = 0 /\ Unrecorded(k) = call[c].cost
        BY <1>1, <3>1, <4>1, <4>2, Charges
      <4> QED BY <3>5, <3>7, <3>9, <4>3
    <3>10. ASSUME \A c \in CallsOf(k) : record[c].charged = 0,
                  \A c \in D(k) : call[c].cost = 0
           PROVE  Captured(k) = Recorded(k) + Unrecorded(k)
      <4>1. Recorded(k) = 0 /\ Unrecorded(k) = 0 BY <1>1, <3>1, <3>10, Charges
      <4>2. Captured(k) = 0 BY <2>1, <3>1, <3>10
      <4> QED BY <4>1, <4>2
    <3>11. Captured(k) = Recorded(k) + Unrecorded(k) BY <3>8, <3>9, <3>10
    <3> QED BY <3>11 DEF k
  <2> QED BY <2>2, <2>3 DEF ChargesRecorded
<1> QED BY <1>1, RequestsInvariance, PTL
=============================================================================
