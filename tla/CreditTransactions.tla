--------------------------- MODULE CreditTransactions ---------------------------
(***************************************************************************)
(* The transactions of CreditService as PostgreSQL runs them, under        *)
(* CreditLedger, where each is one step: serializable() opens one, the     *)
(* operation looks at its snapshot and returns an earlier answer, throws,  *)
(* or writes rows it computed from the snapshot, provided the account has  *)
(* still the version it had there; a conflict starts all over, three times *)
(* at most.                                                                *)
(*                                                                         *)
(* Statements that run alone (the query and the mark of a sweep, the reads *)
(* of a reconciliation and its conditional repair, which looks at nothing  *)
(* but the version) and the passing of time are the steps of CreditLedger. *)
(***************************************************************************)
EXTENDS CreditLedger

CONSTANTS
  Client,    \* requests that call the service, one operation at a time
  Movement,  \* bound: the operations without a reservation that clients ask for
  Attempts   \* how often serializable() tries

ASSUME MovementAssumption == Movement \subseteq Credits \union Debits
ASSUME AttemptsAssumption == Attempts \in Nat \ {0}
ASSUME ClientAssumption == Client \intersect Sweeper = {}

VARIABLE tx   \* the transaction of each client and of each sweep

transactionVars == <<book, sweep, rebuild, crashes, tx>>

Request(u, type, key, amount, id) ==
  [user |-> u, type |-> type, idempotencyKey |-> key, amount |-> amount, referenceId |-> id]

NoRequest == Request("none", "none", "none", 0, 0)
NoTransaction == [pc |-> "idle", op |-> NoRequest, attempt |-> 0, snapshot |-> NewBook]

TransactionsInit == Init /\ tx = [w \in Client \union Sweeper |-> NoTransaction]

-----------------------------------------------------------------------------
(***************************************************************************)
(* The operations, by the type of the row they write.                      *)
(***************************************************************************)
Delta(op) == IF op.type \in Debits THEN -op.amount ELSE op.amount

\* The lookups find nothing and no check throws; an expiry is compared with the clock.
Writes(b, op) ==
  LET key == op.idempotencyKey
      id == op.referenceId
  IN \/ op.type \in Credits \union Debits /\ MutateOk(b, op.type, key, Delta(op))
     \/ op.type = "RESERVATION" /\ ReserveOk(b, key, op.amount)
     \/ op.type = "RESERVATION_CAPTURE" /\ CaptureOk(b, key, id, op.amount)
     \/ op.type = "RESERVATION_RELEASE" /\ ReleaseOk(b, key, id)

\* The book the operation leaves behind when it runs on b.
Done(b, op) ==
  LET key == op.idempotencyKey
      id == op.referenceId
  IN CASE op.type = "RESERVATION" -> Reserve(b, key, op.amount)
       [] op.type = "RESERVATION_CAPTURE" -> Capture(b, key, id, op.amount)
       [] op.type = "RESERVATION_RELEASE" -> Release(b, key, id)
       [] OTHER -> Mutate(b, op.type, key, Delta(op))

\* A row of an earlier operation with the key, and with the same requestHash.
Answers(b, op) ==
  IF op.type = "RESERVATION"
  THEN \E id \in DOMAIN b.reservations :
         /\ b.reservations[id].idempotencyKey = op.idempotencyKey
         /\ b.reservations[id].amount = op.amount
  ELSE \E i \in DOMAIN b.entries :
         LET row == b.entries[i]
         IN /\ row.type = op.type /\ row.idempotencyKey = op.idempotencyKey
            /\ row.referenceId = op.referenceId
            /\ op.type \in Credits \union Debits => row.availableDelta = Delta(op)
            /\ op.type = "RESERVATION_CAPTURE" => row.reservedDelta = -op.amount

\* What the statements write: increments of the account and a reservation's new state go
\* to the rows as they are, new rows are what was computed from the snapshot s.
Written(b, s, op) ==
  LET then == Done(s, op)
      new == SubSeq(then.entries, Len(s.entries) + 1, Len(then.entries))
      id == op.referenceId
      settled == Settle(b, id, then.reservations[id].status, then.reservations[id].capturedAmount)
  IN [available |-> b.available + (then.available - s.available),
      reserved |-> b.reserved + (then.reserved - s.reserved),
      lifetimePurchased |-> b.lifetimePurchased + (then.lifetimePurchased - s.lifetimePurchased),
      lifetimeConsumed |-> b.lifetimeConsumed + (then.lifetimeConsumed - s.lifetimeConsumed),
      version |-> b.version + 1,
      entries |-> b.entries \o new,
      reservations |->
        IF op.type = "RESERVATION"
        THEN Append(b.reservations, then.reservations[Len(then.reservations)])
        ELSE IF op.type \in Holds THEN settled ELSE b.reservations]

-----------------------------------------------------------------------------
(***************************************************************************)
(* serializable().                                                         *)
(***************************************************************************)
Stage(w, pc) == tx[w].pc = pc
BookOf(w) == book[tx[w].op.user]

Submit(w, op) ==
  tx' = [tx EXCEPT ![w] = [pc |-> "begun", op |-> op, attempt |-> 1, snapshot |-> NewBook]]

\* The caller is told that it is done, or otherwise; an exception leaves nothing behind.
Ends(w, done) ==
  tx' = [tx EXCEPT ![w] =
    IF done THEN [NoTransaction EXCEPT !.pc = "done", !.op = tx[w].op] ELSE NoTransaction]

\* The reads of an attempt: the operation is going to write.
Look(w) ==
  /\ Stage(w, "begun")
  /\ Writes(BookOf(w), tx[w].op)
  /\ tx' = [tx EXCEPT ![w].pc = "open", ![w].snapshot = BookOf(w)]
  /\ UNCHANGED vars

CommitsSlip(w) ==
  LET u == tx[w].op.user
  IN /\ Stage(w, "open")
     /\ tx[w].op.type \in Movement \union {"RESERVATION"} => Room(u)
     /\ book' = [book EXCEPT ![u] = Written(@, tx[w].snapshot, tx[w].op)]

\* PostgreSQL lets nobody update an account row that changed after his snapshot.
Commits(w) ==
  LET u == tx[w].op.user
  IN /\ Stage(w, "open")
     /\ book[u].version = tx[w].snapshot.version
     /\ tx[w].op.type \in Movement \union {"RESERVATION"} => Room(u)
     /\ book' = [book EXCEPT ![u] = Written(@, tx[w].snapshot, tx[w].op)]

\* P2034 or P2002, which the database may answer whenever others are at work: once more.
Conflict(w) ==
  /\ Stage(w, "begun") \/ Stage(w, "open")
  /\ tx[w].attempt < Attempts
  /\ tx' = [tx EXCEPT ![w].pc = "begun", ![w].attempt = @ + 1, ![w].snapshot = NewBook]
  /\ UNCHANGED vars

-----------------------------------------------------------------------------
(***************************************************************************)
(* Clients.                                                                *)
(***************************************************************************)
Call(c, op) ==
  /\ ~Stage(c, "begun") /\ ~Stage(c, "open")
  /\ op.type = "RESERVATION_RELEASE" \/ ValidAmount(op.amount)
  /\ Submit(c, op)
  /\ UNCHANGED vars

AnswerSlip(c) ==
  /\ Stage(c, "begun")
  /\ ~Writes(BookOf(c), tx[c].op)
  /\ Ends(c, HasEntry(BookOf(c), tx[c].op.type, tx[c].op.idempotencyKey))
  /\ UNCHANGED vars

\* The answer of an earlier call, or an exception.
Answer(c) ==
  /\ Stage(c, "begun")
  /\ ~Writes(BookOf(c), tx[c].op)
  /\ Ends(c, Answers(BookOf(c), tx[c].op))
  /\ UNCHANGED vars

\* The caller is told, or never hears of it.
Commit(c) ==
  /\ Commits(c)
  /\ \E told \in BOOLEAN : Ends(c, told)
  /\ UNCHANGED <<sweep, rebuild, crashes>>

\* The last conflict, an error that is not retried, or the death of the process.
GiveUp(c) ==
  /\ Stage(c, "begun") \/ Stage(c, "open")
  /\ Ends(c, FALSE)
  /\ UNCHANGED vars

-----------------------------------------------------------------------------
(***************************************************************************)
(* The sweep's releaseReservation.                                         *)
(***************************************************************************)
SweepCalls(s) ==
  /\ sweep[s].pc = "release" /\ Stage(s, "idle")
  /\ \E h \in sweep[s].batch :
       Submit(s, Request(h.user, "RESERVATION_RELEASE", ExpireKey(h.id), 0, h.id))
  /\ UNCHANGED vars

\* The sweep's loop goes on to the mark.
GoesOn(s) ==
  LET hold == [user |-> tx[s].op.user, id |-> tx[s].op.referenceId]
  IN /\ sweep' = [sweep EXCEPT ![s] = [pc |-> "mark", batch |-> sweep[s].batch, hold |-> hold]]
     /\ tx' = [tx EXCEPT ![s] = NoTransaction]
     /\ UNCHANGED <<rebuild, crashes>>

SweepAnswered(s) ==
  /\ Stage(s, "begun")
  /\ Answers(BookOf(s), tx[s].op)
  /\ GoesOn(s)
  /\ UNCHANGED book

\* The exception ends the whole sweep.
SweepRefused(s) ==
  /\ Stage(s, "begun")
  /\ ~Writes(BookOf(s), tx[s].op) /\ ~Answers(BookOf(s), tx[s].op)
  /\ sweep' = [sweep EXCEPT ![s] = IdleSweep]
  /\ tx' = [tx EXCEPT ![s] = NoTransaction]
  /\ UNCHANGED <<book, rebuild, crashes>>

SweepCommits(s) == Commits(s) /\ GoesOn(s)

\* The last conflict ends the sweep as any other error of the database does.
SweepDies(s) == SweepCrash(s) /\ tx' = [tx EXCEPT ![s] = NoTransaction]

-----------------------------------------------------------------------------
ClientStep(c) ==
  \/ \E u \in User, key \in Key :
       \/ \E type \in Movement \union {"RESERVATION"}, amount \in Amount :
            Call(c, Request(u, type, key, amount, 0))
       \/ \E id \in DOMAIN book[u].reservations :
            \/ \E amount \in Amount : Call(c, Request(u, "RESERVATION_CAPTURE", key, amount, id))
            \/ Call(c, Request(u, "RESERVATION_RELEASE", key, 0, id))
  \/ Answer(c) \/ Commit(c) \/ GiveUp(c)

SweeperStep(s) ==
  \/ SweepCalls(s) \/ SweepAnswered(s) \/ SweepRefused(s) \/ SweepCommits(s) \/ SweepDies(s)
  \/ (SweepFind(s) \/ SweepMark(s)) /\ UNCHANGED tx

TransactionsNext ==
  \/ \E w \in Client \union Sweeper : Look(w) \/ Conflict(w)
  \/ \E c \in Client : ClientStep(c)
  \/ \E s \in Sweeper : SweeperStep(s)
  \/ \E p \in Auditor : RebuildStep(p) /\ UNCHANGED tx
  \/ \E u \in User : \E id \in DOMAIN book[u].reservations : TtlElapses(u, id) /\ UNCHANGED tx

TransactionsSpec == TransactionsInit /\ [][TransactionsNext]_transactionVars

-----------------------------------------------------------------------------
(***************************************************************************)
(* Properties.                                                             *)
(***************************************************************************)
\* Whatever overlaps, is retried, fails or dies, every step of the transactions is the one
\* step CreditLedger takes for it, or none: credits behave as if each operation ran alone.
ImplementsLedger == Spec

\* What an operation looked at, but for the clock.
Agrees(s, b) ==
  /\ s.available = b.available /\ s.reserved = b.reserved
  /\ s.lifetimePurchased = b.lifetimePurchased /\ s.lifetimeConsumed = b.lifetimeConsumed
  /\ s.entries = b.entries
  /\ DOMAIN s.reservations = DOMAIN b.reservations
  /\ \A id \in DOMAIN s.reservations :
       LET then == s.reservations[id]
           now == b.reservations[id]
       IN /\ then.amount = now.amount /\ then.idempotencyKey = now.idempotencyKey
          /\ then.capturedAmount = now.capturedAmount
          /\ then.status = now.status \/ (then.status = "RELEASED" /\ now.status = "EXPIRED")

\* As long as the version an operation read is the account's, all it read is true: the one
\* number stands for balances, rows and reservations, although the sweep's mark and the
\* passing of time do not count it up.
VersionGuards ==
  \A w \in Client \union Sweeper :
    Stage(w, "open") /\ tx[w].snapshot.version = BookOf(w).version
      => Agrees(tx[w].snapshot, BookOf(w))

\* Who is told that it is done finds in the books what he asked for, his amount and his
\* reservation, though an attempt of his, an earlier call or somebody else's may have done
\* it, and whatever came after it.
AnsweredIsBooked == \A c \in Client : Stage(c, "done") => Answers(BookOf(c), tx[c].op)

\* What a transaction goes by is true: what it read as long as the version stands, what it
\* answered for ever.
HeldIsTrue == VersionGuards /\ AnsweredIsBooked
=============================================================================
