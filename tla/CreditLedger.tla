------------------------------ MODULE CreditLedger ------------------------------
(***************************************************************************)
(* CreditService with each serializable database transaction as one step:  *)
(* grants, deductions, reservations and their settlement, next to the      *)
(* operations the service does not run in one transaction:                 *)
(*   - expireReservations, run by maintenance/retention.ts: one query, then*)
(*     for each hold a release transaction and a separate update;          *)
(*   - rebuildBalanceFromLedger: the account is read, the ledger summed    *)
(*     and the account repaired in three separate statements.              *)
(* Calls that throw or return an earlier result write nothing and are not  *)
(* steps.                                                                  *)
(***************************************************************************)
EXTENDS CreditBook, FiniteSets

CONSTANTS
  User,        \* owners of credit accounts
  Amount,      \* amounts callers ask for, unusable ones included
  Sweeper,     \* processes running the retention job
  BatchSize,   \* the sweep's `take: 1000`
  Auditor,     \* calls of rebuildBalanceFromLedger
  MaxEntries,  \* bound: no new operation once a ledger has this many entries
  MaxCrashes   \* bound: sweeps that die half way

ASSUME AmountAssumption == Amount \subseteq Int
ASSUME BatchSizeAssumption == BatchSize \in Nat \ {0}

VARIABLES
  book,     \* the rows of each user
  sweep,    \* the progress of each sweep
  rebuild,  \* the progress of each call of rebuildBalanceFromLedger
  crashes

vars == <<book, sweep, rebuild, crashes>>

NoHold == [user |-> "none", id |-> 0]
IdleSweep == [pc |-> "idle", batch |-> {}, hold |-> NoHold]
IdleRebuild == [pc |-> "idle", user |-> "none", version |-> 0, available |-> 0,
                reserved |-> 0, calculatedAvailable |-> 0, calculatedReserved |-> 0]

Init ==
  /\ book = [u \in User |-> NewBook]
  /\ sweep = [s \in Sweeper |-> IdleSweep]
  /\ rebuild = [p \in Auditor |-> IdleRebuild]
  /\ crashes = 0

Room(u) == Len(book[u].entries) < MaxEntries

SetBook(u, b) ==
  /\ book' = [book EXCEPT ![u] = b]
  /\ UNCHANGED <<sweep, rebuild, crashes>>

-----------------------------------------------------------------------------
(***************************************************************************)
(* Operations on the available balance, all through mutate.                *)
(***************************************************************************)
MutateBook(u, type, key, amount, delta) ==
  /\ ValidAmount(amount)
  /\ MutateOk(book[u], type, key, delta)
  /\ Room(u)
  /\ SetBook(u, Mutate(book[u], type, key, delta))

GrantCredits(u, key, amount, purchase) ==
  MutateBook(u, IF purchase THEN "PURCHASE" ELSE "ADMIN_GRANT", key, amount, amount)

GrantPromotionCredits(u, key, amount) == MutateBook(u, "PROMOTION", key, amount, amount)

RefundCredits(u, key, amount) == MutateBook(u, "REFUND", key, amount, amount)

DeductCredits(u, key, amount) == MutateBook(u, "ADMIN_DEDUCTION", key, amount, -amount)

ConsumeCredits(u, key, amount) == MutateBook(u, "CONSUMPTION", key, amount, -amount)

(***************************************************************************)
(* Operations on reservations.                                             *)
(***************************************************************************)
ReserveCredits(u, key, amount) ==
  /\ ValidAmount(amount)
  /\ ReserveOk(book[u], key, amount)
  /\ Room(u)
  /\ SetBook(u, Reserve(book[u], key, amount))

\* The clock is read before the commit: a hold may have passed its TTL, and a sweep have
\* found it, by the time its capture commits (CreditTransactions has both moments).
CaptureReservation(u, key, id, amount) ==
  /\ ValidAmount(amount)
  /\ CaptureFits(book[u], key, id, amount)
  /\ SetBook(u, Capture(book[u], key, id, amount))

ReleaseReservation(u, key, id) ==
  /\ ReleaseOk(book[u], key, id)
  /\ SetBook(u, Release(book[u], key, id))

TtlElapses(u, id) ==
  /\ IsActive(book[u], id)
  /\ ~book[u].reservations[id].expired
  /\ SetBook(u, Overdue(book[u], id))

-----------------------------------------------------------------------------
(***************************************************************************)
(* expireReservations.                                                     *)
(***************************************************************************)
ExpiredHoldsSlip ==
  {h \in [user : User, id : 1..MaxEntries] :
     /\ h.id \in DOMAIN book[h.user].reservations
     /\ book[h.user].reservations[h.id].expired}

ExpiredHolds ==
  {h \in [user : User, id : 1..MaxEntries] :
     IsActive(book[h.user], h.id) /\ book[h.user].reservations[h.id].expired}

\* The query: at most BatchSize expired holds, in no particular order.
SweepFind(s) ==
  /\ sweep[s].pc = "idle"
  /\ \E batch \in SUBSET ExpiredHolds \ {{}} :
       /\ Cardinality(batch) <= BatchSize
       /\ batch # ExpiredHolds => Cardinality(batch) = BatchSize
       /\ sweep' = [sweep EXCEPT ![s] = [pc |-> "release", batch |-> batch, hold |-> NoHold]]
  /\ UNCHANGED <<book, rebuild, crashes>>

SweepReleaseSlip(s) ==
  /\ sweep[s].pc = "release"
  /\ \E h \in sweep[s].batch :
       /\ IF ReleaseOk(book[h.user], ExpireKey(h.id), h.id)
          THEN book' = [book EXCEPT ![h.user] = Release(@, ExpireKey(h.id), h.id)]
          ELSE UNCHANGED book
       /\ sweep' = [sweep EXCEPT ![s] =
                         [pc |-> "mark", batch |-> sweep[s].batch, hold |-> h]]
  /\ UNCHANGED <<rebuild, crashes>>

\* releaseReservation(user, id, `expire:${id}`): writes, or finds its own entry.
SweepRelease(s) ==
  /\ sweep[s].pc = "release"
  /\ \E h \in sweep[s].batch :
       LET b == book[h.user]
           key == ExpireKey(h.id)
       IN /\ \/ /\ ReleaseOk(b, key, h.id)
                /\ book' = [book EXCEPT ![h.user] = Release(b, key, h.id)]
             \/ /\ HasEntry(b, "RESERVATION_RELEASE", key)
                /\ UNCHANGED book
          /\ sweep' = [sweep EXCEPT ![s] =
                         [pc |-> "mark", batch |-> sweep[s].batch, hold |-> h]]
  /\ UNCHANGED <<rebuild, crashes>>

\* The hold was settled after the query: the exception ends the whole sweep.
SweepAbort(s) ==
  /\ sweep[s].pc = "release"
  /\ \E h \in sweep[s].batch :
       /\ ~ReleaseOk(book[h.user], ExpireKey(h.id), h.id)
       /\ ~HasEntry(book[h.user], "RESERVATION_RELEASE", ExpireKey(h.id))
  /\ sweep' = [sweep EXCEPT ![s] = IdleSweep]
  /\ UNCHANGED <<book, rebuild, crashes>>

SweepMark(s) ==
  LET h == sweep[s].hold
      rest == sweep[s].batch \ {h}
  IN /\ sweep[s].pc = "mark"
     /\ book' = [book EXCEPT ![h.user] = MarkExpired(@, h.id)]
     /\ sweep' = [sweep EXCEPT ![s] =
                    IF rest = {} THEN IdleSweep
                    ELSE [pc |-> "release", batch |-> rest, hold |-> NoHold]]
     /\ UNCHANGED <<rebuild, crashes>>

\* The process dies, or a database error ends the sweep.
SweepCrash(s) ==
  /\ sweep[s].pc # "idle"
  /\ crashes < MaxCrashes
  /\ crashes' = crashes + 1
  /\ sweep' = [sweep EXCEPT ![s] = IdleSweep]
  /\ UNCHANGED <<book, rebuild>>

-----------------------------------------------------------------------------
(***************************************************************************)
(* rebuildBalanceFromLedger(userId, repair = true, actorId).               *)
(***************************************************************************)
RebuildReadAccount(p, u) ==
  /\ rebuild[p].pc = "idle"
  /\ rebuild' = [rebuild EXCEPT ![p] =
       [pc |-> "account", user |-> u, version |-> book[u].version,
        available |-> book[u].available, reserved |-> book[u].reserved,
        calculatedAvailable |-> 0, calculatedReserved |-> 0]]
  /\ UNCHANGED <<book, sweep, crashes>>

RebuildSumLedger(p) ==
  LET r == rebuild[p]
  IN /\ r.pc = "account"
     /\ rebuild' = [rebuild EXCEPT ![p] =
          [pc |-> "summed", user |-> r.user, version |-> r.version,
           available |-> r.available, reserved |-> r.reserved,
           calculatedAvailable |-> LedgerAvailable(book[r.user]),
           calculatedReserved |-> LedgerReserved(book[r.user])]]
     /\ UNCHANGED <<book, sweep, crashes>>

Matches(r) ==
  /\ r.calculatedAvailable = r.available
  /\ r.calculatedReserved = r.reserved

RepairedSlip(b, r) ==
  Updated(b, r.calculatedAvailable, r.calculatedReserved, 0, 0, b.entries, b.reservations)

Repaired(b, r) ==
  IF b.version = r.version
  THEN Updated(b, r.calculatedAvailable, r.calculatedReserved, 0, 0, b.entries, b.reservations)
  ELSE b

RebuildFinish(p) ==
  LET r == rebuild[p]
  IN /\ r.pc = "summed"
     /\ book' = IF Matches(r) THEN book
                ELSE [book EXCEPT ![r.user] = Repaired(@, r)]
     /\ rebuild' = [rebuild EXCEPT ![p] = IdleRebuild]
     /\ UNCHANGED <<sweep, crashes>>

-----------------------------------------------------------------------------
UserStep(u) ==
  \/ \E key \in Key, amount \in Amount :
       \/ \E purchase \in BOOLEAN : GrantCredits(u, key, amount, purchase)
       \/ GrantPromotionCredits(u, key, amount)
       \/ RefundCredits(u, key, amount)
       \/ DeductCredits(u, key, amount)
       \/ ConsumeCredits(u, key, amount)
       \/ ReserveCredits(u, key, amount)
       \/ \E id \in DOMAIN book[u].reservations : CaptureReservation(u, key, id, amount)
  \/ \E key \in Key, id \in DOMAIN book[u].reservations : ReleaseReservation(u, key, id)
  \/ \E id \in DOMAIN book[u].reservations : TtlElapses(u, id)

SweepStep(s) == SweepFind(s) \/ SweepRelease(s) \/ SweepAbort(s) \/ SweepMark(s)

RebuildStep(p) ==
  \/ \E u \in User : RebuildReadAccount(p, u)
  \/ RebuildSumLedger(p)
  \/ RebuildFinish(p)

Next ==
  \/ \E u \in User : UserStep(u)
  \/ \E s \in Sweeper : SweepStep(s) \/ SweepCrash(s)
  \/ \E p \in Auditor : RebuildStep(p)

Spec == Init /\ [][Next]_vars

(***************************************************************************)
(* The retention job is run again and again by a scheduler, time passes,   *)
(* and nothing stops a running sweep for ever but its own exceptions.      *)
(***************************************************************************)
Fairness == \A s \in Sweeper : WF_vars(SweepStep(s))

FairSpec == Spec /\ Fairness
-----------------------------------------------------------------------------
(***************************************************************************)
(* Properties.                                                             *)
(***************************************************************************)

\* Types of the rows and of the local variables; balances are naturals, which
\* is the README's "balances cannot become negative" and the CHECK constraint
\* CreditAccount_nonnegative.
TypeOK ==
  /\ book \in [User -> Book]
  /\ sweep \in [Sweeper ->
       [pc : {"idle", "release", "mark"}, batch : SUBSET [user : User, id : Nat \ {0}],
        hold : [user : User \union {"none"}, id : Nat]]]
  /\ rebuild \in [Auditor ->
       [pc : {"idle", "account", "summed"}, user : User \union {"none"}, version : Nat,
        available : Nat, reserved : Nat, calculatedAvailable : Int,
        calculatedReserved : Int]]
  /\ crashes \in Nat

\* In every reachable state a reconciliation that read one consistent snapshot would
\* report a match, whatever mix of grants, holds, settlements, sweeps and repairs came
\* before (rebuildBalanceFromLedger against every writer).
LedgerReconciles == \A u \in User : Reconciled(book[u])

\* The balances stored with each ledger row are those after that row, up to the account
\* itself, so the history can be replayed row by row; a capture writes two rows whose
\* intermediate balances the code works out by hand.
RunningBalances == \A u \in User : Running(book[u].entries) /\ UpToDate(book[u])

\* reservedBalance is exactly the credits of the ACTIVE reservations: no hold is lost or
\* returned twice by capture, release and the sweep.
HoldsBacked == \A u \in User : Backed(book[u])

\* The ledger rows that refer to a reservation tell its state: they hold its amount while
\* it is ACTIVE and nothing afterwards, and in the end they cost the user what was
\* captured and no more.
ReservationAccounting ==
  \A u \in User : \A id \in DOMAIN book[u].reservations : Accounted(book[u], id)

\* Credits are neither made nor destroyed by reservations: what came in and out through
\* grants and deductions is available, reserved or captured, and lifetimeConsumed is the
\* sum of the captures.
CreditsConserved == \A u \in User : Conserved(book[u])

\* The three records of an account tell one story: its two balances, the history of ledger
\* rows with their running balances, and the reservations, whoever wrote them in between;
\* and no credits come or go but by what was granted, debited and captured.
AccountsConsistent ==
  /\ LedgerReconciles
  /\ RunningBalances
  /\ HoldsBacked
  /\ ReservationAccounting
  /\ CreditsConserved

\* (user, type, key) identifies one ledger row: a retried or replayed operation, the sweep
\* and the remainder of a capture included, never takes effect twice.
EffectOncePerKey == \A u \in User : OncePerKey(book[u].entries)

\* EXPIRED is only ever the end of a hold the sweep itself returned after its TTL:
\* a hold its owner released in time never becomes EXPIRED, though the sweep's
\* second statement looks at nothing but the status.
ExpiredWasSwept ==
  \A u \in User : \A id \in DOMAIN book[u].reservations :
    LET r == book[u].reservations[id]
    IN r.status = "EXPIRED" => r.expired /\ HasEntry(book[u], "RESERVATION_RELEASE", ExpireKey(id))

\* A reconciliation that finds a difference read the account before, and the ledger
\* after, somebody else's mutation; the version it holds is then out of date, which is
\* what keeps repair = true from writing the stale difference back.
MismatchIsStale ==
  \A p \in Auditor :
    rebuild[p].pc = "summed" /\ ~Matches(rebuild[p])
      => book[rebuild[p].user].version > rebuild[p].version

\* A settled reservation stays settled: no later capture, release or sweep changes how
\* much of it was charged, and only the sweep's mark may rename RELEASED.
SettledStep ==
  \A u \in User : \A id \in DOMAIN book[u].reservations :
    LET before == book[u].reservations[id]
        after == book'[u].reservations[id]
    IN before.status # "ACTIVE" =>
         /\ after.capturedAmount = before.capturedAmount
         /\ \/ after.status = before.status
            \/ before.status = "RELEASED" /\ after.status = "EXPIRED"
SettledForever == [][SettledStep]_vars

\* Every hold whose TTL has passed is returned or captured in the end, although sweeps
\* take limited batches, die half way and stop at the first hold somebody else
\* settled under them.
ExpiredHoldsReturned ==
  \A u \in User : \A id \in 1..MaxEntries :
    (IsActive(book[u], id) /\ book[u].reservations[id].expired) ~> ~IsActive(book[u], id)
=============================================================================
