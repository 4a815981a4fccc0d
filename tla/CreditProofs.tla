---------------------------- MODULE CreditProofs ------------------------------
(***************************************************************************)
(* The safety of credits, of CreditLedger, CreditOrders and                *)
(* CreditTransactions, for any set of users, keys, amounts, sweeps,        *)
(* reconciliations, orders, payments, events, handlers, clients, retries   *)
(* and crashes.                                                            *)
(*                                                                         *)
(* The ledger rests on what CreditBookTheorems says each transaction       *)
(* preserves of a user's book.  A repairing reconciliation writes balances *)
(* that it computed from reads of different moments, so not even the type  *)
(* of the balances is inductive on its own: Inv says of every book what    *)
(* its transactions preserve, and of every reconciliation that what it     *)
(* holds is out of date or right.                                          *)
(*                                                                         *)
(* Of orders, every processed success and every PURCHASE row belongs to    *)
(* one announcement; that is what a duplicate delivery meets.              *)
(*                                                                         *)
(* Of transactions, an open one has read the book as it is now or holds an *)
(* older version of it; so its commit, which asks for the version, is the  *)
(* operation on the book as it is, one step of the ledger.                 *)
(***************************************************************************)
EXTENDS CreditTransactions, CreditOrders, CreditBookTheorems

-----------------------------------------------------------------------------
(***************************************************************************)
(* The ledger: all books, the sweeps and the reconciliations.              *)
(***************************************************************************)
\* The holds a sweep is about to touch exist.
SweepsKnowHolds ==
  \A s \in Sweeper :
    /\ \A h \in sweep[s].batch : h.user \in User /\ h.id \in DOMAIN book[h.user].reservations
    /\ sweep[s].pc = "mark" =>
         /\ sweep[s].hold.user \in User
         /\ sweep[s].hold.id \in DOMAIN book[sweep[s].hold.user].reservations

\* What a reconciliation has read is older than the book, or equal to it.
Current(r, b) ==
  /\ r.version <= b.version
  /\ r.version = b.version =>
       /\ r.available = b.available /\ r.reserved = b.reserved
       /\ r.pc = "summed" => Matches(r)

RebuildsCurrent ==
  \A p \in Auditor :
    rebuild[p].pc # "idle" =>
      rebuild[p].user \in User /\ Current(rebuild[p], book[rebuild[p].user])

Inv ==
  /\ TypeOK
  /\ \A u \in User : BookInv(book[u])
  /\ SweepsKnowHolds
  /\ RebuildsCurrent

-----------------------------------------------------------------------------
(***************************************************************************)
(* What every step does to all books.                                      *)
(***************************************************************************)
BooksStep ==
  /\ book' \in [User -> Book]
  /\ \A u \in User : BookStep(book[u], book'[u])

\* When one book takes a legal step and the others stay, all books took legal steps.
LEMMA OneBookStep ==
  ASSUME Inv, NEW u \in User, NEW b, BookStep(book[u], b), book' = [book EXCEPT ![u] = b]
  PROVE  BooksStep
<1>1. book \in [User -> Book] /\ \A v \in User : BookInv(book[v])
  BY DEF Inv, TypeOK
<1>2. b \in Book
  BY DEF BookStep
<1>3. book' \in [User -> Book]
  BY <1>1, <1>2
<1>4. ASSUME NEW v \in User PROVE BookStep(book[v], book'[v])
  <2>1. CASE v = u
    BY <1>1, <2>1
  <2>2. CASE v # u
    <3>1. book'[v] = book[v] /\ book[v] \in Book
      BY <1>1, <2>2
    <3>2. QED
      BY <1>1, <3>1, StutterStep
  <2>3. QED
    BY <2>1, <2>2
<1>5. QED
  BY <1>3, <1>4 DEF BooksStep

\* When no book changes, all books took legal steps.
LEMMA NoBookStep ==
  ASSUME Inv, UNCHANGED book
  PROVE  BooksStep
<1>1. book \in [User -> Book] /\ \A u \in User : BookInv(book[u])
  BY DEF Inv, TypeOK
<1>2. QED
  BY <1>1, StutterStep DEF BooksStep

\* The same for SetBook, which leaves sweeps and reconciliations alone.
LEMMA SetBookStep ==
  ASSUME Inv, NEW u \in User, NEW b, BookStep(book[u], b), SetBook(u, b)
  PROVE  BooksStep /\ UNCHANGED <<sweep, rebuild, crashes>>
  BY OneBookStep DEF SetBook

\* Every operation that goes through mutate takes legal steps only.
LEMMA MutateBookStep ==
  ASSUME Inv, NEW u \in User, NEW type \in Credits \union Debits, NEW key \in Key,
         NEW amount \in Amount, NEW delta \in Int, type \in Credits => delta = amount,
         MutateBook(u, type, key, amount, delta)
  PROVE  BooksStep /\ UNCHANGED <<sweep, rebuild, crashes>>
<1>1. book[u] \in Book /\ BookInv(book[u])
  BY DEF Inv, TypeOK
<1>2. amount \in Nat
  BY AmountAssumption DEF MutateBook, ValidAmount
<1>3. MutateOk(book[u], type, key, delta) /\ SetBook(u, Mutate(book[u], type, key, delta))
  BY DEF MutateBook
<1>4. BookStep(book[u], Mutate(book[u], type, key, delta))
  BY <1>1, <1>2, <1>3, MutateStep
<1>5. QED
  BY <1>3, <1>4, SetBookStep

\* Every operation on one user's book takes legal steps only.
LEMMA UserStepBooks ==
  ASSUME Inv, NEW u \in User, UserStep(u)
  PROVE  BooksStep /\ UNCHANGED <<sweep, rebuild, crashes>>
<1>1. book[u] \in Book /\ BookInv(book[u])
  BY DEF Inv, TypeOK
<1>2. \A amount \in Amount : amount \in Int /\ -amount \in Int
  BY AmountAssumption
<1>3. ASSUME NEW key \in Key, NEW amount \in Amount, NEW purchase \in BOOLEAN,
             GrantCredits(u, key, amount, purchase)
      PROVE  BooksStep /\ UNCHANGED <<sweep, rebuild, crashes>>
  <2>1. CASE purchase
    BY <1>2, <1>3, <2>1, MutateBookStep DEF GrantCredits, Credits
  <2>2. CASE ~purchase
    BY <1>2, <1>3, <2>2, MutateBookStep DEF GrantCredits, Credits
  <2>3. QED
    BY <2>1, <2>2
<1>4. ASSUME NEW key \in Key, NEW amount \in Amount, GrantPromotionCredits(u, key, amount)
      PROVE  BooksStep /\ UNCHANGED <<sweep, rebuild, crashes>>
  BY <1>2, <1>4, MutateBookStep DEF GrantPromotionCredits, Credits
<1>5. ASSUME NEW key \in Key, NEW amount \in Amount, RefundCredits(u, key, amount)
      PROVE  BooksStep /\ UNCHANGED <<sweep, rebuild, crashes>>
  BY <1>2, <1>5, MutateBookStep DEF RefundCredits, Credits
<1>6. ASSUME NEW key \in Key, NEW amount \in Amount, DeductCredits(u, key, amount)
      PROVE  BooksStep /\ UNCHANGED <<sweep, rebuild, crashes>>
  BY <1>2, <1>6, MutateBookStep DEF DeductCredits, Credits, Debits
<1>7. ASSUME NEW key \in Key, NEW amount \in Amount, ConsumeCredits(u, key, amount)
      PROVE  BooksStep /\ UNCHANGED <<sweep, rebuild, crashes>>
  BY <1>2, <1>7, MutateBookStep DEF ConsumeCredits, Credits, Debits
<1>8. ASSUME NEW key \in Key, NEW amount \in Amount, ReserveCredits(u, key, amount)
      PROVE  BooksStep /\ UNCHANGED <<sweep, rebuild, crashes>>
  <2>1. amount \in Nat \ {0}
    BY <1>2, <1>8 DEF ReserveCredits, ValidAmount
  <2>2. BookStep(book[u], Reserve(book[u], key, amount))
    BY <1>1, <1>8, <2>1, ReserveStep DEF ReserveCredits
  <2>3. QED
    BY <1>8, <2>2, SetBookStep DEF ReserveCredits
<1>9. ASSUME NEW key \in Key, NEW amount \in Amount, NEW id \in DOMAIN book[u].reservations,
             CaptureReservation(u, key, id, amount)
      PROVE  BooksStep /\ UNCHANGED <<sweep, rebuild, crashes>>
  <2>1. amount \in Nat
    BY <1>2, <1>9 DEF CaptureReservation, ValidAmount
  <2>2. BookStep(book[u], Capture(book[u], key, id, amount))
    BY <1>1, <1>9, <2>1, CaptureStep DEF CaptureReservation
  <2>3. QED
    BY <1>9, <2>2, SetBookStep DEF CaptureReservation
<1>10. ASSUME NEW key \in Key, NEW id \in DOMAIN book[u].reservations,
              ReleaseReservation(u, key, id)
       PROVE  BooksStep /\ UNCHANGED <<sweep, rebuild, crashes>>
  <2>1. BookStep(book[u], Release(book[u], key, id))
    BY <1>1, <1>10, ReleaseStep DEF ReleaseReservation
  <2>2. QED
    BY <1>10, <2>1, SetBookStep DEF ReleaseReservation
<1>11. ASSUME NEW id \in DOMAIN book[u].reservations, TtlElapses(u, id)
       PROVE  BooksStep /\ UNCHANGED <<sweep, rebuild, crashes>>
  <2>1. BookStep(book[u], Overdue(book[u], id))
    BY <1>1, OverdueStep
  <2>2. QED
    BY <1>11, <2>1, SetBookStep DEF TtlElapses
<1>12. QED
  BY <1>3, <1>4, <1>5, <1>6, <1>7, <1>8, <1>9, <1>10, <1>11 DEF UserStep

-----------------------------------------------------------------------------
(***************************************************************************)
(* What the books' steps leave true of sweeps and reconciliations.         *)
(***************************************************************************)
LEMMA BooksStepDomains ==
  ASSUME BooksStep, NEW u \in User
  PROVE  DOMAIN book[u].reservations \subseteq DOMAIN book'[u].reservations
  BY DEF BooksStep, BookStep

\* The holds a sweep found keep their rows while books take legal steps.
LEMMA SweepsStay ==
  ASSUME Inv, BooksStep, UNCHANGED sweep
  PROVE  SweepsKnowHolds'
  BY BooksStepDomains DEF Inv, SweepsKnowHolds

\* What a reconciliation read stays current or its version stays behind.
LEMMA CurrentStays ==
  ASSUME NEW r, NEW b \in Book, NEW c, r.version \in Nat, Current(r, b), BookStep(b, c)
  PROVE  Current(r, c)
<1>1. b.version \in Nat /\ c.version \in Nat
  BY BookFields DEF BookStep
<1>2. QED
  BY <1>1 DEF Current, BookStep

\* Reconciliations in progress stay current in that sense while books take legal steps.
LEMMA RebuildsStay ==
  ASSUME Inv, BooksStep, UNCHANGED rebuild
  PROVE  RebuildsCurrent'
<1> SUFFICES ASSUME NEW p \in Auditor, rebuild[p].pc # "idle"
             PROVE  /\ rebuild[p].user \in User
                    /\ Current(rebuild[p], book'[rebuild[p].user])
  BY DEF RebuildsCurrent
<1> DEFINE u == rebuild[p].user
<1>1. u \in User /\ Current(rebuild[p], book[u])
  BY DEF Inv, RebuildsCurrent
<1>2. rebuild[p].version \in Nat /\ book[u] \in Book
  BY <1>1 DEF Inv, TypeOK
<1>3. BookStep(book[u], book'[u])
  BY <1>1 DEF BooksStep
<1>4. QED
  BY <1>1, <1>2, <1>3, CurrentStays

\* Legal steps of all books keep their types and their invariants.
LEMMA BooksStepInv ==
  ASSUME BooksStep
  PROVE  /\ book' \in [User -> Book]
         /\ \A u \in User : BookInv(book'[u])
  BY DEF BooksStep, BookStep

-----------------------------------------------------------------------------
(***************************************************************************)
(* Inv holds in every reachable state.                                     *)
(***************************************************************************)
\* The types of the local variables of sweeps and reconciliations.
SweepType ==
  [pc : {"idle", "release", "mark"}, batch : SUBSET [user : User, id : Nat \ {0}],
   hold : [user : User \union {"none"}, id : Nat]]

\* The idle state of a sweep has its type.
LEMMA IdleSweepType == IdleSweep \in SweepType
  BY DEF IdleSweep, NoHold, SweepType

\* One sweep moves on to a state it may be in.
LEMMA OneSweepStep ==
  ASSUME Inv, BooksStep, NEW s \in Sweeper, NEW new \in SweepType,
         sweep' = [sweep EXCEPT ![s] = new], UNCHANGED rebuild, crashes' \in Nat,
         \A h \in new.batch : h.user \in User /\ h.id \in DOMAIN book'[h.user].reservations,
         new.pc = "mark" =>
           new.hold.user \in User /\ new.hold.id \in DOMAIN book'[new.hold.user].reservations
  PROVE  Inv'
<1>1. sweep \in [Sweeper -> SweepType]
  BY DEF Inv, TypeOK, SweepType
<1>2. sweep' \in [Sweeper -> SweepType]
  BY <1>1
<1>3. TypeOK'
  BY <1>2, BooksStepInv DEF Inv, TypeOK, SweepType
<1>4. SweepsKnowHolds'
  <2> SUFFICES ASSUME NEW t \in Sweeper
               PROVE  /\ \A h \in sweep'[t].batch :
                           h.user \in User /\ h.id \in DOMAIN book'[h.user].reservations
                      /\ sweep'[t].pc = "mark" =>
                           /\ sweep'[t].hold.user \in User
                           /\ sweep'[t].hold.id \in DOMAIN book'[sweep'[t].hold.user].reservations
    BY DEF SweepsKnowHolds
  <2>1. CASE t = s
    BY <1>1, <2>1
  <2>2. CASE t # s
    <3>1. sweep'[t] = sweep[t]
      BY <1>1, <2>2
    <3>2. QED
      BY <3>1, BooksStepDomains DEF Inv, SweepsKnowHolds
  <2>3. QED
    BY <2>1, <2>2
<1>5. QED
  BY <1>3, <1>4, RebuildsStay, BooksStepInv DEF Inv

\* Every step of a sweep takes legal steps of books only.
LEMMA SweepStepBooks ==
  ASSUME Inv, NEW s \in Sweeper, SweepStep(s) \/ SweepCrash(s)
  PROVE  BooksStep
<1>1. /\ \A h \in sweep[s].batch :
           /\ h.user \in User /\ h.id \in DOMAIN book[h.user].reservations
           /\ h \in [user : User, id : Nat \ {0}]
      /\ \A u \in User : book[u] \in Book /\ BookInv(book[u])
  BY DEF Inv, TypeOK, SweepsKnowHolds
<1>2. CASE UNCHANGED book
  BY <1>2, NoBookStep
<1>3. CASE SweepRelease(s) /\ book' # book
  <2>1. PICK h \in sweep[s].batch :
          /\ ReleaseOk(book[h.user], ExpireKey(h.id), h.id)
          /\ book' = [book EXCEPT ![h.user] = Release(book[h.user], ExpireKey(h.id), h.id)]
    BY <1>3 DEF SweepRelease
  <2>2. h.user \in User /\ h.id \in DOMAIN book[h.user].reservations /\ h.id \in Nat
    BY <1>1
  <2>3. ExpireKey(h.id) \in Key \union [expire : Nat]
    BY <2>2 DEF ExpireKey
  <2>4. BookStep(book[h.user], Release(book[h.user], ExpireKey(h.id), h.id))
    BY <1>1, <2>1, <2>2, <2>3, ReleaseStep
  <2>5. QED
    BY <2>1, <2>2, <2>4, OneBookStep
<1>4. CASE SweepMark(s)
  <2> DEFINE h == sweep[s].hold
  <2>1. /\ sweep[s].pc = "mark"
        /\ book' = [book EXCEPT ![h.user] = MarkExpired(book[h.user], h.id)]
    BY <1>4 DEF SweepMark
  <2>2. h.user \in User /\ h.id \in DOMAIN book[h.user].reservations
    BY <2>1 DEF Inv, SweepsKnowHolds
  <2>3. QED
    BY <1>1, <2>1, <2>2, MarkExpiredStep, OneBookStep
<1>5. QED
  BY <1>2, <1>3, <1>4 DEF SweepStep, SweepFind, SweepAbort, SweepCrash

\* Every step of a sweep, its crash included, keeps the invariant.
LEMMA SweepStepInv ==
  ASSUME Inv, NEW s \in Sweeper, SweepStep(s) \/ SweepCrash(s)
  PROVE  Inv'
<1>1. /\ sweep[s] \in SweepType /\ crashes \in Nat
      /\ \A h \in sweep[s].batch : h.user \in User /\ h.id \in DOMAIN book[h.user].reservations
      /\ sweep[s].batch \subseteq [user : User, id : Nat \ {0}]
      /\ \A u \in User : book[u] \in Book
      /\ BooksStep
  BY SweepStepBooks DEF Inv, TypeOK, SweepsKnowHolds, SweepType
<1>2. IdleSweep.batch = {} /\ IdleSweep.pc # "mark"
  BY DEF IdleSweep
<1>3. CASE SweepFind(s)
  <2>1. PICK batch \in SUBSET ExpiredHolds \ {{}} :
          sweep' = [sweep EXCEPT ![s] = [pc |-> "release", batch |-> batch, hold |-> NoHold]]
    BY <1>3 DEF SweepFind
  <2>2. \A h \in batch : h.user \in User /\ h.id \in DOMAIN book[h.user].reservations
    BY <2>1 DEF ExpiredHolds, IsActive
  <2>3. batch \in SUBSET [user : User, id : Nat \ {0}]
    <3>1. \A u \in User : DOMAIN book[u].reservations \subseteq Nat \ {0}
      BY <1>1, ReservationFields
    <3>2. \A h \in batch : h \in [user : User, id : 1..MaxEntries]
      BY <2>1 DEF ExpiredHolds
    <3>3. QED
      BY <2>2, <3>1, <3>2
  <2> DEFINE new == [pc |-> "release", batch |-> batch, hold |-> NoHold]
  <2>4. new \in SweepType /\ new.batch = batch /\ new.pc # "mark"
    BY <2>3 DEF SweepType, NoHold
  <2>5. UNCHANGED rebuild /\ crashes' \in Nat
    BY <1>1, <1>3 DEF SweepFind
  <2>6. \A h \in new.batch : h.user \in User /\ h.id \in DOMAIN book'[h.user].reservations
    BY <1>1, <2>2, BooksStepDomains
  <2>7. sweep' = [sweep EXCEPT ![s] = new]
    BY <2>1
  <2> HIDE DEF new
  <2>8. QED
    BY <1>1, <2>4, <2>5, <2>6, <2>7, OneSweepStep
<1>4. CASE SweepRelease(s)
  <2>1. PICK h \in sweep[s].batch :
          sweep' = [sweep EXCEPT ![s] = [pc |-> "mark", batch |-> sweep[s].batch, hold |-> h]]
    BY <1>4 DEF SweepRelease
  <2>2. h \in [user : User, id : Nat \ {0}]
    BY <1>1
  <2> DEFINE new == [pc |-> "mark", batch |-> sweep[s].batch, hold |-> h]
  <2>3. new \in SweepType /\ new.batch = sweep[s].batch /\ new.hold = h
    BY <1>1, <2>2 DEF SweepType
  <2>4. \A g \in sweep[s].batch : g.user \in User /\ g.id \in DOMAIN book'[g.user].reservations
    BY <1>1, BooksStepDomains
  <2>5. UNCHANGED rebuild /\ crashes' \in Nat
    BY <1>1, <1>4 DEF SweepRelease
  <2> HIDE DEF new
  <2>6. /\ \A g \in new.batch : g.user \in User /\ g.id \in DOMAIN book'[g.user].reservations
        /\ new.hold.user \in User /\ new.hold.id \in DOMAIN book'[new.hold.user].reservations
    BY <2>3, <2>4
  <2>7. sweep' = [sweep EXCEPT ![s] = new]
    BY <2>1 DEF new
  <2>8. QED
    BY <1>1, <2>3, <2>5, <2>6, <2>7, OneSweepStep
<1>5. CASE SweepAbort(s)
  <2>1. UNCHANGED <<book, rebuild, crashes>> /\ sweep' = [sweep EXCEPT ![s] = IdleSweep]
    BY <1>5 DEF SweepAbort
  <2>2. QED
    BY <1>1, <1>2, <2>1, IdleSweepType, OneSweepStep
<1>6. CASE SweepMark(s)
  <2> DEFINE rest == sweep[s].batch \ {sweep[s].hold}
             new == [pc |-> "release", batch |-> rest, hold |-> NoHold]
  <2>1. /\ UNCHANGED <<rebuild, crashes>>
        /\ \/ sweep' = [sweep EXCEPT ![s] = IdleSweep]
           \/ sweep' = [sweep EXCEPT ![s] = new]
    BY <1>6 DEF SweepMark
  <2>2. CASE sweep' = [sweep EXCEPT ![s] = IdleSweep]
    BY <1>1, <1>2, <2>1, <2>2, IdleSweepType, OneSweepStep
  <2>3. CASE sweep' = [sweep EXCEPT ![s] = new]
    <3>1. new \in SweepType /\ new.batch \subseteq sweep[s].batch /\ new.pc # "mark"
      BY <1>1 DEF SweepType, NoHold
    <3> HIDE DEF new
    <3>2. \A g \in new.batch : g.user \in User /\ g.id \in DOMAIN book'[g.user].reservations
      BY <1>1, <3>1, BooksStepDomains
    <3>3. QED
      BY <1>1, <2>1, <2>3, <3>1, <3>2, OneSweepStep
  <2>4. QED
    BY <2>1, <2>2, <2>3
<1>7. CASE SweepCrash(s)
  <2>1. /\ UNCHANGED <<book, rebuild>> /\ crashes' = crashes + 1
        /\ sweep' = [sweep EXCEPT ![s] = IdleSweep]
    BY <1>7 DEF SweepCrash
  <2>2. crashes' \in Nat
    BY <1>1, <2>1
  <2>3. QED
    BY <1>1, <1>2, <2>1, <2>2, IdleSweepType, OneSweepStep
<1>8. QED
  BY <1>3, <1>4, <1>5, <1>6, <1>7 DEF SweepStep

RebuildType ==
  [pc : {"idle", "account", "summed"}, user : User \union {"none"}, version : Nat,
   available : Nat, reserved : Nat, calculatedAvailable : Int, calculatedReserved : Int]

\* The idle state of a reconciliation has its type.
LEMMA IdleRebuildType == IdleRebuild \in RebuildType
  BY DEF IdleRebuild, RebuildType

\* One reconciliation moves on to a state it may be in; no book changes.
LEMMA OneRebuildStep ==
  ASSUME Inv, UNCHANGED <<book, sweep, crashes>>, NEW p \in Auditor, NEW new \in RebuildType,
         rebuild' = [rebuild EXCEPT ![p] = new],
         new.pc # "idle" => new.user \in User /\ Current(new, book[new.user])
  PROVE  Inv'
<1>1. rebuild \in [Auditor -> RebuildType]
  BY DEF Inv, TypeOK, RebuildType
<1>2. rebuild' \in [Auditor -> RebuildType]
  BY <1>1
<1>3. TypeOK'
  BY <1>2 DEF Inv, TypeOK, RebuildType
<1>4. RebuildsCurrent'
  <2> SUFFICES ASSUME NEW q \in Auditor, rebuild'[q].pc # "idle"
               PROVE  rebuild'[q].user \in User /\ Current(rebuild'[q], book[rebuild'[q].user])
    BY DEF RebuildsCurrent
  <2>1. CASE q = p
    BY <1>1, <2>1
  <2>2. CASE q # p
    <3>1. rebuild'[q] = rebuild[q]
      BY <1>1, <2>2
    <3>2. QED
      BY <3>1 DEF Inv, RebuildsCurrent
  <2>3. QED
    BY <2>1, <2>2
<1>5. SweepsKnowHolds'
  BY NoBookStep, SweepsStay
<1>6. QED
  BY <1>3, <1>4, <1>5 DEF Inv

\* The sums of a book that reconciles.
LEMMA LedgerOfBook ==
  ASSUME NEW b \in Book, BookInv(b)
  PROVE  /\ Reconciled(b)
         /\ LedgerAvailable(b) = b.available /\ LedgerReserved(b) = b.reserved
  BY DEF BookInv, LeadsTo, Reconciled, LedgerAvailable, LedgerReserved

\* A repair never writes: the difference it would repair is out of date.
LEMMA RebuildStepBooks ==
  ASSUME Inv, NEW p \in Auditor, RebuildStep(p)
  PROVE  UNCHANGED book
<1> DEFINE r == rebuild[p]
<1>1. CASE RebuildFinish(p) /\ ~Matches(r)
  <2>1. r.pc = "summed" /\ book' = [book EXCEPT ![r.user] = Repaired(book[r.user], r)]
    BY <1>1 DEF RebuildFinish
  <2>2. r.user \in User /\ Current(r, book[r.user])
    BY <2>1 DEF Inv, RebuildsCurrent
  <2>3. book[r.user].version # r.version
    BY <1>1, <2>1, <2>2 DEF Current
  <2>4. Repaired(book[r.user], r) = book[r.user]
    BY <2>3 DEF Repaired
  <2>5. QED
    BY <2>1, <2>2, <2>4 DEF Inv, TypeOK
<1>2. QED
  BY <1>1 DEF RebuildStep, RebuildReadAccount, RebuildSumLedger, RebuildFinish

\* Every step of a reconciliation keeps the invariant: its repair writes what is there.
LEMMA RebuildStepInv ==
  ASSUME Inv, NEW p \in Auditor, RebuildStep(p)
  PROVE  Inv'
<1>1. /\ rebuild[p] \in RebuildType /\ crashes \in Nat
      /\ \A u \in User : book[u] \in Book /\ BookInv(book[u])
  BY DEF Inv, TypeOK, RebuildType
<1>2. CASE \E u \in User : RebuildReadAccount(p, u)
  <2>1. PICK u \in User : RebuildReadAccount(p, u)
    BY <1>2
  <2> DEFINE new == [pc |-> "account", user |-> u, version |-> book[u].version,
                     available |-> book[u].available, reserved |-> book[u].reserved,
                     calculatedAvailable |-> 0, calculatedReserved |-> 0]
  <2>2. /\ book[u].version \in Nat /\ book[u].available \in Nat /\ book[u].reserved \in Nat
    BY <1>1, BookFields
  <2>3. new \in RebuildType
    BY <2>2 DEF RebuildType
  <2>4. new.user \in User /\ Current(new, book[new.user])
    BY <2>2 DEF Current
  <2>5. rebuild' = [rebuild EXCEPT ![p] = new] /\ UNCHANGED <<book, sweep, crashes>>
    BY <2>1 DEF RebuildReadAccount
  <2> HIDE DEF new
  <2>6. QED
    BY <2>3, <2>4, <2>5, OneRebuildStep
<1>3. CASE RebuildSumLedger(p)
  <2> DEFINE r == rebuild[p]
             b == book[r.user]
             new == [pc |-> "summed", user |-> r.user, version |-> r.version,
                     available |-> r.available, reserved |-> r.reserved,
                     calculatedAvailable |-> LedgerAvailable(b),
                     calculatedReserved |-> LedgerReserved(b)]
  <2>1. r.pc = "account" /\ rebuild' = [rebuild EXCEPT ![p] = new]
        /\ UNCHANGED <<book, sweep, crashes>>
    BY <1>3 DEF RebuildSumLedger
  <2>2. r.user \in User /\ Current(r, b)
    BY <2>1 DEF Inv, RebuildsCurrent
  <2>3. /\ LedgerAvailable(b) = b.available /\ LedgerReserved(b) = b.reserved
        /\ b.available \in Nat /\ b.reserved \in Nat /\ b.version \in Nat
    BY <1>1, <2>2, LedgerOfBook, BookFields
  <2>4. /\ r.version \in Nat /\ r.available \in Nat /\ r.reserved \in Nat
        /\ r.user \in User \union {"none"}
    BY <1>1 DEF RebuildType
  <2>5. new \in RebuildType
    BY <2>3, <2>4 DEF RebuildType
  <2>6. Current(new, b)
    BY <2>2, <2>3, <2>4 DEF Current, Matches
  <2>7. new.user = r.user
    OBVIOUS
  <2> HIDE DEF new
  <2>8. QED
    BY <2>1, <2>2, <2>5, <2>6, <2>7, OneRebuildStep
<1>4. CASE RebuildFinish(p)
  <2>1. rebuild' = [rebuild EXCEPT ![p] = IdleRebuild] /\ UNCHANGED <<sweep, crashes>>
    BY <1>4 DEF RebuildFinish
  <2>2. UNCHANGED book
    BY RebuildStepBooks
  <2>3. IdleRebuild.pc = "idle"
    BY DEF IdleRebuild
  <2>4. QED
    BY <2>1, <2>2, <2>3, IdleRebuildType, OneRebuildStep
<1>5. QED
  BY <1>2, <1>3, <1>4 DEF RebuildStep

\* Every operation on one user's book keeps the invariant.
LEMMA UserStepInv ==
  ASSUME Inv, NEW u \in User, UserStep(u)
  PROVE  Inv'
<1>1. BooksStep /\ UNCHANGED <<sweep, rebuild, crashes>>
  BY UserStepBooks
<1>2. TypeOK'
  BY <1>1, BooksStepInv DEF Inv, TypeOK
<1>3. QED
  BY <1>1, <1>2, BooksStepInv, SweepsStay, RebuildsStay DEF Inv

\* The invariant holds at the start.
LEMMA InitInv == Init => Inv
<1> SUFFICES ASSUME Init PROVE Inv
  OBVIOUS
<1>1. /\ \A u \in User : book[u] = NewBook
      /\ \A s \in Sweeper : sweep[s] = IdleSweep
      /\ \A p \in Auditor : rebuild[p] = IdleRebuild
  BY DEF Init
<1>2. TypeOK
  BY NewBookType, IdleSweepType, IdleRebuildType DEF Init, TypeOK, SweepType, RebuildType
<1>3. \A u \in User : BookInv(book[u])
  BY <1>1, NewBookInv
<1>4. SweepsKnowHolds
  BY <1>1 DEF SweepsKnowHolds, IdleSweep
<1>5. RebuildsCurrent
  BY <1>1 DEF RebuildsCurrent, IdleRebuild
<1>6. QED
  BY <1>2, <1>3, <1>4, <1>5 DEF Inv

\* A step that changes nothing keeps the invariant.
LEMMA StutterInv == ASSUME Inv, UNCHANGED vars PROVE Inv'
  BY DEF Inv, TypeOK, SweepsKnowHolds, RebuildsCurrent, vars

\* Every step keeps the invariant.
LEMMA NextInv == Inv /\ [Next]_vars => Inv'
  BY UserStepInv, SweepStepInv, RebuildStepInv, StutterInv DEF Next

\* Every reachable state satisfies the inductive invariant.
THEOREM Invariance == Spec => []Inv
  BY InitInv, NextInv, PTL DEF Spec

-----------------------------------------------------------------------------
(***************************************************************************)
(* The properties of CreditLedger.                                         *)
(***************************************************************************)
\* Balances never become negative and every row keeps its type, whatever runs at once.
THEOREM TypeCorrect == Spec => []TypeOK
<1>1. Inv => TypeOK
  BY DEF Inv
<1>2. QED
  BY <1>1, Invariance, PTL

\* The cached balances are the sums of the ledger in every reachable state.
THEOREM AlwaysReconciles == Spec => []LedgerReconciles
<1>1. Inv => LedgerReconciles
  BY LedgerOfBook DEF Inv, TypeOK, LedgerReconciles
<1>2. QED
  BY <1>1, Invariance, PTL

\* The balances stored with the ledger rows can be replayed up to the account's.
THEOREM AlwaysReplayable == Spec => []RunningBalances
<1>1. Inv => RunningBalances
  BY DEF Inv, BookInv, LeadsTo, RunningBalances, UpToDate
<1>2. QED
  BY <1>1, Invariance, PTL

\* reservedBalance is the sum of the ACTIVE reservations.
THEOREM AlwaysBacked == Spec => []HoldsBacked
<1>1. Inv => HoldsBacked
  BY DEF Inv, BookInv, HoldsBacked
<1>2. QED
  BY <1>1, Invariance, PTL

\* The rows of a reservation cost its owner what is held or was captured.
THEOREM AlwaysAccounted == Spec => []ReservationAccounting
<1>1. Inv => ReservationAccounting
  BY DEF Inv, BookInv, ReservationAccounting
<1>2. QED
  BY <1>1, Invariance, PTL

\* Holds and settlements neither make nor destroy credits.
THEOREM AlwaysConserved == Spec => []CreditsConserved
<1>1. Inv => CreditsConserved
  BY DEF Inv, BookInv, CreditsConserved
<1>2. QED
  BY <1>1, Invariance, PTL

\* Balances, ledger rows and reservations of every account agree, and credits
\* are conserved.
THEOREM AlwaysConsistent == Spec => []AccountsConsistent
<1>1. LedgerReconciles /\ RunningBalances /\ HoldsBacked /\ ReservationAccounting
       /\ CreditsConserved => AccountsConsistent
  BY DEF AccountsConsistent
<1>2. QED
  BY <1>1, AlwaysReconciles, AlwaysReplayable, AlwaysBacked, AlwaysAccounted,
     AlwaysConserved, PTL

\* No operation takes effect twice under one key.
THEOREM AlwaysOncePerKey == Spec => []EffectOncePerKey
<1>1. Inv => EffectOncePerKey
  BY DEF Inv, BookInv, EffectOncePerKey
<1>2. QED
  BY <1>1, Invariance, PTL

\* A reconciliation that sees a difference holds a version that is out of date, so a
\* repair never writes.
THEOREM AlwaysStale == Spec => []MismatchIsStale
<1>1. Inv => MismatchIsStale
  <2> SUFFICES ASSUME Inv, NEW p \in Auditor, rebuild[p].pc = "summed", ~Matches(rebuild[p])
               PROVE  book[rebuild[p].user].version > rebuild[p].version
    BY DEF MismatchIsStale
  <2>1. rebuild[p].user \in User /\ Current(rebuild[p], book[rebuild[p].user])
    BY DEF Inv, RebuildsCurrent
  <2>2. rebuild[p].version \in Nat /\ book[rebuild[p].user].version \in Nat
    BY <2>1, BookFields DEF Inv, TypeOK
  <2>3. QED
    BY <2>1, <2>2 DEF Current
<1>2. QED
  BY <1>1, Invariance, PTL

\* Once captured, released or expired, a reservation keeps what was charged.
THEOREM SettledStaysSettled == Spec => SettledForever
<1>1. ASSUME Inv, [Next]_vars PROVE BooksStep
  <2>1. CASE UNCHANGED vars
    BY <1>1, <2>1, NoBookStep DEF vars
  <2>2. CASE Next
    BY <1>1, <2>2, UserStepBooks, SweepStepBooks, RebuildStepBooks, NoBookStep DEF Next
  <2>3. QED
    BY <1>1, <2>1, <2>2
<1>2. ASSUME Inv, [Next]_vars PROVE [SettledStep]_vars
  BY <1>1, <1>2 DEF BooksStep, BookStep, StaysSettled, SettledStep
<1>3. QED
  BY <1>2, Invariance, PTL DEF Spec, SettledForever

-----------------------------------------------------------------------------
(***************************************************************************)
(* EXPIRED is the sweep's word.  It takes a second invariant, on top of    *)
(* Inv: what a sweep is about to mark it has returned after its TTL.       *)
(***************************************************************************)
Returned(b, id) == HasEntry(b, "RESERVATION_RELEASE", ExpireKey(id))

\* What a sweep has found or done of a book stays.
Remembers(b, c) ==
  /\ \A id \in Nat : Returned(b, id) => Returned(c, id)
  /\ \A id \in DOMAIN b.reservations :
       /\ id \in DOMAIN c.reservations
       /\ b.reservations[id].expired => c.reservations[id].expired

\* A step that makes no hold but one of M EXPIRED.
MarksOnly(b, c, M) ==
  \A id \in DOMAIN c.reservations \ M :
    c.reservations[id].status = "EXPIRED" =>
      id \in DOMAIN b.reservations /\ b.reservations[id].status = "EXPIRED"

\* What a sweep is about to mark it has returned after its TTL.
SweepsReturned ==
  \A s \in Sweeper :
    /\ \A h \in sweep[s].batch : book[h.user].reservations[h.id].expired
    /\ sweep[s].pc = "mark" =>
         LET h == sweep[s].hold
         IN book[h.user].reservations[h.id].expired /\ Returned(book[h.user], h.id)

SweepInv == ExpiredWasSwept /\ SweepsReturned

\* mutate remembers and marks nothing.
LEMMA MutateRemembers ==
  ASSUME NEW b \in Book, NEW type \in Credits \union Debits, NEW key \in Key, NEW delta \in Int
  PROVE  /\ Remembers(b, Mutate(b, type, key, delta))
         /\ MarksOnly(b, Mutate(b, type, key, delta), {})
<1> DEFINE c == Mutate(b, type, key, delta)
<1>1. /\ c.entries = Append(b.entries, MutateEntry(b, type, key, delta))
      /\ c.reservations = b.reservations
  BY DEF Mutate, Updated
<1>2. MutateEntry(b, type, key, delta) \in LedgerEntry
  BY MutateEntryType DEF EntryKey
<1> HIDE DEF c
<1>3. Remembers(b, c) /\ MarksOnly(b, c, {})
  BY <1>1, <1>2, BookFields, HasEntryAppend DEF Remembers, Returned, MarksOnly
<1>4. QED
  BY <1>3 DEF c

\* reserveCredits remembers; its hold is ACTIVE.
LEMMA ReserveRemembers ==
  ASSUME NEW b \in Book, NEW key \in Key, NEW amount \in Int
  PROVE  Remembers(b, Reserve(b, key, amount)) /\ MarksOnly(b, Reserve(b, key, amount), {})
<1> DEFINE c == Reserve(b, key, amount)
           r == NewReservation(key, amount)
<1>1. /\ c.entries = Append(b.entries, ReserveEntry(b, key, amount))
      /\ c.reservations = Append(b.reservations, r)
  BY DEF Reserve, Updated
<1>2. r.status # "EXPIRED"
  BY DEF NewReservation
<1>3. ReserveEntry(b, key, amount) \in LedgerEntry
  BY ReserveEntryType
<1> HIDE DEF c, r
<1>4. /\ DOMAIN c.reservations = DOMAIN b.reservations \union {Len(b.reservations) + 1}
      /\ \A id \in DOMAIN b.reservations : c.reservations[id] = b.reservations[id]
      /\ c.reservations[Len(b.reservations) + 1] = r
  BY <1>1, BookFields
<1>5. Remembers(b, c)
  BY <1>1, <1>3, <1>4, BookFields, HasEntryAppend DEF Remembers, Returned
<1>6. MarksOnly(b, c, {})
  BY <1>2, <1>4 DEF MarksOnly
<1>7. QED
  BY <1>5, <1>6 DEF c

\* Settling a reservation leaves its expiry alone.
LEMMA SettleRemembers ==
  ASSUME NEW b \in Book, NEW c, NEW id \in DOMAIN b.reservations, NEW r,
         c.reservations = [b.reservations EXCEPT ![id] = r],
         r.expired = b.reservations[id].expired,
         \A k \in Nat : Returned(b, k) => Returned(c, k)
  PROVE  /\ Remembers(b, c)
         /\ MarksOnly(b, c, {id})
         /\ r.status # "EXPIRED" => MarksOnly(b, c, {})
<1>1. /\ DOMAIN c.reservations = DOMAIN b.reservations
      /\ \A k \in DOMAIN b.reservations : k # id => c.reservations[k] = b.reservations[k]
      /\ c.reservations[id] = r
  OBVIOUS
<1>2. QED
  BY <1>1 DEF Remembers, MarksOnly

\* captureReservation remembers and marks nothing.
LEMMA CaptureRemembers ==
  ASSUME NEW b \in Book, NEW key \in Key, NEW id \in DOMAIN b.reservations, NEW amount \in Int
  PROVE  Remembers(b, Capture(b, key, id, amount)) /\ MarksOnly(b, Capture(b, key, id, amount), {})
<1> DEFINE c == Capture(b, key, id, amount)
           first == Append(b.entries, CaptureEntry(b, key, id, amount))
           mid == [entries |-> first]
<1>1. /\ c.entries \in {first, Append(first, RemainderEntry(b, key, id, amount))}
      /\ c.reservations = Settle(b, id, "CAPTURED", amount)
  BY DEF Capture, Updated, CaptureRows
<1>2. /\ CaptureEntry(b, key, id, amount) \in LedgerEntry
      /\ RemainderEntry(b, key, id, amount) \in LedgerEntry
  BY CaptureRowsType
<1>3. mid.entries = first /\ first \in Seq(LedgerEntry)
  BY <1>2, BookFields
<1> HIDE DEF c, mid
<1>4. \A k \in Nat : Returned(b, k) => Returned(mid, k)
  BY <1>2, <1>3, BookFields, HasEntryAppend DEF Returned
<1> HIDE DEF first
<1>5. \A k \in Nat : Returned(mid, k) => Returned(c, k)
  <2>1. CASE c.entries = first
    BY <1>3, <2>1 DEF Returned, HasEntry
  <2>2. CASE c.entries = Append(first, RemainderEntry(b, key, id, amount))
    BY <1>2, <1>3, <2>2, HasEntryAppend DEF Returned
  <2>3. QED
    BY <1>1, <2>1, <2>2
<1> DEFINE r == Settled(b.reservations[id], "CAPTURED", amount)
<1>6. Remembers(b, c) /\ MarksOnly(b, c, {})
  <2>1. r.expired = b.reservations[id].expired /\ r.status # "EXPIRED"
    BY DEF Settled
  <2>2. c.reservations = [b.reservations EXCEPT ![id] = r]
    BY <1>1 DEF Settle
  <2>3. \A k \in Nat : Returned(b, k) => Returned(c, k)
    BY <1>4, <1>5
  <2> HIDE DEF r
  <2>4. QED
    BY <2>1, <2>2, <2>3, SettleRemembers
<1>7. QED
  BY <1>6 DEF c

\* releaseReservation remembers and marks nothing; under the sweep's key it returns the hold.
LEMMA ReleaseRemembers ==
  ASSUME NEW b \in Book, NEW key \in EntryKey, NEW id \in DOMAIN b.reservations
  PROVE  /\ Remembers(b, Release(b, key, id)) /\ MarksOnly(b, Release(b, key, id), {})
         /\ key = ExpireKey(id) => Returned(Release(b, key, id), id)
<1> DEFINE c == Release(b, key, id)
           e == ReleaseEntry(b, key, id)
<1>1. /\ c.entries = Append(b.entries, e)
      /\ c.reservations = Settle(b, id, "RELEASED", b.reservations[id].capturedAmount)
  BY DEF Release, Updated
<1>2. e \in LedgerEntry /\ e.type = "RESERVATION_RELEASE" /\ e.idempotencyKey = key
  BY ReleaseEntryType DEF ReleaseEntry, Entry
<1> HIDE DEF c, e
<1>3. \A k \in Nat : Returned(b, k) => Returned(c, k)
  BY <1>1, <1>2, BookFields, HasEntryAppend DEF Returned
<1> DEFINE r == Settled(b.reservations[id], "RELEASED", b.reservations[id].capturedAmount)
<1>4. Remembers(b, c) /\ MarksOnly(b, c, {})
  <2>1. r.expired = b.reservations[id].expired /\ r.status # "EXPIRED"
    BY DEF Settled
  <2>2. c.reservations = [b.reservations EXCEPT ![id] = r]
    BY <1>1 DEF Settle
  <2> HIDE DEF r
  <2>3. QED
    BY <1>3, <2>1, <2>2, SettleRemembers
<1>5. key = ExpireKey(id) => Returned(c, id)
  BY <1>1, <1>2, BookFields, HasEntryAppend DEF Returned
<1>6. QED
  BY <1>4, <1>5 DEF c

\* The sweep's mark remembers, and marks one hold at most.
LEMMA MarkRemembers ==
  ASSUME NEW b \in Book, NEW id \in DOMAIN b.reservations
  PROVE  Remembers(b, MarkExpired(b, id)) /\ MarksOnly(b, MarkExpired(b, id), {id})
<1>1. CASE b.reservations[id].status # "RELEASED"
  BY <1>1 DEF MarkExpired, Remembers, MarksOnly
<1>2. CASE b.reservations[id].status = "RELEASED"
  <2> DEFINE c == MarkExpired(b, id)
             r == Settled(b.reservations[id], "EXPIRED", b.reservations[id].capturedAmount)
             all == [b.reservations EXCEPT ![id] = r]
  <2>1. c = [b EXCEPT !.reservations = all]
    BY <1>2 DEF MarkExpired, Settle
  <2>2. r.expired = b.reservations[id].expired
    BY DEF Settled
  <2> HIDE DEF c, all, r
  <2>3. c.reservations = all /\ c.entries = b.entries
    BY <2>1 DEF Book
  <2>4. \A k \in Nat : Returned(b, k) => Returned(c, k)
    BY <2>3 DEF Returned, HasEntry
  <2>5. c.reservations = [b.reservations EXCEPT ![id] = r]
    BY <2>3 DEF all
  <2>6. Remembers(b, c) /\ MarksOnly(b, c, {id})
    BY <2>2, <2>4, <2>5, SettleRemembers
  <2>7. QED
    BY <2>6 DEF c
<1>3. QED
  BY <1>1, <1>2

\* The passing of an expiry time remembers and marks nothing.
LEMMA OverdueRemembers ==
  ASSUME NEW b \in Book, NEW id \in DOMAIN b.reservations
  PROVE  Remembers(b, Overdue(b, id)) /\ MarksOnly(b, Overdue(b, id), {})
<1> DEFINE late == [b.reservations[id] EXCEPT !.expired = TRUE]
           all == [b.reservations EXCEPT ![id] = late]
           c == Overdue(b, id)
<1>1. late.expired
  BY ReservationFields DEF Reservation
<1>2. c = [b EXCEPT !.reservations = all]
  BY DEF Overdue
<1> HIDE DEF late
<1>3. /\ all[id].expired
      /\ \A k \in DOMAIN b.reservations : k # id => all[k] = b.reservations[k]
  BY <1>1
<1> HIDE DEF c, all
<1>4. c.reservations = all
  BY <1>2 DEF Book
<1>5. c.entries = b.entries
  BY <1>2 DEF Book
<1>6. /\ DOMAIN c.reservations = DOMAIN b.reservations
      /\ \A k \in DOMAIN b.reservations : c.reservations[k].status = b.reservations[k].status
  BY OverdueFields DEF c
<1>7. Remembers(b, c)
  BY <1>3, <1>4, <1>5, <1>6 DEF Remembers, Returned, HasEntry
<1>8. MarksOnly(b, c, {})
  BY <1>6 DEF MarksOnly
<1>9. QED
  BY <1>7, <1>8 DEF c

BooksRemember ==
  \A u \in User : Remembers(book[u], book'[u]) /\ MarksOnly(book[u], book'[u], {})

\* One book changes.
LEMMA OneBookRemembers ==
  ASSUME Inv, NEW u \in User, NEW b, book' = [book EXCEPT ![u] = b],
         Remembers(book[u], b), NEW M, MarksOnly(book[u], b, M)
  PROVE  /\ \A v \in User : /\ Remembers(book[v], book'[v])
                            /\ v # u => MarksOnly(book[v], book'[v], {})
         /\ MarksOnly(book[u], book'[u], M)
<1>1. book'[u] = b /\ \A v \in User : v # u => book'[v] = book[v]
  BY DEF Inv, TypeOK
<1>2. \A v \in User : Remembers(book[v], book[v]) /\ MarksOnly(book[v], book[v], {})
  BY DEF Remembers, MarksOnly
<1>3. QED
  BY <1>1, <1>2

\* The operations on one book remember and mark nothing.
LEMMA SetBookRemembers ==
  ASSUME Inv, NEW u \in User, NEW b, SetBook(u, b),
         Remembers(book[u], b), MarksOnly(book[u], b, {})
  PROVE  BooksRemember
  BY OneBookRemembers DEF SetBook, BooksRemember

\* The same for every operation a user's requests run.
LEMMA UserStepRemembers ==
  ASSUME Inv, NEW u \in User, UserStep(u)
  PROVE  BooksRemember
<1>1. book[u] \in Book /\ BookInv(book[u])
  BY DEF Inv, TypeOK
<1>2. \A amount \in Amount : amount \in Int /\ -amount \in Int
  BY AmountAssumption
<1>3. ASSUME NEW type \in Credits \union Debits, NEW key \in Key, NEW amount \in Amount,
             NEW delta \in Int, MutateBook(u, type, key, amount, delta)
      PROVE  BooksRemember
  BY <1>1, <1>3, MutateRemembers, SetBookRemembers DEF MutateBook
<1>4. ASSUME NEW key \in Key, NEW amount \in Amount,
             \/ \E purchase \in BOOLEAN : GrantCredits(u, key, amount, purchase)
             \/ GrantPromotionCredits(u, key, amount) \/ RefundCredits(u, key, amount)
             \/ DeductCredits(u, key, amount) \/ ConsumeCredits(u, key, amount)
      PROVE  BooksRemember
  BY <1>2, <1>3, <1>4 DEF GrantCredits, GrantPromotionCredits, RefundCredits, DeductCredits,
                          ConsumeCredits, Credits, Debits
<1>5. ASSUME NEW key \in Key, NEW amount \in Amount, ReserveCredits(u, key, amount)
      PROVE  BooksRemember
  BY <1>1, <1>2, <1>5, ReserveRemembers, SetBookRemembers DEF ReserveCredits
<1>6. ASSUME NEW key \in Key, NEW amount \in Amount, NEW id \in DOMAIN book[u].reservations,
             CaptureReservation(u, key, id, amount)
      PROVE  BooksRemember
  BY <1>1, <1>2, <1>6, CaptureRemembers, SetBookRemembers DEF CaptureReservation
<1>7. ASSUME NEW key \in Key, NEW id \in DOMAIN book[u].reservations,
             ReleaseReservation(u, key, id)
      PROVE  BooksRemember
  <2>1. key \in EntryKey
    BY DEF EntryKey
  <2>2. QED
    BY <1>1, <1>7, <2>1, ReleaseRemembers, SetBookRemembers DEF ReleaseReservation
<1>8. ASSUME NEW id \in DOMAIN book[u].reservations, TtlElapses(u, id)
      PROVE  BooksRemember
  BY <1>1, <1>8, OverdueRemembers, SetBookRemembers DEF TtlElapses
<1>9. QED
  BY <1>4, <1>5, <1>6, <1>7, <1>8 DEF UserStep

\* A book that is not marked keeps EXPIRED to what was returned after its TTL.
LEMMA UnmarkedSwept ==
  ASSUME Inv, ExpiredWasSwept, NEW u \in User, NEW M,
         Remembers(book[u], book'[u]), MarksOnly(book[u], book'[u], M),
         NEW id \in DOMAIN book'[u].reservations \ M,
         book'[u].reservations[id].status = "EXPIRED"
  PROVE  book'[u].reservations[id].expired /\ Returned(book'[u], id)
<1>1. /\ id \in DOMAIN book[u].reservations
      /\ book[u].reservations[id].expired /\ Returned(book[u], id)
  BY DEF MarksOnly, ExpiredWasSwept, Returned
<1>2. id \in Nat
  BY <1>1, ReservationFields DEF Inv, TypeOK
<1>3. QED
  BY <1>1, <1>2 DEF Remembers

\* A step that marks nothing keeps EXPIRED to what was returned after its TTL.
LEMMA UnmarkedBooks ==
  ASSUME Inv, SweepInv, BooksRemember
  PROVE  ExpiredWasSwept'
<1>1. ASSUME NEW u \in User, NEW id \in DOMAIN book'[u].reservations,
             book'[u].reservations[id].status = "EXPIRED"
      PROVE  book'[u].reservations[id].expired /\ Returned(book'[u], id)
  BY <1>1, UnmarkedSwept DEF SweepInv, BooksRemember
<1>2. QED
  BY <1>1 DEF ExpiredWasSwept, Returned, HasEntry

\* What a sweep has found and done stays found and done.
LEMMA SweepStays ==
  ASSUME Inv, SweepsReturned, \A u \in User : Remembers(book[u], book'[u]), NEW s \in Sweeper
  PROVE  /\ \A h \in sweep[s].batch : book'[h.user].reservations[h.id].expired
         /\ sweep[s].pc = "mark" =>
              /\ book'[sweep[s].hold.user].reservations[sweep[s].hold.id].expired
              /\ Returned(book'[sweep[s].hold.user], sweep[s].hold.id)
<1>1. /\ \A h \in sweep[s].batch : h.user \in User /\ h.id \in DOMAIN book[h.user].reservations
      /\ sweep[s].pc = "mark" =>
           /\ sweep[s].hold.user \in User
           /\ sweep[s].hold.id \in DOMAIN book[sweep[s].hold.user].reservations
      /\ sweep[s].hold.id \in Nat
  BY DEF Inv, TypeOK, SweepsKnowHolds
<1>2. /\ \A h \in sweep[s].batch : book[h.user].reservations[h.id].expired
      /\ sweep[s].pc = "mark" =>
           /\ book[sweep[s].hold.user].reservations[sweep[s].hold.id].expired
           /\ Returned(book[sweep[s].hold.user], sweep[s].hold.id)
  BY DEF SweepsReturned
<1>3. QED
  BY <1>1, <1>2 DEF Remembers

\* A step that remembers and marks nothing keeps the second invariant, if it leaves the sweeps.
LEMMA RememberingKeeps ==
  ASSUME Inv, SweepInv, BooksRemember, UNCHANGED sweep
  PROVE  SweepInv'
<1>1. ExpiredWasSwept'
  BY SMTT(30), UnmarkedBooks
<1>2. SweepsReturned'
  BY SweepStays DEF SweepInv, BooksRemember, SweepsReturned, Returned, HasEntry
<1>3. QED
  BY <1>1, <1>2 DEF SweepInv

\* One sweep moves on, to holds that are expired and a mark of one it returned.
LEMMA OneSweepReturned ==
  ASSUME Inv, SweepInv, \A u \in User : Remembers(book[u], book'[u]), ExpiredWasSwept',
         NEW s \in Sweeper, NEW new, sweep' = [sweep EXCEPT ![s] = new],
         \A h \in new.batch : book'[h.user].reservations[h.id].expired,
         new.pc = "mark" => /\ book'[new.hold.user].reservations[new.hold.id].expired
                            /\ Returned(book'[new.hold.user], new.hold.id)
  PROVE  SweepInv'
<1>1. SweepsReturned'
  <2> SUFFICES ASSUME NEW t \in Sweeper
               PROVE  /\ \A h \in sweep'[t].batch : book'[h.user].reservations[h.id].expired
                      /\ sweep'[t].pc = "mark" =>
                           /\ book'[sweep'[t].hold.user].reservations[sweep'[t].hold.id].expired
                           /\ Returned(book'[sweep'[t].hold.user], sweep'[t].hold.id)
    BY DEF SweepsReturned, Returned, HasEntry
  <2>1. CASE t = s
    <3>1. sweep'[t] = new
      BY <2>1 DEF Inv, TypeOK
    <3>2. QED
      BY <3>1
  <2>2. CASE t # s
    <3>1. sweep'[t] = sweep[t]
      BY <2>2 DEF Inv, TypeOK
    <3>2. QED
      BY <3>1, SweepStays DEF SweepInv
  <2>3. QED
    BY <2>1, <2>2
<1>2. QED
  BY <1>1 DEF SweepInv

\* Every step of a sweep, its crash included, keeps the second invariant.
LEMMA SweepStepReturned ==
  ASSUME Inv, SweepInv, NEW s \in Sweeper, SweepStep(s) \/ SweepCrash(s)
  PROVE  SweepInv'
<1>1. /\ \A h \in sweep[s].batch :
           /\ h.user \in User /\ h.id \in DOMAIN book[h.user].reservations /\ h.id \in Nat
           /\ book[h.user].reservations[h.id].expired
      /\ \A u \in User : book[u] \in Book
  BY DEF Inv, TypeOK, SweepsKnowHolds, SweepInv, SweepsReturned
<1>2. IdleSweep.batch = {} /\ IdleSweep.pc # "mark"
  BY DEF IdleSweep
<1>3. ASSUME UNCHANGED book PROVE BooksRemember /\ ExpiredWasSwept'
  <2>1. BooksRemember
    BY <1>3 DEF BooksRemember, Remembers, MarksOnly
  <2>2. QED
    BY <1>3, <2>1 DEF SweepInv, ExpiredWasSwept, HasEntry
<1>4. CASE SweepFind(s)
  <2>1. PICK batch \in SUBSET ExpiredHolds \ {{}} :
          sweep' = [sweep EXCEPT ![s] = [pc |-> "release", batch |-> batch, hold |-> NoHold]]
    BY <1>4 DEF SweepFind
  <2>2. book' = book
    BY <1>4 DEF SweepFind
  <2>3. \A h \in batch : book'[h.user].reservations[h.id].expired
    BY <2>1, <2>2 DEF ExpiredHolds
  <2> DEFINE new == [pc |-> "release", batch |-> batch, hold |-> NoHold]
  <2>4. new.batch = batch /\ new.pc # "mark" /\ sweep' = [sweep EXCEPT ![s] = new]
    BY <2>1
  <2> HIDE DEF new
  <2>5. QED
    BY <1>3, <2>2, <2>3, <2>4, OneSweepReturned DEF BooksRemember
<1>5. CASE SweepRelease(s)
  <2>1. PICK h \in sweep[s].batch :
          /\ \/ /\ ReleaseOk(book[h.user], ExpireKey(h.id), h.id)
                /\ book' = [book EXCEPT ![h.user] = Release(book[h.user], ExpireKey(h.id), h.id)]
             \/ /\ HasEntry(book[h.user], "RESERVATION_RELEASE", ExpireKey(h.id))
                /\ UNCHANGED book
          /\ sweep' = [sweep EXCEPT ![s] = [pc |-> "mark", batch |-> sweep[s].batch, hold |-> h]]
    BY <1>5 DEF SweepRelease
  <2> DEFINE b == Release(book[h.user], ExpireKey(h.id), h.id)
  <2>2. ExpireKey(h.id) \in EntryKey
    BY <1>1 DEF EntryKey, ExpireKey
  <2>3. /\ Remembers(book[h.user], b) /\ MarksOnly(book[h.user], b, {})
        /\ Returned(b, h.id)
    BY <1>1, <2>2, ReleaseRemembers
  <2> HIDE DEF b
  <2>4. BooksRemember /\ Returned(book'[h.user], h.id)
    <3>1. CASE book' = [book EXCEPT ![h.user] = b]
      <4>1. book'[h.user] = b
        BY <1>1, <3>1 DEF Inv, TypeOK
      <4>2. QED
        BY <1>1, <2>3, <3>1, <4>1, OneBookRemembers DEF BooksRemember
    <3>2. CASE /\ HasEntry(book[h.user], "RESERVATION_RELEASE", ExpireKey(h.id))
               /\ UNCHANGED book
      BY <1>3, <3>2 DEF Returned
    <3>3. QED
      BY <2>1, <3>1, <3>2 DEF b
  <2>5. ExpiredWasSwept'
    BY <2>4, UnmarkedBooks
  <2>6. \A g \in sweep[s].batch : book'[g.user].reservations[g.id].expired
    BY <2>4, SweepStays DEF SweepInv, BooksRemember
  <2> DEFINE new == [pc |-> "mark", batch |-> sweep[s].batch, hold |-> h]
  <2>7. /\ new.batch = sweep[s].batch /\ new.hold = h
        /\ sweep' = [sweep EXCEPT ![s] = new]
    BY <2>1
  <2> HIDE DEF new
  <2>8. QED
    BY <2>4, <2>5, <2>6, <2>7, OneSweepReturned DEF BooksRemember
<1>6. CASE SweepAbort(s) \/ SweepCrash(s)
  <2>1. UNCHANGED book /\ sweep' = [sweep EXCEPT ![s] = IdleSweep]
    BY <1>6 DEF SweepAbort, SweepCrash
  <2>2. QED
    BY <1>2, <1>3, <2>1, OneSweepReturned DEF BooksRemember
<1>7. CASE SweepMark(s)
  <2> DEFINE h == sweep[s].hold
             b == MarkExpired(book[h.user], h.id)
             new == [pc |-> "release", batch |-> sweep[s].batch \ {h}, hold |-> NoHold]
  <2>1. /\ sweep[s].pc = "mark" /\ book' = [book EXCEPT ![h.user] = b]
        /\ \/ sweep' = [sweep EXCEPT ![s] = IdleSweep]
           \/ sweep' = [sweep EXCEPT ![s] = new]
    BY <1>7 DEF SweepMark
  <2>2. h.user \in User /\ h.id \in DOMAIN book[h.user].reservations
    BY <2>1 DEF Inv, SweepsKnowHolds
  <2>3. Remembers(book[h.user], b) /\ MarksOnly(book[h.user], b, {h.id})
    BY <1>1, <2>2, MarkRemembers
  <2> HIDE DEF b
  <2>4. /\ \A v \in User : /\ Remembers(book[v], book'[v])
                           /\ v # h.user => MarksOnly(book[v], book'[v], {})
        /\ MarksOnly(book[h.user], book'[h.user], {h.id})
    BY <2>1, <2>2, <2>3, OneBookRemembers
  <2>5. book'[h.user].reservations[h.id].expired /\ Returned(book'[h.user], h.id)
    BY <2>1, <2>4, SweepStays DEF SweepInv
  <2>6. ExpiredWasSwept'
    <3> SUFFICES ASSUME NEW u \in User, NEW id \in DOMAIN book'[u].reservations,
                        book'[u].reservations[id].status = "EXPIRED"
                 PROVE  book'[u].reservations[id].expired /\ Returned(book'[u], id)
      BY DEF ExpiredWasSwept, Returned, HasEntry
    <3>1. CASE u = h.user /\ id = h.id
      BY <2>5, <3>1
    <3>2. CASE u = h.user /\ id # h.id
      BY <2>4, <3>2, UnmarkedSwept DEF SweepInv
    <3>3. CASE u # h.user
      BY <2>4, <3>3, UnmarkedSwept DEF SweepInv
    <3>4. QED
      BY <3>1, <3>2, <3>3
  <2>7. \A g \in sweep[s].batch : book'[g.user].reservations[g.id].expired
    BY <2>4, SweepStays DEF SweepInv
  <2>8. new.batch \subseteq sweep[s].batch /\ new.pc # "mark"
    OBVIOUS
  <2> HIDE DEF new
  <2>9. QED
    BY <1>2, <2>1, <2>4, <2>6, <2>7, <2>8, OneSweepReturned
<1>8. QED
  BY <1>4, <1>5, <1>6, <1>7 DEF SweepStep

\* A hold is EXPIRED only if the sweep returned it after its TTL.
THEOREM ExpiredMeansSwept == Spec => []ExpiredWasSwept
<1>1. Init => SweepInv
  <2> SUFFICES ASSUME Init PROVE SweepInv
    OBVIOUS
  <2>1. /\ \A u \in User : book[u].reservations = << >>
        /\ \A s \in Sweeper : sweep[s] = IdleSweep
    BY DEF Init, NewBook
  <2>2. QED
    BY <2>1 DEF SweepInv, ExpiredWasSwept, SweepsReturned, IdleSweep
<1>2. ASSUME Inv, SweepInv, [Next]_vars PROVE SweepInv'
  <2>1. CASE UNCHANGED vars
    <3>1. BooksRemember /\ UNCHANGED sweep
      BY <2>1 DEF vars, BooksRemember, Remembers, MarksOnly
    <3>2. QED
      BY <1>2, <3>1, RememberingKeeps
  <2>2. ASSUME NEW u \in User, UserStep(u) PROVE SweepInv'
    BY <1>2, <2>2, UserStepBooks, UserStepRemembers, RememberingKeeps
  <2>3. ASSUME NEW p \in Auditor, RebuildStep(p) PROVE SweepInv'
    <3>1. UNCHANGED <<book, sweep>>
      BY <1>2, <2>3, RebuildStepBooks
         DEF RebuildStep, RebuildReadAccount, RebuildSumLedger, RebuildFinish
    <3>2. BooksRemember
      BY <3>1 DEF BooksRemember, Remembers, MarksOnly
    <3>3. QED
      BY <1>2, <3>1, <3>2, RememberingKeeps
  <2>4. QED
    BY <1>2, <2>1, <2>2, <2>3, SweepStepReturned DEF Next
<1>3. SweepInv => ExpiredWasSwept
  BY DEF SweepInv
<1>4. QED
  BY <1>1, <1>2, <1>3, Invariance, PTL DEF Spec

-----------------------------------------------------------------------------
(***************************************************************************)
(* Orders: the inductive invariant.                                        *)
(***************************************************************************)
Statuses == {"NONE", "CREATED", "PENDING_PAYMENT", "PAID", "FAILED", "CANCELLED", "REFUNDED"}
Announcement == [id : Event, payment : Payment, successful : BOOLEAN]

Calls ==
  [pc : {"idle"}] \union [pc : {"asking"}, order : Order]
    \union [pc : {"created"}, order : Order, payment : Payment]

Handling(announced) ==
  [pc : {"idle"}] \union [pc : {"insert", "check", "settle"}, event : announced]

PurchaseRow == [type : {"PURCHASE"}, key : Event, order : Order, payment : Payment]
RefundRow == [type : {"REFUND"}, key : RefundKey, order : Order, amount : 1..CreditTotal]

TypeInv ==
  /\ order \in [Order -> [status : Statuses, payment : Payment \union {"none"},
                          expired : BOOLEAN]]
  /\ attempt \in [Payment -> {"NONE", "PENDING", "FAILED", "SUCCEEDED"}]
  /\ webhook \in [Event -> {"NONE", "RECEIVED", "PROCESSED"}]
  /\ ledger \subseteq PurchaseRow \union RefundRow
  /\ IsFiniteSet(ledger)
  /\ issued \in [Payment -> Order \union {"none"}]
  /\ sent \subseteq Announcement
  /\ call \in [Caller -> Calls]
  /\ handler \in [Handler -> Handling(sent)]

\* What was announced belongs to a payment the provider issued, under an id of its own.
Announced ==
  /\ \A a \in sent : issued[a.payment] \in Order
  /\ \A a, b \in sent : a.id = b.id => a = b

\* The database knows announced events only, and books credits for announced successes.
Known ==
  /\ \A e \in Event : webhook[e] # "NONE" => \E a \in sent : a.id = e
  /\ \A r \in ledger : r.type = "PURCHASE" =>
       /\ r.order = issued[r.payment]
       /\ \E a \in sent : a.id = r.key /\ a.successful /\ a.payment = r.payment

OrdersInv ==
  /\ TypeInv
  /\ Announced
  /\ Known
  /\ ProcessedIffCredited
  /\ PaidWasCredited
  /\ RefundsWithinPurchase

-----------------------------------------------------------------------------
(***************************************************************************)
(* The steps.                                                              *)
(***************************************************************************)

\* What an order has refunded is a number, and depends on the ledger alone.
LEMMA RefundedInt ==
  ASSUME TypeInv, NEW o \in Order
  PROVE  /\ IsFiniteSet(Refunds(o))
         /\ Refunded(o) \in Int
         /\ Refunds(o) = {} => Refunded(o) = 0
<1>1. IsFiniteSet(Refunds(o)) BY FS_Subset DEF TypeInv, Refunds
<1> DEFINE f == [r \in Refunds(o) |-> r.amount]
<1>2. \A r \in Refunds(o) : f[r] \in Int
  BY DEF TypeInv, Refunds, PurchaseRow, RefundRow
<1>3. SumFunctionOnSet(f, Refunds(o)) \in Int BY <1>1, <1>2, SumRemove
<1>4. Refunds(o) = {} => SumFunctionOnSet(f, Refunds(o)) = 0
  <2>1. SumFunctionOnSet(f, {}) = 0 BY SumEmpty
  <2> QED BY <2>1, Zenon
<1> QED BY <1>1, <1>3, <1>4 DEF Refunded

\* No order exists, nothing was issued and nothing was announced.
LEMMA OrdersInitInv == OrdersInit => OrdersInv
<1> SUFFICES ASSUME OrdersInit PROVE OrdersInv OBVIOUS
<1>1. TypeInv
  BY FS_EmptySet DEF OrdersInit, ProviderInit, TypeInv, Statuses, Calls, Handling, IdleCall,
         IdleHandler
<1>2. Announced /\ Known /\ ProcessedIffCredited /\ PaidWasCredited
  BY DEF OrdersInit, ProviderInit, Announced, Known, ProcessedIffCredited, PaidWasCredited
<1>3. RefundsWithinPurchase
  <2>1. \A o \in Order : Refunds(o) = {} /\ order[o].status = "NONE" BY DEF OrdersInit, Refunds
  <2> QED BY <1>1, <2>1, RefundedInt, CreditTotalAssumption DEF RefundsWithinPurchase
<1> QED BY <1>1, <1>2, <1>3 DEF OrdersInv

\* A step that leaves the ledger, the events and the provider alone keeps the invariant when
\* no order becomes PAID or REFUNDED by it.
LEMMA QuietKeeps ==
  ASSUME OrdersInv, UNCHANGED <<webhook, ledger, issued, sent>>,
         order' \in [Order -> [status : Statuses, payment : Payment \union {"none"},
                               expired : BOOLEAN]],
         attempt' \in [Payment -> {"NONE", "PENDING", "FAILED", "SUCCEEDED"}],
         call' \in [Caller -> Calls],
         handler' \in [Handler -> Handling(sent)],
         \A o \in Order : order'[o].status \in {"PAID", "REFUNDED"} =>
                            order'[o].status = order[o].status
  PROVE  OrdersInv'
<1>1. TypeInv' BY DEF OrdersInv, TypeInv, Handling
<1>2. Announced' /\ Known' /\ ProcessedIffCredited'
  BY DEF OrdersInv, Announced, Known, ProcessedIffCredited
<1>3. \A o \in Order : /\ Purchases(o)' = Purchases(o)
                       /\ Refunds(o)' = Refunds(o)
                       /\ Refunded(o)' = Refunded(o)
  BY DEF Purchases, Refunds, Refunded
<1>4. PaidWasCredited' BY <1>3 DEF OrdersInv, PaidWasCredited
<1>5. RefundsWithinPurchase' BY <1>3 DEF OrdersInv, RefundsWithinPurchase
<1> QED BY <1>1, <1>2, <1>4, <1>5 DEF OrdersInv

\* A payment is issued for an order: no announcement was about it before.
LEMMA CreateKeeps ==
  ASSUME OrdersInv, NEW c \in Caller, StartPaymentCreate(c)
  PROVE  OrdersInv'
<1>1. PICK p \in Payment :
        /\ call[c].pc = "asking"
        /\ issued[p] = "none"
        /\ issued' = [issued EXCEPT ![p] = call[c].order]
        /\ call' = [call EXCEPT ![c] =
                      [pc |-> "created", order |-> call[c].order, payment |-> p]]
        /\ UNCHANGED <<order, attempt, webhook, ledger, sent, handler, deaths>>
  BY DEF StartPaymentCreate, Issue, rows
<1>2. call[c].order \in Order BY <1>1 DEF OrdersInv, TypeInv, Calls
<1>3. TypeInv'
  <2>1. call' \in [Caller -> Calls] BY <1>1, <1>2 DEF OrdersInv, TypeInv, Calls
  <2>2. issued' \in [Payment -> Order \union {"none"}] BY <1>1, <1>2 DEF OrdersInv, TypeInv
  <2> QED BY <1>1, <2>1, <2>2 DEF OrdersInv, TypeInv
<1>4. \A a \in sent : a.payment # p /\ issued'[a.payment] = issued[a.payment]
  BY <1>1, NoneAssumption DEF OrdersInv, TypeInv, Announced, Announcement
<1>5. Announced' BY <1>1, <1>4 DEF OrdersInv, Announced
<1>6. \A r \in ledger : r.type = "PURCHASE" => issued'[r.payment] = issued[r.payment]
  BY <1>4 DEF OrdersInv, Known
<1>7. Known' BY <1>1, <1>6 DEF OrdersInv, Known
<1>8. ProcessedIffCredited' BY <1>1 DEF OrdersInv, ProcessedIffCredited
<1>9. PaidWasCredited' BY <1>1 DEF OrdersInv, PaidWasCredited, Purchases
<1>10. RefundsWithinPurchase'
  BY <1>1 DEF OrdersInv, RefundsWithinPurchase, Purchases, Refunds, Refunded
<1> QED BY <1>3, <1>5, <1>7, <1>8, <1>9, <1>10 DEF OrdersInv

\* An announcement takes an id no event row and no entry has.
LEMMA AnnounceKeeps ==
  ASSUME OrdersInv, PaymentAnnounced
  PROVE  OrdersInv'
<1>1. PICK e \in Event, p \in Payment, successful \in BOOLEAN : Announce(e, p, successful)
  BY DEF PaymentAnnounced
<1> DEFINE new == [id |-> e, payment |-> p, successful |-> successful]
<1>2. /\ issued[p] # "none"
      /\ \A a \in sent : a.id # e
      /\ sent' = sent \union {new}
      /\ UNCHANGED <<order, attempt, webhook, ledger, issued, call, handler, deaths>>
  BY <1>1 DEF PaymentAnnounced, Announce, rows
<1>3. new \in Announcement BY DEF Announcement
<1>4. new.id = e /\ new.payment = p OBVIOUS
<1> HIDE DEF new
<1>5. TypeInv' BY <1>2, <1>3 DEF OrdersInv, TypeInv, Handling
<1>6. Announced' BY <1>2, <1>4 DEF OrdersInv, TypeInv, Announced
<1>7. Known' BY <1>2 DEF OrdersInv, Known
<1>8. webhook[e] = "NONE" /\ \A r \in ledger : r.type = "PURCHASE" => r.key # e
  BY <1>2 DEF OrdersInv, TypeInv, Known
<1>9. ProcessedIffCredited' BY <1>2, <1>4, <1>8 DEF OrdersInv, ProcessedIffCredited
<1>10. PaidWasCredited' BY <1>2 DEF OrdersInv, PaidWasCredited, Purchases
<1>11. RefundsWithinPurchase'
  BY <1>2 DEF OrdersInv, RefundsWithinPurchase, Purchases, Refunds, Refunded
<1> QED BY <1>5, <1>6, <1>7, <1>9, <1>10, <1>11 DEF OrdersInv

\* The event row of an announcement, under a unique id.
LEMMA InsertKeeps ==
  ASSUME OrdersInv, NEW h \in Handler, WebhookInsert(h), webhook[handler[h].event.id] = "NONE"
  PROVE  OrdersInv'
<1> DEFINE a == handler[h].event
<1>1. /\ handler[h].pc = "insert"
      /\ webhook' = [webhook EXCEPT ![a.id] = "RECEIVED"]
      /\ handler' = [handler EXCEPT ![h].pc = "check"]
      /\ UNCHANGED <<order, attempt, ledger, issued, sent, call, deaths>>
  BY DEF WebhookInsert, provider
<1>2. a \in sent /\ a.id \in Event
  BY <1>1 DEF OrdersInv, TypeInv, Handling, Announcement
<1>3. TypeInv'
  <2>1. handler' \in [Handler -> Handling(sent)] BY <1>1 DEF OrdersInv, TypeInv, Handling
  <2> QED BY <1>1, <1>2, <2>1 DEF OrdersInv, TypeInv
<1>4. Announced' BY <1>1 DEF OrdersInv, Announced
<1>5. Known' BY <1>1, <1>2 DEF OrdersInv, TypeInv, Known
<1>6. ProcessedIffCredited'
  BY <1>1, <1>2 DEF OrdersInv, TypeInv, ProcessedIffCredited, Announcement
<1>7. PaidWasCredited' BY <1>1 DEF OrdersInv, PaidWasCredited, Purchases
<1>8. RefundsWithinPurchase'
  BY <1>1 DEF OrdersInv, RefundsWithinPurchase, Purchases, Refunds, Refunded
<1> QED BY <1>3, <1>4, <1>5, <1>6, <1>7, <1>8 DEF OrdersInv

\* A failure settles an event that no success shares, and takes credits from nobody.
LEMMA FailKeeps ==
  ASSUME OrdersInv, NEW h \in Handler, WebhookFail(h)
  PROVE  OrdersInv'
<1> DEFINE a == handler[h].event
           o == issued[a.payment]
<1>1. /\ handler[h].pc = "settle"
      /\ ~a.successful
      /\ order' = [order EXCEPT ![o].status = "FAILED"]
      /\ attempt' = [attempt EXCEPT ![a.payment] = "FAILED"]
      /\ webhook' = [webhook EXCEPT ![a.id] = "PROCESSED"]
      /\ handler' = [handler EXCEPT ![h] = IdleHandler]
      /\ UNCHANGED <<ledger, issued, sent, call, deaths>>
  BY DEF WebhookFail, provider
<1>2. a \in sent /\ a.id \in Event /\ o \in Order
  BY <1>1 DEF OrdersInv, TypeInv, Handling, Announcement, Announced
<1> HIDE DEF a, o
<1>3. TypeInv'
  <2>1. handler' \in [Handler -> Handling(sent)]
    BY <1>1 DEF OrdersInv, TypeInv, Handling, IdleHandler
  <2>2. order' \in [Order -> [status : Statuses, payment : Payment \union {"none"},
                              expired : BOOLEAN]]
    BY ZenonT(90), <1>1 DEF OrdersInv, TypeInv, Statuses
  <2>3. attempt' \in [Payment -> {"NONE", "PENDING", "FAILED", "SUCCEEDED"}]
    BY <1>1 DEF OrdersInv, TypeInv
  <2> QED BY <1>1, <2>1, <2>2, <2>3 DEF OrdersInv, TypeInv
<1>4. Announced' BY <1>1 DEF OrdersInv, Announced
<1>5. Known' BY <1>1, <1>2 DEF OrdersInv, TypeInv, Known
<1>6. \A b \in sent : b.successful => b.id # a.id BY <1>1, <1>2 DEF OrdersInv, Announced
<1>7. ProcessedIffCredited'
  BY <1>1, <1>6 DEF OrdersInv, TypeInv, ProcessedIffCredited, Announcement
<1>8. \A q \in Order : order'[q].status \in {"PAID", "REFUNDED"} =>
                         order'[q].status = order[q].status
  BY <1>1, <1>2 DEF OrdersInv, TypeInv
<1>9. PaidWasCredited' BY <1>1, <1>8 DEF OrdersInv, PaidWasCredited, Purchases
<1>10. RefundsWithinPurchase'
  BY <1>1, <1>8 DEF OrdersInv, RefundsWithinPurchase, Purchases, Refunds, Refunded
<1> QED BY <1>3, <1>4, <1>5, <1>7, <1>9, <1>10 DEF OrdersInv

\* completePurchase books the credits and marks the event in one transaction.
LEMMA CompleteKeeps ==
  ASSUME OrdersInv, NEW h \in Handler, WebhookComplete(h)
  PROVE  OrdersInv'
<1> DEFINE a == handler[h].event
<1>o. PICK o \in Order : o = issued[a.payment]
  <2>1. a \in sent BY DEF OrdersInv, TypeInv, Handling, WebhookComplete
  <2> QED BY <2>1 DEF OrdersInv, Announced
<1> DEFINE new == [type |-> "PURCHASE", key |-> a.id, order |-> o, payment |-> a.payment]
<1>1. /\ handler[h].pc = "settle"
      /\ a.successful
      /\ ledger' = ledger \union {new}
      /\ order' = [order EXCEPT ![o].status = "PAID", ![o].payment = a.payment]
      /\ attempt' = [attempt EXCEPT ![a.payment] = "SUCCEEDED"]
      /\ webhook' = [webhook EXCEPT ![a.id] = "PROCESSED"]
      /\ handler' = [handler EXCEPT ![h] = IdleHandler]
      /\ UNCHANGED <<issued, sent, call, deaths>>
  BY <1>o DEF WebhookComplete, provider
<1>2. a \in sent /\ a.id \in Event /\ a.payment \in Payment
  BY <1>1 DEF OrdersInv, TypeInv, Handling, Announcement
<1>3. new.type = "PURCHASE" /\ new.key = a.id /\ new.order = o /\ new.payment = a.payment
  OBVIOUS
<1>4. new \in PurchaseRow BY <1>2 DEF PurchaseRow
<1> HIDE DEF a, new
<1>5. TypeInv'
  <2>1. handler' \in [Handler -> Handling(sent)]
    BY <1>1 DEF OrdersInv, TypeInv, Handling, IdleHandler
  <2>2. order' \in [Order -> [status : Statuses, payment : Payment \union {"none"},
                              expired : BOOLEAN]]
    <3> DEFINE row == [order[o] EXCEPT !.status = "PAID", !.payment = a.payment]
    <3>1. row \in [status : Statuses, payment : Payment \union {"none"}, expired : BOOLEAN]
      BY <1>2 DEF OrdersInv, TypeInv, Statuses
    <3>2. order' = [order EXCEPT ![o] = row] BY <1>1
    <3> HIDE DEF row
    <3> QED BY ZenonT(90), <3>1, <3>2 DEF OrdersInv, TypeInv
  <2>3. attempt' \in [Payment -> {"NONE", "PENDING", "FAILED", "SUCCEEDED"}]
    BY <1>1 DEF OrdersInv, TypeInv
  <2>4. IsFiniteSet(ledger') BY <1>1, FS_AddElement DEF OrdersInv, TypeInv
  <2> QED BY <1>1, <1>4, <2>1, <2>2, <2>3, <2>4 DEF OrdersInv, TypeInv
<1>6. Announced' BY <1>1 DEF OrdersInv, Announced
<1>7. Known' BY <1>1, <1>2, <1>3, <1>o DEF OrdersInv, TypeInv, Known
<1>8. ProcessedIffCredited'
  BY <1>1, <1>2, <1>3 DEF OrdersInv, TypeInv, Announced, ProcessedIffCredited, Announcement
<1>9. \A q \in Order : Purchases(q) \subseteq Purchases(q)' BY <1>1 DEF Purchases
<1>10. Purchases(o)' # {} BY <1>1, <1>3 DEF Purchases
<1>11. \A q \in Order : Refunds(q)' = Refunds(q) /\ Refunded(q)' = Refunded(q)
  <2>1. \A q \in Order : Refunds(q)' = Refunds(q) BY <1>1, <1>3 DEF Refunds
  <2> QED BY <2>1 DEF Refunded
<1>12. \A q \in Order : q # o => order'[q] = order[q] BY <1>1 DEF OrdersInv, TypeInv
<1>13. order'[o].status = "PAID" BY <1>1, <1>2 DEF OrdersInv, TypeInv
<1>14. PaidWasCredited' BY <1>9, <1>10, <1>12 DEF OrdersInv, PaidWasCredited
<1>15. RefundsWithinPurchase'
  BY <1>9, <1>10, <1>11, <1>12, <1>13 DEF OrdersInv, RefundsWithinPurchase
<1> QED BY <1>5, <1>6, <1>7, <1>8, <1>14, <1>15 DEF OrdersInv

\* A refund adds its amount to what the order refunded, which leaves it within the purchase.
LEMMA RefundKeeps ==
  ASSUME OrdersInv, NEW o \in Order, NEW key \in RefundKey, NEW amount \in 1..CreditTotal,
         RefundPurchase(o, key, amount)
  PROVE  OrdersInv'
<1> DEFINE new == [type |-> "REFUND", key |-> key, order |-> o, amount |-> amount]
<1>1. /\ \A r \in ledger : r.type = "REFUND" => r.key # key
      /\ order[o].status \in {"PAID", "REFUNDED"}
      /\ Refunded(o) + amount <= CreditTotal
      /\ ledger' = ledger \union {new}
      /\ order' = IF Refunded(o) + amount = CreditTotal
                  THEN [order EXCEPT ![o].status = "REFUNDED"]
                  ELSE order
      /\ UNCHANGED <<attempt, webhook, issued, sent, call, handler, deaths>>
  BY DEF RefundPurchase, Refundable, provider
<1>2. /\ new.type = "REFUND" /\ new.key = key /\ new.order = o /\ new.amount = amount
      /\ new \in RefundRow
  BY DEF RefundRow
<1> HIDE DEF new
<1>3. TypeInv'
  <2>1. order' \in [Order -> [status : Statuses, payment : Payment \union {"none"},
                              expired : BOOLEAN]]
    BY <1>1 DEF OrdersInv, TypeInv, Statuses
  <2>2. IsFiniteSet(ledger') BY <1>1, FS_AddElement DEF OrdersInv, TypeInv
  <2> QED BY <1>1, <1>2, <2>1, <2>2 DEF OrdersInv, TypeInv
<1>4. Announced' BY <1>1 DEF OrdersInv, Announced
<1>5. Known' BY <1>1, <1>2 DEF OrdersInv, Known
<1>6. ProcessedIffCredited' BY <1>1, <1>2 DEF OrdersInv, ProcessedIffCredited
<1>7. \A q \in Order : Purchases(q)' = Purchases(q) BY <1>1, <1>2 DEF Purchases
<1>8. \A q \in Order : q # o => order'[q] = order[q] /\ Refunds(q)' = Refunds(q)
  BY <1>1, <1>2 DEF OrdersInv, TypeInv, Refunds
<1>9. \A q \in Order : q # o => Refunded(q)' = Refunded(q) BY <1>8 DEF Refunded
<1>10. new \notin Refunds(o) /\ Refunds(o)' = Refunds(o) \union {new}
  BY <1>1, <1>2 DEF Refunds
<1>11. Refunded(o)' = Refunded(o) + amount
  <2> DEFINE f == [r \in Refunds(o) |-> r.amount]
             g == [r \in Refunds(o) \union {new} |-> r.amount]
  <2>1. \A r \in Refunds(o) : f[r] \in Int /\ g[r] = f[r]
    BY DEF OrdersInv, TypeInv, Refunds, PurchaseRow, RefundRow
  <2>2. g[new] = amount /\ amount \in Int BY <1>2
  <2>3. IsFiniteSet(Refunds(o)) BY RefundedInt DEF OrdersInv
  <2> HIDE DEF f, g
  <2>4. SumFunctionOnSet(g, Refunds(o) \union {new}) = SumFunctionOnSet(f, Refunds(o)) + g[new]
    BY <1>10, <2>1, <2>2, <2>3, SumAdd
  <2>5. Refunded(o)' = SumFunctionOnSet(g, Refunds(o) \union {new})
    BY <1>10 DEF Refunded, g
  <2>6. Refunded(o) = SumFunctionOnSet(f, Refunds(o)) BY DEF Refunded, f
  <2> QED BY <2>2, <2>4, <2>5, <2>6
<1>12. Refunded(o) \in Int BY RefundedInt DEF OrdersInv
<1>13. order[o].status = "PAID"
  BY <1>1, <1>12, CreditTotalAssumption DEF OrdersInv, RefundsWithinPurchase
<1>14. Purchases(o) # {} BY <1>13 DEF OrdersInv, PaidWasCredited
<1>15. order'[o].status = "REFUNDED" => Refunded(o) + amount = CreditTotal
  BY <1>1, <1>13
<1>16. PaidWasCredited'
  <2>1. \A q \in Order : order'[q].status = "PAID" => q = o \/ order[q].status = "PAID"
    BY <1>8
  <2> QED BY <1>7, <1>14, <2>1 DEF OrdersInv, PaidWasCredited
<1>17. RefundsWithinPurchase'
  <2>1. SUFFICES ASSUME NEW q \in Order
                 PROVE  /\ Refunded(q)' <= CreditTotal
                        /\ Refunds(q)' # {} => Purchases(q)' # {}
                        /\ order'[q].status = "REFUNDED" => Refunded(q)' = CreditTotal
    BY DEF RefundsWithinPurchase
  <2>2. CASE q = o BY <1>1, <1>7, <1>11, <1>14, <1>15, <2>2
  <2>3. CASE q # o BY <1>7, <1>8, <1>9, <2>3 DEF OrdersInv, RefundsWithinPurchase
  <2> QED BY <2>2, <2>3
<1> QED BY <1>3, <1>4, <1>5, <1>6, <1>16, <1>17 DEF OrdersInv

\* Every step keeps the invariant.
LEMMA OrdersStepInv == ASSUME OrdersInv, [OrdersNext]_ordersVars PROVE OrdersInv'
<1> DEFINE Rows == [Order -> [status : Statuses, payment : Payment \union {"none"},
                              expired : BOOLEAN]]
           Quiet == \A o \in Order : order'[o].status \in {"PAID", "REFUNDED"} =>
                                       order'[o].status = order[o].status
<1>a. /\ order \in Rows
      /\ attempt \in [Payment -> {"NONE", "PENDING", "FAILED", "SUCCEEDED"}]
      /\ call \in [Caller -> Calls]
      /\ handler \in [Handler -> Handling(sent)]
  BY DEF OrdersInv, TypeInv
<1> USE DEF rows, provider
<1>1. ASSUME NEW o \in Order, CreateOrder(o) \/ OrderExpires(o) \/ CancelOrder(o) PROVE OrdersInv'
  <2>1. order' \in Rows /\ Quiet
    BY ZenonT(90), <1>a, <1>1 DEF CreateOrder, OrderExpires, CancelOrder, Statuses
  <2> QED BY <1>a, <1>1, <2>1, QuietKeeps DEF CreateOrder, OrderExpires, CancelOrder
<1>2. ASSUME NEW o \in Order, NEW c \in Caller, StartPaymentRead(c, o) PROVE OrdersInv'
  <2>1. call' \in [Caller -> Calls] BY <1>a, <1>2 DEF StartPaymentRead, Calls
  <2> QED BY <1>a, <1>2, <2>1, QuietKeeps DEF StartPaymentRead
<1>3. ASSUME NEW c \in Caller, StartPaymentWrite(c) PROVE OrdersInv'
  <2>1. call[c].order \in Order /\ call[c].payment \in Payment
    BY <1>a, <1>3 DEF StartPaymentWrite, Calls
  <2>2. order' \in Rows /\ Quiet BY <1>a, <1>3, <2>1 DEF StartPaymentWrite, Statuses
  <2>3. attempt' \in [Payment -> {"NONE", "PENDING", "FAILED", "SUCCEEDED"}]
    BY <1>a, <1>3, <2>1 DEF StartPaymentWrite
  <2>4. call' \in [Caller -> Calls] BY <1>a, <1>3 DEF StartPaymentWrite, Calls, IdleCall
  <2> QED BY <1>a, <1>3, <2>2, <2>3, <2>4, QuietKeeps DEF StartPaymentWrite
<1>4. ASSUME NEW h \in Handler, NEW a \in sent, WebhookLookup(h, a) PROVE OrdersInv'
  <2>1. handler' \in [Handler -> Handling(sent)] BY <1>a, <1>4 DEF WebhookLookup, Handling
  <2> QED BY <1>a, <1>4, <2>1, QuietKeeps DEF WebhookLookup
<1>5. ASSUME NEW h \in Handler, WebhookInsert(h) PROVE OrdersInv'
  <2>1. CASE webhook[handler[h].event.id] = "NONE" BY <1>5, <2>1, InsertKeeps
  <2>2. CASE webhook[handler[h].event.id] # "NONE"
    <3>1. handler' \in [Handler -> Handling(sent)]
      BY <1>a, <1>5, <2>2 DEF WebhookInsert, Handling, IdleHandler
    <3> QED BY <1>a, <1>5, <2>2, <3>1, QuietKeeps DEF WebhookInsert
  <2> QED BY <2>1, <2>2
<1>6. ASSUME NEW h \in Handler, WebhookCheck(h) PROVE OrdersInv'
  <2>1. handler[h].event \in sent BY <1>a, <1>6 DEF WebhookCheck, Handling
  <2>2. handler' \in [Handler -> Handling(sent)]
    BY <1>a, <1>6, <2>1 DEF WebhookCheck, Handling, IdleHandler
  <2> QED BY <1>a, <1>6, <2>2, QuietKeeps DEF WebhookCheck
<1>7. ASSUME NEW h \in Handler, WebhookNoEffect(h) PROVE OrdersInv'
  <2>1. handler' \in [Handler -> Handling(sent)]
    BY <1>a, <1>7 DEF WebhookNoEffect, Handling, IdleHandler
  <2> QED BY <1>a, <1>7, <2>1, QuietKeeps DEF WebhookNoEffect
<1>8. ASSUME Crash PROVE OrdersInv'
  <2>1. call' \in [Caller -> Calls] BY <1>a, <1>8 DEF Crash, Calls, IdleCall
  <2>2. handler' \in [Handler -> Handling(sent)]
    BY <1>a, <1>8 DEF Crash, Handling, IdleHandler
  <2> QED BY <1>a, <1>8, <2>1, <2>2, QuietKeeps DEF Crash
<1>9. CASE UNCHANGED ordersVars BY <1>a, <1>9, QuietKeeps DEF ordersVars
<1> QED
  BY <1>1, <1>2, <1>3, <1>4, <1>5, <1>6, <1>7, <1>8, <1>9, CreateKeeps, AnnounceKeeps,
     FailKeeps, CompleteKeeps, RefundKeeps DEF OrdersNext, Handle

-----------------------------------------------------------------------------
(***************************************************************************)
(* The theorems.                                                           *)
(***************************************************************************)

\* The inductive invariant holds in every state.
THEOREM OrdersInvariance == OrdersSpec => []OrdersInv
<1> QED BY OrdersInitInv, OrdersStepInv, PTL DEF OrdersSpec

\* A success announcement is marked processed exactly when its credits were booked.
THEOREM DeliveriesAreIdempotent == OrdersSpec => []ProcessedIffCredited
<1>1. OrdersInv => ProcessedIffCredited BY DEF OrdersInv
<1> QED BY <1>1, OrdersInvariance, PTL

\* An order that is PAID was credited.
THEOREM PaidOrdersWereCredited == OrdersSpec => []PaidWasCredited
<1>1. OrdersInv => PaidWasCredited BY DEF OrdersInv
<1> QED BY <1>1, OrdersInvariance, PTL

\* The refunds of an order stay within what it bought.
THEOREM RefundsStayWithinPurchase == OrdersSpec => []RefundsWithinPurchase
<1>1. OrdersInv => RefundsWithinPurchase BY DEF OrdersInv
<1> QED BY <1>1, OrdersInvariance, PTL

-----------------------------------------------------------------------------
(***************************************************************************)
(* Transactions: what one of them has read of a book and what somebody was *)
(* answered stays true as the book grows, unless its version shows that it *)
(* has changed.                                                            *)
(***************************************************************************)
\* Only the sweep writes rows with the keys it makes of reservations' ids.
OwnKey(row) == \A k \in Nat : row.idempotencyKey = ExpireKey(k) => row.referenceId = k

Grows(b, c) ==
  /\ b.version <= c.version
  /\ b.version = c.version => Agrees(b, c)
  /\ DOMAIN b.entries \subseteq DOMAIN c.entries
  /\ \A i \in DOMAIN b.entries : c.entries[i] = b.entries[i]
  /\ \A i \in DOMAIN c.entries : i \in DOMAIN b.entries \/ OwnKey(c.entries[i])
  /\ \A id \in DOMAIN b.reservations :
       /\ id \in DOMAIN c.reservations
       /\ c.reservations[id].idempotencyKey = b.reservations[id].idempotencyKey
       /\ c.reservations[id].amount = b.reservations[id].amount

\* A book agrees with itself, and what it agrees with may go on.
LEMMA AgreesWithItself == ASSUME NEW b PROVE Agrees(b, b)
  BY DEF Agrees

\* Agreement goes on from book to book, a release being marked in between.
LEMMA AgreesOn ==
  ASSUME NEW b, NEW c, NEW d, Agrees(b, c), Agrees(c, d) PROVE Agrees(b, d)
  BY DEF Agrees

\* The rows a transaction may add.
LEMMA Keyed ==
  ASSUME NEW key \in Key
  PROVE  \A k \in Nat : key # ExpireKey(k) /\ RemainderKey(key) # ExpireKey(k)
<1>1. \A k \in Nat : key # ExpireKey(k)
  BY KeyAssumption DEF ExpireKey
<1>2. ASSUME NEW k \in Nat PROVE RemainderKey(key) # ExpireKey(k)
  <2>1. DOMAIN RemainderKey(key) = {"remainder"} /\ DOMAIN ExpireKey(k) = {"expire"}
    BY DEF RemainderKey, ExpireKey
  <2>2. {"remainder"} # {"expire"}
    OBVIOUS
  <2> QED BY <2>1, <2>2
<1> QED BY <1>1, <1>2

\* A transaction that counts the version up, adds rows and changes reservations.
LEMMA WritingGrows ==
  ASSUME NEW b \in Book, NEW c, NEW e \in LedgerEntry, OwnKey(e),
         NEW f \in LedgerEntry, OwnKey(f), c.version = b.version + 1,
         c.entries \in {Append(b.entries, e), Append(Append(b.entries, e), f)},
         \A id \in DOMAIN b.reservations :
           /\ id \in DOMAIN c.reservations
           /\ c.reservations[id].idempotencyKey = b.reservations[id].idempotencyKey
           /\ c.reservations[id].amount = b.reservations[id].amount
  PROVE  Grows(b, c)
<1> DEFINE first == Append(b.entries, e)
           second == Append(first, f)
<1>1. b.entries \in Seq(LedgerEntry) /\ b.version \in Nat
  BY BookFields
<1>2. /\ first \in Seq(LedgerEntry) /\ Len(first) = Len(b.entries) + 1
      /\ DOMAIN first = 1..(Len(b.entries) + 1) /\ first[Len(b.entries) + 1] = e
      /\ \A i \in 1..Len(b.entries) : first[i] = b.entries[i]
  BY <1>1, RowsAppend
<1> HIDE DEF first
<1>3. /\ DOMAIN second = 1..(Len(b.entries) + 2) /\ second[Len(b.entries) + 2] = f
      /\ \A i \in 1..(Len(b.entries) + 1) : second[i] = first[i]
  <2>1. /\ DOMAIN second = 1..(Len(first) + 1) /\ second[Len(first) + 1] = f
        /\ \A i \in 1..Len(first) : second[i] = first[i]
    BY <1>2, RowsAppend
  <2>2. Len(b.entries) \in Nat BY <1>1
  <2> QED BY <1>2, <2>1, <2>2
<1>4. c.entries \in {first, second} BY DEF first
<1> HIDE DEF second
<1>5. Len(b.entries) \in Nat /\ DOMAIN b.entries = 1..Len(b.entries)
  BY <1>1
<1>6. /\ DOMAIN b.entries \subseteq DOMAIN c.entries
      /\ \A i \in DOMAIN b.entries : c.entries[i] = b.entries[i]
      /\ \A i \in DOMAIN c.entries : i \in DOMAIN b.entries \/ OwnKey(c.entries[i])
  <2>1. CASE c.entries = first
    <3>1. \A i \in DOMAIN first : i \in DOMAIN b.entries \/ first[i] = e
      BY <1>2, <1>5
    <3> QED BY <1>2, <1>5, <2>1, <3>1
  <2>2. CASE c.entries = second
    <3>1. \A i \in DOMAIN second : i \in DOMAIN b.entries \/ second[i] = e \/ second[i] = f
      BY <1>2, <1>3, <1>5
    <3>2. \A i \in DOMAIN b.entries : i \in DOMAIN second /\ second[i] = b.entries[i]
      BY <1>2, <1>3, <1>5
    <3> QED BY <2>2, <3>1, <3>2
  <2> QED BY <1>4, <2>1, <2>2
<1> QED BY <1>1, <1>6 DEF Grows

\* Settling keeps what a reservation is.
LEMMA SettlingKeeps ==
  ASSUME NEW b \in Book, NEW id \in DOMAIN b.reservations, NEW status, NEW captured
  PROVE  \A k \in DOMAIN b.reservations :
           LET all == Settle(b, id, status, captured)
           IN /\ k \in DOMAIN all /\ all[k].amount = b.reservations[k].amount
              /\ all[k].idempotencyKey = b.reservations[k].idempotencyKey
<1> DEFINE r == Settled(b.reservations[id], status, captured)
<1>1. r.idempotencyKey = b.reservations[id].idempotencyKey /\ r.amount = b.reservations[id].amount
  BY DEF Settled
<1>2. Settle(b, id, status, captured) = [b.reservations EXCEPT ![id] = r]
  BY DEF Settle
<1> HIDE DEF r
<1> QED BY <1>1, <1>2

\* mutate lets a book grow.
LEMMA MutateGrows ==
  ASSUME NEW b \in Book, NEW type \in Credits \union Debits, NEW key \in Key, NEW delta \in Int
  PROVE  Grows(b, Mutate(b, type, key, delta))
<1> DEFINE c == Mutate(b, type, key, delta)
           e == MutateEntry(b, type, key, delta)
<1>1. e \in LedgerEntry /\ e.idempotencyKey = key
  BY MutateEntryType DEF EntryKey, MutateEntry, Entry
<1>2. OwnKey(e) BY <1>1, Keyed DEF OwnKey
<1>3. /\ c.version = b.version + 1 /\ c.reservations = b.reservations
      /\ c.entries = Append(b.entries, e)
  BY DEF Mutate, Updated
<1> HIDE DEF c, e
<1>4. Grows(b, c) BY <1>1, <1>2, <1>3, WritingGrows
<1> QED BY <1>4 DEF c

\* reserveCredits lets a book grow.
LEMMA ReserveGrows ==
  ASSUME NEW b \in Book, NEW key \in Key, NEW amount \in Int
  PROVE  Grows(b, Reserve(b, key, amount))
<1> DEFINE c == Reserve(b, key, amount)
           e == ReserveEntry(b, key, amount)
<1>1. e \in LedgerEntry /\ e.idempotencyKey = key
  BY ReserveEntryType DEF EntryKey, ReserveEntry, Entry
<1>2. OwnKey(e) BY <1>1, Keyed DEF OwnKey
<1>3. /\ c.version = b.version + 1
      /\ c.reservations = Append(b.reservations, NewReservation(key, amount))
      /\ c.entries = Append(b.entries, e)
  BY DEF Reserve, Updated
<1> DEFINE r == NewReservation(key, amount)
<1> HIDE DEF c, e, r
<1>4. \A id \in DOMAIN b.reservations :
        id \in DOMAIN c.reservations /\ c.reservations[id] = b.reservations[id]
  <2>1. c.reservations = Append(b.reservations, r) /\ b.reservations \in Seq(Reservation)
    BY <1>3, BookFields DEF r
  <2> QED BY <2>1
<1>5. Grows(b, c) BY <1>1, <1>2, <1>3, <1>4, WritingGrows
<1> QED BY <1>5 DEF c

\* captureReservation lets a book grow, by one row or by two.
LEMMA CaptureGrows ==
  ASSUME NEW b \in Book, NEW key \in Key, NEW id \in DOMAIN b.reservations, NEW amount \in Int
  PROVE  Grows(b, Capture(b, key, id, amount))
<1> DEFINE c == Capture(b, key, id, amount)
           e == CaptureEntry(b, key, id, amount)
           f == RemainderEntry(b, key, id, amount)
<1>1. /\ e \in LedgerEntry /\ e.idempotencyKey = key
      /\ f \in LedgerEntry /\ f.idempotencyKey = RemainderKey(key)
  BY CaptureRowsType DEF CaptureEntry, RemainderEntry, Entry
<1>2. OwnKey(e) /\ OwnKey(f) BY <1>1, Keyed DEF OwnKey
<1>3. /\ c.version = b.version + 1 /\ c.reservations = Settle(b, id, "CAPTURED", amount)
      /\ c.entries \in {Append(b.entries, e), Append(Append(b.entries, e), f)}
  BY DEF Capture, Updated, CaptureRows
<1> HIDE DEF c, e, f
<1> DEFINE Keeps == \A k \in DOMAIN b.reservations :
                      /\ k \in DOMAIN c.reservations
                      /\ c.reservations[k].idempotencyKey = b.reservations[k].idempotencyKey
                      /\ c.reservations[k].amount = b.reservations[k].amount
<1>4. Keeps
  <2> DEFINE all == Settle(b, id, "CAPTURED", amount)
  <2>1. \A k \in DOMAIN b.reservations :
          /\ k \in DOMAIN all /\ all[k].amount = b.reservations[k].amount
          /\ all[k].idempotencyKey = b.reservations[k].idempotencyKey
    BY SettlingKeeps
  <2> QED BY <1>3, <2>1
<1>5. Grows(b, c) BY <1>1, <1>2, <1>3, <1>4, WritingGrows
<1> QED BY <1>5 DEF c

\* releaseReservation lets a book grow, with a caller's key or the sweep's.
LEMMA ReleaseGrows ==
  ASSUME NEW b \in Book, NEW id \in DOMAIN b.reservations, NEW key \in Key \union {ExpireKey(id)}
  PROVE  Grows(b, Release(b, key, id))
<1> DEFINE c == Release(b, key, id)
           e == ReleaseEntry(b, key, id)
<1>1. id \in Nat BY ReservationFields
<1>2. key \in EntryKey BY <1>1 DEF EntryKey, ExpireKey
<1>3. e \in LedgerEntry /\ e.idempotencyKey = key /\ e.referenceId = id
  BY <1>2, ReleaseEntryType DEF ReleaseEntry, Entry
<1>4. \A k \in Nat : ExpireKey(id) = ExpireKey(k) => id = k
  BY DEF ExpireKey
<1>5. OwnKey(e) BY <1>3, <1>4, Keyed DEF OwnKey
<1>6. /\ c.version = b.version + 1
      /\ c.reservations = Settle(b, id, "RELEASED", b.reservations[id].capturedAmount)
      /\ c.entries = Append(b.entries, e)
  BY DEF Release, Updated
<1> HIDE DEF c, e
<1> DEFINE Keeps == \A k \in DOMAIN b.reservations :
                      /\ k \in DOMAIN c.reservations
                      /\ c.reservations[k].idempotencyKey = b.reservations[k].idempotencyKey
                      /\ c.reservations[k].amount = b.reservations[k].amount
<1>7. Keeps
  <2> DEFINE all == Settle(b, id, "RELEASED", b.reservations[id].capturedAmount)
  <2>1. \A k \in DOMAIN b.reservations :
          /\ k \in DOMAIN all /\ all[k].amount = b.reservations[k].amount
          /\ all[k].idempotencyKey = b.reservations[k].idempotencyKey
    BY SettlingKeeps
  <2> QED BY <1>6, <2>1
<1>8. c.entries \in {Append(b.entries, e), Append(Append(b.entries, e), e)} BY <1>6
<1>9. Grows(b, c) BY <1>3, <1>5, <1>6, <1>7, <1>8, WritingGrows
<1> QED BY <1>9 DEF c

\* What is not a transaction leaves the version, and all but a mark or the clock.
LEMMA AgreeingGrows ==
  ASSUME NEW b \in Book, NEW c, c.version = b.version, Agrees(b, c) PROVE Grows(b, c)
  BY BookFields DEF Grows, Agrees

\* The sweep's mark leaves what transactions go by.
LEMMA MarkGrows ==
  ASSUME NEW b \in Book, NEW id \in DOMAIN b.reservations PROVE Grows(b, MarkExpired(b, id))
<1>1. CASE b.reservations[id].status # "RELEASED"
  BY <1>1, AgreesWithItself, AgreeingGrows DEF MarkExpired
<1>2. CASE b.reservations[id].status = "RELEASED"
  <2> DEFINE c == MarkExpired(b, id)
             r == Settled(b.reservations[id], "EXPIRED", b.reservations[id].capturedAmount)
             all == [b.reservations EXCEPT ![id] = r]
  <2>1. c = [b EXCEPT !.reservations = all]
    BY <1>2 DEF MarkExpired, Settle
  <2>2. /\ r.amount = b.reservations[id].amount /\ r.status = "EXPIRED"
        /\ r.idempotencyKey = b.reservations[id].idempotencyKey
        /\ r.capturedAmount = b.reservations[id].capturedAmount
    BY DEF Settled
  <2> HIDE DEF r
  <2>3. /\ DOMAIN all = DOMAIN b.reservations /\ all[id] = r
        /\ \A k \in DOMAIN b.reservations : k # id => all[k] = b.reservations[k]
    OBVIOUS
  <2> HIDE DEF c, all
  <2>4. /\ c.available = b.available /\ c.reserved = b.reserved /\ c.version = b.version
        /\ c.lifetimePurchased = b.lifetimePurchased /\ c.lifetimeConsumed = b.lifetimeConsumed
        /\ c.entries = b.entries /\ c.reservations = all
    BY <2>1 DEF Book
  <2>5. Agrees(b, c) BY <1>2, <2>2, <2>3, <2>4 DEF Agrees
  <2>6. Grows(b, c) BY <2>4, <2>5, AgreeingGrows
  <2> QED BY <2>6 DEF c
<1> QED BY <1>1, <1>2

\* So does the clock.
LEMMA OverdueGrows ==
  ASSUME NEW b \in Book, NEW id \in DOMAIN b.reservations PROVE Grows(b, Overdue(b, id))
<1> DEFINE c == Overdue(b, id)
<1>1. c.lifetimePurchased = b.lifetimePurchased
  BY DEF Overdue, Book
<1>2. Agrees(b, c) /\ c.version = b.version
  BY <1>1, OverdueFields DEF Agrees
<1> HIDE DEF c
<1>3. Grows(b, c) BY <1>2, AgreeingGrows
<1> QED BY <1>3 DEF c

-----------------------------------------------------------------------------
(***************************************************************************)
(* Every step of CreditLedger lets every book grow.                        *)
(***************************************************************************)
BooksGrow == \A u \in User : Grows(book[u], book'[u])

\* A book that stays has grown.
LEMMA GrowsItself == ASSUME NEW b \in Book PROVE Grows(b, b)
  BY AgreesWithItself, AgreeingGrows

\* One book changes.
LEMMA OneBookGrows ==
  ASSUME Inv, NEW u \in User, NEW b, Grows(book[u], b), book' = [book EXCEPT ![u] = b]
  PROVE  BooksGrow
<1>1. book'[u] = b /\ \A v \in User : book[v] \in Book /\ (v # u => book'[v] = book[v])
  BY DEF Inv, TypeOK
<1>2. \A v \in User : Grows(book[v], book[v])
  BY <1>1, GrowsItself
<1> QED BY <1>1, <1>2 DEF BooksGrow

\* No book changes.
LEMMA NoBookGrows == ASSUME Inv, UNCHANGED book PROVE BooksGrow
<1>1. \A u \in User : book[u] \in Book BY DEF Inv, TypeOK
<1> QED BY <1>1, GrowsItself DEF BooksGrow

\* The operations on one user's book let it grow.
LEMMA UserStepGrows == ASSUME Inv, NEW u \in User, UserStep(u) PROVE BooksGrow
<1>1. book[u] \in Book
  BY DEF Inv, TypeOK
<1>2. \A amount \in Amount : amount \in Int /\ -amount \in Int
  BY AmountAssumption
<1>3. ASSUME NEW type \in Credits \union Debits, NEW key \in Key, NEW amount \in Amount,
             NEW delta \in Int, MutateBook(u, type, key, amount, delta)
      PROVE  BooksGrow
  BY <1>1, <1>3, MutateGrows, OneBookGrows DEF MutateBook, SetBook
<1>4. ASSUME NEW key \in Key, NEW amount \in Amount,
             \/ \E purchase \in BOOLEAN : GrantCredits(u, key, amount, purchase)
             \/ GrantPromotionCredits(u, key, amount) \/ RefundCredits(u, key, amount)
             \/ DeductCredits(u, key, amount) \/ ConsumeCredits(u, key, amount)
      PROVE  BooksGrow
  BY <1>2, <1>3, <1>4 DEF GrantCredits, GrantPromotionCredits, RefundCredits, DeductCredits,
                          ConsumeCredits, Credits, Debits
<1>5. ASSUME NEW key \in Key, NEW amount \in Amount, ReserveCredits(u, key, amount)
      PROVE  BooksGrow
  BY <1>1, <1>2, <1>5, ReserveGrows, OneBookGrows DEF ReserveCredits, SetBook
<1>6. ASSUME NEW key \in Key, NEW amount \in Amount, NEW id \in DOMAIN book[u].reservations,
             CaptureReservation(u, key, id, amount)
      PROVE  BooksGrow
  BY <1>1, <1>2, <1>6, CaptureGrows, OneBookGrows DEF CaptureReservation, SetBook
<1>7. ASSUME NEW key \in Key, NEW id \in DOMAIN book[u].reservations,
             ReleaseReservation(u, key, id)
      PROVE  BooksGrow
  BY <1>1, <1>7, ReleaseGrows, OneBookGrows DEF ReleaseReservation, SetBook
<1>8. ASSUME NEW id \in DOMAIN book[u].reservations, TtlElapses(u, id)
      PROVE  BooksGrow
  BY <1>1, <1>8, OverdueGrows, OneBookGrows DEF TtlElapses, SetBook
<1> QED BY <1>4, <1>5, <1>6, <1>7, <1>8 DEF UserStep

\* So do the steps of a sweep.
LEMMA SweepStepGrows ==
  ASSUME Inv, NEW s \in Sweeper, SweepStep(s) \/ SweepCrash(s) PROVE BooksGrow
<1>1. /\ \A h \in sweep[s].batch : h.user \in User /\ h.id \in DOMAIN book[h.user].reservations
      /\ \A u \in User : book[u] \in Book
  BY DEF Inv, TypeOK, SweepsKnowHolds
<1>2. CASE SweepFind(s) \/ SweepAbort(s) \/ SweepCrash(s)
  BY <1>2, NoBookGrows DEF SweepFind, SweepAbort, SweepCrash
<1>3. CASE SweepRelease(s)
  <2>1. PICK h \in sweep[s].batch :
          \/ book' = [book EXCEPT ![h.user] = Release(book[h.user], ExpireKey(h.id), h.id)]
          \/ UNCHANGED book
    BY <1>3 DEF SweepRelease
  <2>2. Grows(book[h.user], Release(book[h.user], ExpireKey(h.id), h.id))
    BY <1>1, ReleaseGrows
  <2> QED BY <1>1, <2>1, <2>2, OneBookGrows, NoBookGrows
<1>4. CASE SweepMark(s)
  <2> DEFINE h == sweep[s].hold
  <2>1. /\ book' = [book EXCEPT ![h.user] = MarkExpired(book[h.user], h.id)]
        /\ h.user \in User /\ h.id \in DOMAIN book[h.user].reservations
    BY <1>4 DEF SweepMark, Inv, SweepsKnowHolds
  <2>2. Grows(book[h.user], MarkExpired(book[h.user], h.id))
    BY <1>1, <2>1, MarkGrows
  <2> QED BY <2>1, <2>2, OneBookGrows
<1> QED BY <1>2, <1>3, <1>4 DEF SweepStep

\* A reconciliation whose repair would write something new writes nothing.
LEMMA NextGrows == ASSUME Inv, [Next]_vars PROVE BooksGrow
<1>1. CASE UNCHANGED vars BY <1>1, NoBookGrows DEF vars
<1>2. ASSUME NEW p \in Auditor, RebuildStep(p) PROVE BooksGrow
  BY <1>2, RebuildStepBooks, NoBookGrows
<1> QED BY <1>1, <1>2, UserStepGrows, SweepStepGrows DEF Next

-----------------------------------------------------------------------------
(***************************************************************************)
(* What the statements of a commit write is the operation on the book as   *)
(* it is then, if the version is the one the operation read.               *)
(***************************************************************************)
\* What was posted goes on where the rows end.
Continues(posted, entries) ==
  entries \o SubSeq(posted, Len(entries) + 1, Len(posted)) = posted

\* The rows after the first ones of a longer ledger, put behind the first ones.
LEMMA RowsRejoined ==
  ASSUME NEW posted \in Seq(LedgerEntry), NEW all \in Seq(LedgerEntry), Len(posted) <= Len(all),
         \A i \in 1..Len(posted) : all[i] = posted[i]
  PROVE  posted \o SubSeq(all, Len(posted) + 1, Len(all)) = all
<1> DEFINE n == Len(posted)
           rest == SubSeq(all, n + 1, Len(all))
<1>1. n \in Nat /\ Len(all) \in Nat /\ n <= Len(all)
  OBVIOUS
<1>2. /\ rest \in Seq(LedgerEntry) /\ Len(rest) = Len(all) - n
      /\ \A i \in 1..(Len(all) - n) : rest[i] = all[n + i]
  BY <1>1
<1> HIDE DEF rest
<1> DEFINE joined == posted \o rest
<1>3. /\ joined \in Seq(LedgerEntry) /\ Len(joined) = n + Len(rest)
      /\ \A i \in 1..Len(joined) : joined[i] = IF i <= n THEN posted[i] ELSE rest[i - n]
  BY <1>1, <1>2
<1> HIDE DEF joined
<1>4. Len(joined) = Len(all)
  BY <1>1, <1>2, <1>3
<1>5. ASSUME NEW i \in 1..Len(all) PROVE joined[i] = all[i]
  <2>1. CASE i <= n BY <1>1, <1>3, <1>4, <2>1
  <2>2. CASE i > n
    <3>1. i - n \in 1..(Len(all) - n) /\ n + (i - n) = i BY <1>1, <2>2
    <3> QED BY <1>1, <1>2, <1>3, <1>4, <2>2, <3>1
  <2> QED BY <1>1, <2>1, <2>2
<1>6. joined = all
  <2>1. joined = [i \in 1..Len(joined) |-> joined[i]] /\ all = [i \in 1..Len(all) |-> all[i]]
    BY <1>3
  <2> QED BY <1>4, <1>5, <2>1
<1> QED BY <1>6 DEF joined, rest

\* A ledger with one or two more rows.
LEMMA RowsAdded ==
  ASSUME NEW posted \in Seq(LedgerEntry), NEW e \in LedgerEntry, NEW f \in LedgerEntry,
         NEW all \in {Append(posted, e), Append(Append(posted, e), f)}
  PROVE  Continues(all, posted)
<1>1. CASE all = Append(posted, e)
  <2>1. /\ all \in Seq(LedgerEntry) /\ Len(posted) \in Nat /\ Len(all) = Len(posted) + 1
        /\ \A i \in 1..Len(posted) : all[i] = posted[i]
    BY <1>1, RowsAppend
  <2> QED BY <2>1, RowsRejoined DEF Continues
<1>2. CASE all = Append(Append(posted, e), f)
  <2> DEFINE first == Append(posted, e)
  <2>1. /\ first \in Seq(LedgerEntry) /\ Len(posted) \in Nat /\ Len(first) = Len(posted) + 1
        /\ \A i \in 1..Len(posted) : first[i] = posted[i]
    BY RowsAppend
  <2>2. all = Append(first, f) BY <1>2
  <2> HIDE DEF first
  <2>3. /\ all \in Seq(LedgerEntry) /\ Len(all) = Len(first) + 1
        /\ \A i \in 1..Len(first) : all[i] = first[i]
    BY <2>1, <2>2, RowsAppend
  <2> QED BY <2>1, <2>3, RowsRejoined DEF Continues
<1> QED BY <1>1, <1>2 DEF Continues

\* All that a commit writes but reservations.
LEMMA WrittenIs ==
  ASSUME NEW s \in Book, NEW b \in Book, Agrees(s, b), NEW op,
         LET then == Done(s, op)
         IN /\ then.available \in Int /\ then.reserved \in Int
            /\ then.lifetimePurchased \in Int /\ then.lifetimeConsumed \in Int
            /\ Continues(then.entries, s.entries)
  PROVE  LET then == Done(s, op)
         IN Written(b, s, op) =
              [available |-> then.available, reserved |-> then.reserved,
               lifetimePurchased |-> then.lifetimePurchased,
               lifetimeConsumed |-> then.lifetimeConsumed, version |-> b.version + 1,
               entries |-> then.entries, reservations |-> Written(b, s, op).reservations]
<1> DEFINE then == Done(s, op)
           w == Written(b, s, op)
<1>1. /\ s.available = b.available /\ s.reserved = b.reserved /\ s.entries = b.entries
      /\ s.lifetimePurchased = b.lifetimePurchased /\ s.lifetimeConsumed = b.lifetimeConsumed
      /\ b.available \in Int /\ b.reserved \in Int
      /\ b.lifetimePurchased \in Int /\ b.lifetimeConsumed \in Int
  BY BookFields DEF Agrees
<1>2. \A i, j \in Int : i + (j - i) = j
  OBVIOUS
<1>3. /\ b.available + (then.available - s.available) = then.available
      /\ b.reserved + (then.reserved - s.reserved) = then.reserved
      /\ b.lifetimePurchased + (then.lifetimePurchased - s.lifetimePurchased)
           = then.lifetimePurchased
      /\ b.lifetimeConsumed + (then.lifetimeConsumed - s.lifetimeConsumed)
           = then.lifetimeConsumed
  <2>1. /\ b.available + (then.available - b.available) = then.available
        /\ b.reserved + (then.reserved - b.reserved) = then.reserved
        /\ b.lifetimePurchased + (then.lifetimePurchased - b.lifetimePurchased)
             = then.lifetimePurchased
        /\ b.lifetimeConsumed + (then.lifetimeConsumed - b.lifetimeConsumed)
             = then.lifetimeConsumed
    BY <1>1, <1>2
  <2> QED BY Zenon, <1>1, <2>1
<1>4. b.entries \o SubSeq(then.entries, Len(s.entries) + 1, Len(then.entries)) = then.entries
  BY Zenon, <1>1 DEF Continues
<1>5. w = [available |-> then.available, reserved |-> then.reserved,
           lifetimePurchased |-> then.lifetimePurchased,
           lifetimeConsumed |-> then.lifetimeConsumed, version |-> b.version + 1,
           entries |-> then.entries, reservations |-> w.reservations]
  BY <1>3, <1>4 DEF Written
<1> QED BY <1>5

\* The same for an operation that updates the account and adds one row or two.
LEMMA UpdateCommits ==
  ASSUME NEW s \in Book, NEW b \in Book, Agrees(s, b), NEW op,
         NEW a \in Int, NEW r \in Int, NEW p \in Int, NEW k \in Int, NEW posted, NEW old,
         Continues(posted, s.entries),
         Done(s, op) = Updated(s, a, r, p, k, posted, old)
  PROVE  Written(b, s, op) = Updated(b, a, r, p, k, posted, Written(b, s, op).reservations)
<1>1. LET then == Done(s, op)
      IN /\ then.available = a /\ then.reserved = r /\ then.entries = posted
         /\ then.lifetimePurchased = s.lifetimePurchased + p
         /\ then.lifetimeConsumed = s.lifetimeConsumed + k
  BY DEF Updated
<1>2. /\ s.lifetimePurchased = b.lifetimePurchased /\ s.lifetimeConsumed = b.lifetimeConsumed
      /\ s.lifetimePurchased + p \in Int /\ s.lifetimeConsumed + k \in Int
  BY BookFields DEF Agrees
<1> DEFINE then == Done(s, op)
<1>3. /\ then.available \in Int /\ then.reserved \in Int /\ then.lifetimePurchased \in Int
      /\ then.lifetimeConsumed \in Int /\ Continues(then.entries, s.entries)
  BY <1>1, <1>2
<1>4. Written(b, s, op) =
        [available |-> then.available, reserved |-> then.reserved,
         lifetimePurchased |-> then.lifetimePurchased,
         lifetimeConsumed |-> then.lifetimeConsumed, version |-> b.version + 1,
         entries |-> then.entries, reservations |-> Written(b, s, op).reservations]
  BY Zenon, <1>3, WrittenIs
<1>5. /\ then.lifetimePurchased = b.lifetimePurchased + p
      /\ then.lifetimeConsumed = b.lifetimeConsumed + k
  BY <1>1, <1>2
<1>6. Written(b, s, op) =
        [available |-> a, reserved |-> r, lifetimePurchased |-> b.lifetimePurchased + p,
         lifetimeConsumed |-> b.lifetimeConsumed + k, version |-> b.version + 1,
         entries |-> posted, reservations |-> Written(b, s, op).reservations]
  BY Zenon, <1>1, <1>4, <1>5
<1> QED BY <1>6 DEF Updated

\* The operations whose rows are known.
Movements == Credits \union Debits

\* A grant, a deduction or a consumption, committed.
LEMMA MutateCommits ==
  ASSUME NEW s \in Book, NEW b \in Book, Agrees(s, b), s.version = b.version,
         NEW op, op.type \in Movements, op.idempotencyKey \in Key, op.amount \in Int,
         Writes(s, op)
  PROVE  /\ Written(b, s, op) = Mutate(b, op.type, op.idempotencyKey, Delta(op))
         /\ MutateOk(b, op.type, op.idempotencyKey, Delta(op))
<1> DEFINE delta == Delta(op)
           e == MutateEntry(b, op.type, op.idempotencyKey, delta)
           p == IF op.type = "PURCHASE" THEN delta ELSE 0
<1>1. /\ s.available = b.available /\ s.reserved = b.reserved /\ s.entries = b.entries
      /\ b.available \in Int /\ b.reserved \in Int
  BY BookFields DEF Agrees
<1>2. delta \in Int BY DEF Delta
<1>3. op.type \notin Holds BY DEF Movements, Credits, Debits, Holds
<1>4. MutateOk(s, op.type, op.idempotencyKey, delta)
  BY <1>3 DEF Writes, Holds
<1>5. MutateOk(b, op.type, op.idempotencyKey, delta)
  BY <1>1, <1>4 DEF MutateOk, HasEntry
<1>6. MutateEntry(s, op.type, op.idempotencyKey, delta) = e
  BY <1>1 DEF MutateEntry
<1>7. e \in LedgerEntry
  BY <1>2, MutateEntryType DEF EntryKey, Movements
<1> HIDE DEF delta, e, p
<1>8. Done(s, op) = Updated(s, s.available + delta, s.reserved, p, 0, Append(s.entries, e),
                            s.reservations)
  BY <1>3, <1>6 DEF Done, Holds, Mutate, delta, p
<1>9. Written(b, s, op).reservations = b.reservations
  BY <1>3 DEF Written, Holds
<1>10. p \in Int /\ s.available + delta \in Int /\ s.reserved \in Int
  BY <1>1, <1>2 DEF p
<1>11. Written(b, s, op) = Updated(b, s.available + delta, s.reserved, p, 0,
                                   Append(s.entries, e), b.reservations)
  <2> DEFINE posted == Append(s.entries, e)
  <2>1. Continues(posted, s.entries)
    BY <1>7, RowsAdded, BookFields
  <2> HIDE DEF posted
  <2>2. Done(s, op) = Updated(s, s.available + delta, s.reserved, p, 0, posted, s.reservations)
    BY <1>8 DEF posted
  <2> DEFINE a == s.available + delta
             r == s.reserved
             k == 0
  <2>3. a \in Int /\ r \in Int /\ k \in Int /\ p \in Int
    BY <1>10
  <2>4. Done(s, op) = Updated(s, a, r, p, k, posted, s.reservations)
    BY <2>2
  <2> HIDE DEF a, r, k
  <2>5. Written(b, s, op) = Updated(b, a, r, p, k, posted, Written(b, s, op).reservations)
    BY <2>1, <2>3, <2>4, UpdateCommits
  <2> QED BY <1>9, <2>5 DEF posted, a, r, k
<1>12. Written(b, s, op) = Mutate(b, op.type, op.idempotencyKey, delta)
  BY <1>1, <1>11 DEF Mutate, e, p
<1> QED BY <1>5, <1>12 DEF delta

\* A reservation, committed: the id it computed is the next one.
LEMMA ReserveCommits ==
  ASSUME NEW s \in Book, NEW b \in Book, Agrees(s, b), s.version = b.version,
         NEW op, op.type = "RESERVATION", op.idempotencyKey \in Key, op.amount \in Int,
         Writes(s, op)
  PROVE  /\ Written(b, s, op) = Reserve(b, op.idempotencyKey, op.amount)
         /\ ReserveOk(b, op.idempotencyKey, op.amount)
<1> DEFINE key == op.idempotencyKey
           e == ReserveEntry(b, key, op.amount)
           r == NewReservation(key, op.amount)
           all == Append(s.reservations, r)
<1>1. /\ s.available = b.available /\ s.reserved = b.reserved /\ s.entries = b.entries
      /\ b.available \in Int /\ b.reserved \in Int
      /\ DOMAIN s.reservations = DOMAIN b.reservations
      /\ \A id \in DOMAIN s.reservations :
           s.reservations[id].idempotencyKey = b.reservations[id].idempotencyKey
      /\ s.reservations \in Seq(Reservation) /\ b.reservations \in Seq(Reservation)
  BY BookFields DEF Agrees
<1>2. Len(s.reservations) = Len(b.reservations)
  BY <1>1
<1>3. ReserveOk(s, key, op.amount)
  BY DEF Writes, Credits, Debits
<1>4. ReserveOk(b, key, op.amount)
  BY <1>1, <1>3 DEF ReserveOk, HasReservation
<1>5. ReserveEntry(s, key, op.amount) = e
  BY <1>1, <1>2 DEF ReserveEntry
<1>6. e \in LedgerEntry
  BY ReserveEntryType
<1> HIDE DEF key, e, r
<1>7. all[Len(all)] = r
  BY <1>1
<1> HIDE DEF all
<1>8. Done(s, op) = Updated(s, s.available - op.amount, s.reserved + op.amount, 0, 0,
                            Append(s.entries, e), all)
  BY <1>5 DEF Done, Reserve, key, r, all
<1>9. Done(s, op).reservations = all
  BY <1>8 DEF Updated
<1>10. Written(b, s, op).reservations = Append(b.reservations, r)
  BY <1>7, <1>9 DEF Written
<1>11. s.available - op.amount \in Int /\ s.reserved + op.amount \in Int
  BY <1>1
<1>12. Written(b, s, op) = Updated(b, s.available - op.amount, s.reserved + op.amount, 0, 0,
                                   Append(s.entries, e), Append(b.reservations, r))
  <2> DEFINE posted == Append(s.entries, e)
  <2>1. Continues(posted, s.entries)
    BY <1>6, RowsAdded, BookFields
  <2> HIDE DEF posted
  <2>2. Done(s, op) = Updated(s, s.available - op.amount, s.reserved + op.amount, 0, 0, posted, all)
    BY <1>8 DEF posted
  <2> DEFINE a == s.available - op.amount
             h == s.reserved + op.amount
             k == 0
  <2>3. a \in Int /\ h \in Int /\ k \in Int
    BY <1>11
  <2>4. Done(s, op) = Updated(s, a, h, k, k, posted, all)
    BY <2>2
  <2> HIDE DEF a, h, k
  <2>5. Written(b, s, op) = Updated(b, a, h, k, k, posted, Written(b, s, op).reservations)
    BY <2>1, <2>3, <2>4, UpdateCommits
  <2> QED BY <1>10, <2>5 DEF posted, a, h, k
<1>13. Written(b, s, op) = Reserve(b, key, op.amount)
  BY <1>1, <1>12 DEF Reserve, e, r
<1> QED BY <1>4, <1>13 DEF key

\* A reservation that was ACTIVE when it was read is ACTIVE, with the same amounts.
LEMMA StillActive ==
  ASSUME NEW s \in Book, NEW b \in Book, Agrees(s, b), NEW id, IsActive(s, id)
  PROVE  /\ id \in DOMAIN s.reservations /\ id \in DOMAIN b.reservations /\ IsActive(b, id)
         /\ s.reservations[id].amount = b.reservations[id].amount
         /\ s.reservations[id].capturedAmount = b.reservations[id].capturedAmount
         /\ b.reservations[id].amount \in Int /\ id \in Nat
<1>1. /\ id \in DOMAIN s.reservations /\ id \in DOMAIN b.reservations /\ IsActive(b, id)
      /\ s.reservations[id].amount = b.reservations[id].amount
      /\ s.reservations[id].capturedAmount = b.reservations[id].capturedAmount
  BY DEF Agrees, IsActive
<1> QED BY <1>1, ReservationFields

\* Settling as computed from what was read.
LEMMA SettledCommits ==
  ASSUME NEW s \in Book, NEW b, NEW id \in DOMAIN s.reservations, NEW op,
         op.type \in Holds, op.type # "RESERVATION", op.referenceId = id, NEW status, NEW n,
         Done(s, op).reservations = Settle(s, id, status, n)
  PROVE  Written(b, s, op).reservations = Settle(b, id, status, n)
<1> DEFINE then == Done(s, op)
           new == Settled(s.reservations[id], status, n)
<1>1. new.status = status /\ new.capturedAmount = n
  BY DEF Settled
<1>2. then.reservations[id] = new
  BY DEF Settle
<1> HIDE DEF then, new
<1>3. then.reservations[id].status = status /\ then.reservations[id].capturedAmount = n
  BY <1>1, <1>2
<1> QED BY <1>3 DEF Written, then

\* A capture, committed: the hold may have passed its TTL since it was read.
LEMMA CaptureCommits ==
  ASSUME NEW s \in Book, NEW b \in Book, Agrees(s, b), s.version = b.version,
         NEW op, op.type = "RESERVATION_CAPTURE", op.idempotencyKey \in Key, op.amount \in Int,
         Writes(s, op)
  PROVE  /\ Written(b, s, op) = Capture(b, op.idempotencyKey, op.referenceId, op.amount)
         /\ CaptureFits(b, op.idempotencyKey, op.referenceId, op.amount)
<1> DEFINE key == op.idempotencyKey
           id == op.referenceId
           held == b.reservations[id].amount
           posted == CaptureRows(b, key, id, op.amount)
<1>1. /\ s.available = b.available /\ s.reserved = b.reserved /\ s.entries = b.entries
      /\ b.available \in Int /\ b.reserved \in Int /\ s.entries \in Seq(LedgerEntry)
  BY BookFields DEF Agrees
<1>2. CaptureFits(s, key, id, op.amount)
  BY DEF Writes, Credits, Debits, CaptureOk
<1>3. /\ id \in DOMAIN s.reservations /\ id \in DOMAIN b.reservations /\ IsActive(b, id)
      /\ s.reservations[id].amount = held /\ held \in Int
  BY <1>2, StillActive DEF CaptureFits
<1>4. CaptureFits(b, key, id, op.amount)
  BY <1>1, <1>2, <1>3 DEF CaptureFits, HasEntry
<1>5. /\ CaptureRows(s, key, id, op.amount) = posted
      /\ Unused(s, id, op.amount) = held - op.amount
  BY <1>1, <1>3 DEF CaptureRows, CaptureEntry, RemainderEntry, Unused
<1>6. Continues(posted, s.entries)
  <2> DEFINE e == CaptureEntry(b, key, id, op.amount)
             f == RemainderEntry(b, key, id, op.amount)
  <2>1. e \in LedgerEntry /\ f \in LedgerEntry
    BY <1>3, CaptureRowsType
  <2>2. posted \in {Append(s.entries, e), Append(Append(s.entries, e), f)}
    BY <1>1 DEF CaptureRows
  <2> HIDE DEF e, f, posted
  <2> QED BY <1>1, <2>1, <2>2, RowsAdded
<1> DEFINE a == s.available + (held - op.amount)
           r == s.reserved - held
           k == 0
           all == Settle(s, id, "CAPTURED", op.amount)
<1>7. Done(s, op) = Updated(s, a, r, k, op.amount, posted, all)
  BY <1>3, <1>5 DEF Done, Capture
<1>8. Written(b, s, op).reservations = Settle(b, id, "CAPTURED", op.amount)
  <2>1. Done(s, op).reservations = all
    BY <1>7 DEF Updated
  <2> QED BY <1>3, <2>1, SettledCommits DEF Holds
<1>9. a \in Int /\ r \in Int /\ k \in Int
  BY <1>1, <1>3
<1>10. Capture(b, key, id, op.amount) =
         Updated(b, a, r, k, op.amount, posted, Settle(b, id, "CAPTURED", op.amount))
  BY <1>1 DEF Capture, Unused
<1> HIDE DEF a, r, k, all, posted
<1>11. Written(b, s, op) = Updated(b, a, r, k, op.amount, posted, Written(b, s, op).reservations)
  BY <1>6, <1>7, <1>9, UpdateCommits
<1> QED BY <1>4, <1>8, <1>10, <1>11

\* A release, committed, a caller's or the sweep's.
LEMMA ReleaseCommits ==
  ASSUME NEW s \in Book, NEW b \in Book, Agrees(s, b), s.version = b.version,
         NEW op, op.type = "RESERVATION_RELEASE", op.idempotencyKey \in EntryKey, Writes(s, op)
  PROVE  /\ Written(b, s, op) = Release(b, op.idempotencyKey, op.referenceId)
         /\ ReleaseOk(b, op.idempotencyKey, op.referenceId)
<1> DEFINE key == op.idempotencyKey
           id == op.referenceId
           held == b.reservations[id].amount
           n == b.reservations[id].capturedAmount
           e == ReleaseEntry(b, key, id)
           posted == Append(b.entries, e)
<1>1. /\ s.available = b.available /\ s.reserved = b.reserved /\ s.entries = b.entries
      /\ b.available \in Int /\ b.reserved \in Int /\ s.entries \in Seq(LedgerEntry)
  BY BookFields DEF Agrees
<1>2. ReleaseOk(s, key, id)
  BY DEF Writes, Credits, Debits
<1>3. /\ id \in DOMAIN s.reservations /\ id \in DOMAIN b.reservations /\ IsActive(b, id)
      /\ s.reservations[id].amount = held /\ held \in Int
      /\ s.reservations[id].capturedAmount = n
  BY <1>2, StillActive DEF ReleaseOk
<1>4. ReleaseOk(b, key, id)
  BY <1>1, <1>2, <1>3 DEF ReleaseOk, HasEntry
<1>5. ReleaseEntry(s, key, id) = e
  BY <1>1, <1>3 DEF ReleaseEntry
<1>6. e \in LedgerEntry
  BY <1>3, ReleaseEntryType
<1>7. Continues(posted, s.entries)
  <2> HIDE DEF e
  <2> QED BY <1>1, <1>6, RowsAdded
<1> DEFINE a == s.available + held
           r == s.reserved - held
           k == 0
           all == Settle(s, id, "RELEASED", n)
<1>8. Done(s, op) = Updated(s, a, r, k, k, posted, all)
  BY <1>1, <1>3, <1>5 DEF Done, Release
<1>9. Written(b, s, op).reservations = Settle(b, id, "RELEASED", n)
  <2>1. Done(s, op).reservations = all
    BY <1>8 DEF Updated
  <2> QED BY <1>3, <2>1, SettledCommits DEF Holds
<1>10. a \in Int /\ r \in Int /\ k \in Int
  BY <1>1, <1>3
<1>11. Release(b, key, id) = Updated(b, a, r, k, k, posted, Settle(b, id, "RELEASED", n))
  BY <1>1 DEF Release
<1> HIDE DEF a, r, k, all, posted
<1>12. Written(b, s, op) = Updated(b, a, r, k, k, posted, Written(b, s, op).reservations)
  BY <1>7, <1>8, <1>10, UpdateCommits
<1> QED BY <1>4, <1>9, <1>11, <1>12

-----------------------------------------------------------------------------
(***************************************************************************)
(* What a caller was told stays in the books.                              *)
(***************************************************************************)
\* A row or a reservation that answers an operation answers it in later books.
LEMMA AnswersStay ==
  ASSUME NEW b, NEW c, Grows(b, c), NEW op, Answers(b, op)
  PROVE  Answers(c, op)
<1>1. CASE op.type = "RESERVATION"
  BY <1>1 DEF Answers, Grows
<1>2. CASE op.type # "RESERVATION"
  BY <1>2 DEF Answers, Grows
<1> QED BY <1>1, <1>2

\* A row at the end of a ledger, or one more behind it.
LEMMA LastRow ==
  ASSUME NEW entries \in Seq(LedgerEntry), NEW e \in LedgerEntry, NEW f \in LedgerEntry,
         NEW posted \in {Append(entries, e), Append(Append(entries, e), f)}
  PROVE  \E i \in DOMAIN posted : posted[i] = e
<1> DEFINE first == Append(entries, e)
<1>1. /\ first \in Seq(LedgerEntry) /\ Len(entries) \in Nat /\ Len(first) = Len(entries) + 1
      /\ DOMAIN first = 1..(Len(entries) + 1) /\ first[Len(entries) + 1] = e
  BY RowsAppend
<1> HIDE DEF first
<1>2. /\ DOMAIN Append(first, f) = 1..(Len(first) + 1)
      /\ \A i \in 1..Len(first) : Append(first, f)[i] = first[i]
  BY <1>1, RowsAppend
<1>3. /\ Len(entries) + 1 \in DOMAIN first /\ Len(entries) + 1 \in DOMAIN Append(first, f)
      /\ Append(first, f)[Len(entries) + 1] = e
  BY <1>1, <1>2
<1> QED BY <1>1, <1>3 DEF first

\* mutate leaves a row that answers the operation.
LEMMA MutateAnswers ==
  ASSUME NEW b \in Book, NEW op, op.type \in Movements, op.idempotencyKey \in Key,
         op.amount \in Int, op.referenceId = 0
  PROVE  Answers(Mutate(b, op.type, op.idempotencyKey, Delta(op)), op)
<1> DEFINE e == MutateEntry(b, op.type, op.idempotencyKey, Delta(op))
           c == Mutate(b, op.type, op.idempotencyKey, Delta(op))
<1>1. Delta(op) \in Int BY DEF Delta
<1>2. e \in LedgerEntry /\ b.entries \in Seq(LedgerEntry)
  BY <1>1, MutateEntryType, BookFields DEF EntryKey, Movements
<1>3. /\ e.type = op.type /\ e.idempotencyKey = op.idempotencyKey
      /\ e.referenceId = op.referenceId /\ e.availableDelta = Delta(op)
  BY DEF MutateEntry, Entry
<1>4. c.entries \in {Append(b.entries, e), Append(Append(b.entries, e), e)}
  BY DEF Mutate, Updated
<1> HIDE DEF e, c
<1>5. \E i \in DOMAIN c.entries : c.entries[i] = e
  BY <1>2, <1>4, LastRow
<1>6. Answers(c, op)
  BY <1>3, <1>5 DEF Answers, Movements, Credits, Debits
<1> QED BY <1>6 DEF c

\* reserveCredits leaves a reservation that answers it.
LEMMA ReserveAnswers ==
  ASSUME NEW b \in Book, NEW op, op.type = "RESERVATION"
  PROVE  Answers(Reserve(b, op.idempotencyKey, op.amount), op)
<1> DEFINE r == NewReservation(op.idempotencyKey, op.amount)
           c == Reserve(b, op.idempotencyKey, op.amount)
<1>1. r.idempotencyKey = op.idempotencyKey /\ r.amount = op.amount
  BY DEF NewReservation
<1>2. c.reservations = Append(b.reservations, r) /\ b.reservations \in Seq(Reservation)
  BY BookFields DEF Reserve, Updated
<1> HIDE DEF r, c
<1> DEFINE id == Len(b.reservations) + 1
<1>3. id \in DOMAIN c.reservations /\ c.reservations[id] = r
  BY <1>2
<1> HIDE DEF id
<1>4. Answers(c, op)
  BY <1>1, <1>3 DEF Answers
<1> QED BY <1>4 DEF c

\* captureReservation leaves a row that answers it.
LEMMA CaptureAnswers ==
  ASSUME NEW b \in Book, NEW op, op.type = "RESERVATION_CAPTURE", op.idempotencyKey \in Key,
         op.amount \in Int, op.referenceId \in DOMAIN b.reservations
  PROVE  Answers(Capture(b, op.idempotencyKey, op.referenceId, op.amount), op)
<1> DEFINE e == CaptureEntry(b, op.idempotencyKey, op.referenceId, op.amount)
           f == RemainderEntry(b, op.idempotencyKey, op.referenceId, op.amount)
           c == Capture(b, op.idempotencyKey, op.referenceId, op.amount)
<1>1. e \in LedgerEntry /\ f \in LedgerEntry /\ b.entries \in Seq(LedgerEntry)
  BY CaptureRowsType, BookFields
<1>2. /\ e.type = op.type /\ e.idempotencyKey = op.idempotencyKey
      /\ e.referenceId = op.referenceId /\ e.reservedDelta = -op.amount
  BY DEF CaptureEntry, Entry
<1>3. c.entries \in {Append(b.entries, e), Append(Append(b.entries, e), f)}
  BY DEF Capture, Updated, CaptureRows
<1> HIDE DEF e, f, c
<1>4. \E i \in DOMAIN c.entries : c.entries[i] = e
  BY <1>1, <1>3, LastRow
<1>5. Answers(c, op)
  BY <1>2, <1>4 DEF Answers, Credits, Debits
<1> QED BY <1>5 DEF c

\* releaseReservation leaves a row that answers it.
LEMMA ReleaseAnswers ==
  ASSUME NEW b \in Book, NEW op, op.type = "RESERVATION_RELEASE", op.idempotencyKey \in EntryKey,
         op.referenceId \in DOMAIN b.reservations
  PROVE  Answers(Release(b, op.idempotencyKey, op.referenceId), op)
<1> DEFINE e == ReleaseEntry(b, op.idempotencyKey, op.referenceId)
           c == Release(b, op.idempotencyKey, op.referenceId)
<1>1. e \in LedgerEntry /\ b.entries \in Seq(LedgerEntry)
  BY ReleaseEntryType, BookFields
<1>2. /\ e.type = op.type /\ e.idempotencyKey = op.idempotencyKey
      /\ e.referenceId = op.referenceId
  BY DEF ReleaseEntry, Entry
<1>3. c.entries \in {Append(b.entries, e), Append(Append(b.entries, e), e)}
  BY DEF Release, Updated
<1> HIDE DEF e, c
<1>4. \E i \in DOMAIN c.entries : c.entries[i] = e
  BY <1>1, <1>3, LastRow
<1>5. Answers(c, op)
  BY <1>2, <1>4 DEF Answers, Credits, Debits
<1> QED BY <1>5 DEF c

-----------------------------------------------------------------------------
(***************************************************************************)
(* A commit is a step of CreditLedger.                                     *)
(***************************************************************************)
\* What clients ask for.
Asked(op) ==
  /\ op.user \in User /\ op.idempotencyKey \in Key /\ op.referenceId \in Nat
  /\ \/ /\ op.type \in Movement \union {"RESERVATION"}
        /\ op.amount \in Amount /\ ValidAmount(op.amount) /\ op.referenceId = 0
     \/ /\ op.type = "RESERVATION_CAPTURE"
        /\ op.amount \in Amount /\ ValidAmount(op.amount)
     \/ op.type = "RESERVATION_RELEASE"

\* mutate with one of its types is one of the operations that call it.
LEMMA MovementIsStep ==
  ASSUME NEW u \in User, NEW op, op.type \in Movements, op.idempotencyKey \in Key,
         op.amount \in Amount,
         MutateBook(u, op.type, op.idempotencyKey, op.amount, Delta(op))
  PROVE  UserStep(u)
<1> DEFINE key == op.idempotencyKey
           amount == op.amount
<1>1. CASE op.type = "PURCHASE"
  <2>1. GrantCredits(u, key, amount, TRUE) BY <1>1 DEF GrantCredits, Delta, Debits
  <2> QED BY <2>1 DEF UserStep
<1>2. CASE op.type = "ADMIN_GRANT"
  <2>1. GrantCredits(u, key, amount, FALSE) BY <1>2 DEF GrantCredits, Delta, Debits
  <2> QED BY <2>1 DEF UserStep
<1>3. CASE op.type = "PROMOTION"
  <2>1. GrantPromotionCredits(u, key, amount)
    BY <1>3 DEF GrantPromotionCredits, Delta, Debits
  <2> QED BY <2>1 DEF UserStep
<1>4. CASE op.type = "REFUND"
  <2>1. RefundCredits(u, key, amount) BY <1>4 DEF RefundCredits, Delta, Debits
  <2> QED BY <2>1 DEF UserStep
<1>5. CASE op.type = "ADMIN_DEDUCTION"
  <2>1. DeductCredits(u, key, amount) BY <1>5 DEF DeductCredits, Delta, Debits
  <2> QED BY <2>1 DEF UserStep
<1>6. CASE op.type = "CONSUMPTION"
  <2>1. ConsumeCredits(u, key, amount) BY <1>6 DEF ConsumeCredits, Delta, Debits
  <2> QED BY <2>1 DEF UserStep
<1> QED BY <1>1, <1>2, <1>3, <1>4, <1>5, <1>6 DEF Movements, Credits, Debits

\* The commit of a client's operation whose version is the account's.
LEMMA CommitIsStep ==
  ASSUME Inv, NEW op, Asked(op), NEW s \in Book, Agrees(s, book[op.user]),
         s.version = book[op.user].version, Writes(s, op),
         op.type \in Movement \union {"RESERVATION"} => Room(op.user),
         SetBook(op.user, Written(book[op.user], s, op))
  PROVE  UserStep(op.user) /\ Answers(Written(book[op.user], s, op), op)
<1> DEFINE u == op.user
           b == book[u]
           key == op.idempotencyKey
<1>1. u \in User /\ b \in Book /\ key \in Key /\ key \in EntryKey
  BY DEF Inv, TypeOK, Asked, EntryKey
<1>2. CASE op.type \in Movement
  <2>1. /\ op.type \in Movements /\ op.amount \in Amount /\ op.amount \in Int
        /\ ValidAmount(op.amount) /\ op.referenceId = 0
    BY <1>2, MovementAssumption, AmountAssumption DEF Asked, Movements, Credits, Debits
  <2>2. /\ Written(b, s, op) = Mutate(b, op.type, key, Delta(op))
        /\ MutateOk(b, op.type, key, Delta(op))
    BY <1>1, <2>1, MutateCommits
  <2>3. MutateBook(u, op.type, key, op.amount, Delta(op))
    BY <1>2, <2>1, <2>2 DEF MutateBook
  <2>4. Answers(Written(b, s, op), op)
    BY <1>1, <2>1, <2>2, MutateAnswers
  <2> QED BY <1>1, <2>1, <2>3, <2>4, MovementIsStep
<1>3. CASE op.type = "RESERVATION"
  <2>1. op.amount \in Amount /\ op.amount \in Int /\ ValidAmount(op.amount)
    BY <1>3, AmountAssumption DEF Asked
  <2>2. Written(b, s, op) = Reserve(b, key, op.amount) /\ ReserveOk(b, key, op.amount)
    BY <1>1, <1>3, <2>1, ReserveCommits
  <2>3. ReserveCredits(u, key, op.amount)
    BY <1>3, <2>1, <2>2 DEF ReserveCredits
  <2>4. Answers(Written(b, s, op), op)
    BY <1>1, <1>3, <2>2, ReserveAnswers
  <2> QED BY <1>1, <2>1, <2>3, <2>4 DEF UserStep
<1>4. CASE op.type = "RESERVATION_CAPTURE"
  <2> DEFINE id == op.referenceId
  <2>1. op.amount \in Amount /\ op.amount \in Int /\ ValidAmount(op.amount)
    BY <1>4, MovementAssumption, AmountAssumption DEF Asked, Credits, Debits
  <2>2. Written(b, s, op) = Capture(b, key, id, op.amount) /\ CaptureFits(b, key, id, op.amount)
    BY <1>1, <1>4, <2>1, CaptureCommits
  <2>3. id \in DOMAIN b.reservations
    BY <2>2 DEF CaptureFits, IsActive
  <2>4. CaptureReservation(u, key, id, op.amount)
    BY <2>1, <2>2 DEF CaptureReservation
  <2>5. Answers(Written(b, s, op), op)
    BY <1>1, <1>4, <2>1, <2>2, <2>3, CaptureAnswers
  <2> QED BY <1>1, <2>1, <2>3, <2>4, <2>5 DEF UserStep
<1>5. CASE op.type = "RESERVATION_RELEASE"
  <2> DEFINE id == op.referenceId
  <2>1. Written(b, s, op) = Release(b, key, id) /\ ReleaseOk(b, key, id)
    BY <1>1, <1>5, ReleaseCommits
  <2>2. id \in DOMAIN b.reservations
    BY <2>1 DEF ReleaseOk, IsActive
  <2>3. ReleaseReservation(u, key, id)
    BY <2>1 DEF ReleaseReservation
  <2>4. Answers(Written(b, s, op), op)
    BY <1>1, <1>5, <2>1, <2>2, ReleaseAnswers
  <2> QED BY <1>1, <2>2, <2>3, <2>4 DEF UserStep
<1> QED BY <1>2, <1>3, <1>4, <1>5 DEF Asked

-----------------------------------------------------------------------------
(***************************************************************************)
(* The inductive invariant of the transactions.                            *)
(***************************************************************************)
Worker == Client \union Sweeper

Requests ==
  [user : User \union {"none"}, type : Movement \union Holds \union {"none"},
   idempotencyKey : EntryKey \union {"none"}, amount : Int, referenceId : Nat]

Transactions ==
  [pc : {"idle", "begun", "open", "done"}, op : Requests, attempt : Nat, snapshot : Book]

\* A client is anywhere in a call he may make, and keeps the answer of the last one.
Calling(t) == t.pc # "idle" => Asked(t.op)

\* A sweep calls for a hold of its batch, and is told nothing.
Releasing(t, progress) ==
  t.pc # "idle" =>
    /\ t.pc # "done" /\ progress.pc = "release"
    /\ \E h \in progress.batch :
         t.op = Request(h.user, "RESERVATION_RELEASE", ExpireKey(h.id), 0, h.id)

\* What was read, and what was answered.
Holding(t, b) ==
  /\ t.pc = "open" =>
       /\ t.snapshot.version <= b.version
       /\ t.snapshot.version = b.version => Agrees(t.snapshot, b)
       /\ Writes(t.snapshot, t.op)
  /\ t.pc = "done" => Answers(b, t.op)

OwnKeys == \A u \in User : \A i \in DOMAIN book[u].entries : OwnKey(book[u].entries[i])

TransactionsInv ==
  /\ Inv
  /\ tx \in [Worker -> Transactions]
  /\ \A c \in Client : Calling(tx[c])
  /\ \A s \in Sweeper : Releasing(tx[s], sweep[s])
  /\ \A w \in Worker : Holding(tx[w], BookOf(w))
  /\ OwnKeys

\* Nobody has a transaction of his own that is not of a user.
LEMMA BusyWorkers ==
  ASSUME TransactionsInv, NEW w \in Worker, tx[w].pc # "idle"
  PROVE  /\ tx[w].op.user \in User /\ BookOf(w) \in Book /\ BookOf(w).version \in Nat
         /\ tx[w].snapshot \in Book /\ tx[w].snapshot.version \in Nat
<1>1. tx[w].op.user \in User
  <2>1. CASE w \in Client BY <2>1 DEF TransactionsInv, Calling, Asked
  <2>2. CASE w \in Sweeper
    <3>1. PICK h \in sweep[w].batch :
            tx[w].op = Request(h.user, "RESERVATION_RELEASE", ExpireKey(h.id), 0, h.id)
      BY <2>2 DEF TransactionsInv, Releasing
    <3>2. h.user \in User BY <2>2 DEF TransactionsInv, Inv, SweepsKnowHolds
    <3> QED BY <3>1, <3>2 DEF Request
  <2> QED BY <2>1, <2>2 DEF Worker
<1>2. BookOf(w) \in Book BY <1>1 DEF BookOf, TransactionsInv, Inv, TypeOK
<1>3. tx[w].snapshot \in Book BY DEF TransactionsInv, Transactions
<1> QED BY <1>1, <1>2, <1>3, BookFields

\* What a transaction holds, it holds of a book that has grown.
LEMMA HoldingStays ==
  ASSUME NEW t \in Transactions, NEW b \in Book, NEW c \in Book, Grows(b, c), Holding(t, b)
  PROVE  Holding(t, c)
<1>1. ASSUME t.pc = "open"
      PROVE  /\ t.snapshot.version <= c.version
             /\ t.snapshot.version = c.version => Agrees(t.snapshot, c)
  <2>1. /\ t.snapshot.version \in Nat /\ b.version \in Nat /\ c.version \in Nat
        /\ t.snapshot.version <= b.version /\ b.version <= c.version
    BY <1>1, BookFields DEF Transactions, Holding, Grows
  <2>2. ASSUME t.snapshot.version = c.version PROVE Agrees(t.snapshot, c)
    <3>1. t.snapshot.version = b.version /\ b.version = c.version BY <2>1, <2>2
    <3>2. Agrees(t.snapshot, b) /\ Agrees(b, c) BY <1>1, <3>1 DEF Holding, Grows
    <3> QED BY <3>2, AgreesOn
  <2> QED BY <2>1, <2>2
<1> QED BY <1>1, AnswersStay DEF Holding

\* The rows that are added have keys of their own.
LEMMA OwnKeysStay == ASSUME OwnKeys, BooksGrow PROVE OwnKeys'
<1>1. ASSUME NEW u \in User, NEW i \in DOMAIN book'[u].entries
      PROVE  OwnKey(book'[u].entries[i])
  BY DEF OwnKeys, BooksGrow, Grows
<1> QED BY <1>1 DEF OwnKeys, OwnKey

\* A step of the ledger in which one transaction goes on, or none.
LEMMA OneTransaction ==
  ASSUME TransactionsInv, [Next]_vars, NEW w \in Worker, NEW t \in Transactions,
         tx' = [tx EXCEPT ![w] = t],
         w \in Client => Calling(t),
         w \in Sweeper => Releasing(t, sweep'[w]),
         t.pc # "idle" => Holding(t, book'[t.op.user]),
         \A s \in Sweeper : s # w => sweep'[s] = sweep[s]
  PROVE  TransactionsInv'
<1>1. Inv' BY NextInv DEF TransactionsInv
<1>2. BooksGrow BY NextGrows DEF TransactionsInv
<1>3. tx' \in [Worker -> Transactions] BY DEF TransactionsInv
<1>4. tx'[w] = t /\ \A v \in Worker : v # w => tx'[v] = tx[v] BY DEF TransactionsInv
<1>5. \A c \in Client : Calling(tx'[c])
  BY <1>4 DEF TransactionsInv, Worker
<1>6. \A s \in Sweeper : Releasing(tx'[s], sweep'[s])
  BY <1>4 DEF TransactionsInv, Worker
<1>7. ASSUME NEW v \in Worker PROVE Holding(tx'[v], book'[tx'[v].op.user])
  <2>1. CASE tx'[v].pc = "idle" BY <2>1 DEF Holding
  <2>2. CASE v = w /\ tx'[v].pc # "idle" BY <1>4, <2>2
  <2>3. CASE v # w /\ tx'[v].pc # "idle"
    <3>1. tx'[v] = tx[v] /\ tx[v] \in Transactions BY <1>4, <2>3 DEF TransactionsInv
    <3>2. tx[v].op.user \in User /\ BookOf(v) \in Book BY <2>3, <3>1, BusyWorkers
    <3>3. /\ Grows(book[tx[v].op.user], book'[tx[v].op.user])
          /\ book'[tx[v].op.user] \in Book
      BY <1>1, <1>2, <3>2 DEF BooksGrow, Inv, TypeOK
    <3>4. Holding(tx[v], book[tx[v].op.user]) BY DEF TransactionsInv, BookOf
    <3> QED BY <3>1, <3>2, <3>3, <3>4, HoldingStays DEF BookOf
  <2> QED BY <2>1, <2>2, <2>3
<1>8. OwnKeys' BY <1>2, OwnKeysStay DEF TransactionsInv
<1> QED
  BY <1>1, <1>3, <1>5, <1>6, <1>7, <1>8
     DEF TransactionsInv, BookOf

\* A step of the ledger that belongs to no transaction.
LEMMA OtherStep ==
  ASSUME TransactionsInv, [Next]_vars, UNCHANGED tx,
         \A s \in Sweeper : sweep'[s] = sweep[s] \/ tx[s].pc = "idle"
  PROVE  TransactionsInv'
<1>1. Inv' BY NextInv DEF TransactionsInv
<1>2. BooksGrow BY NextGrows DEF TransactionsInv
<1>3. \A s \in Sweeper : Releasing(tx[s], sweep'[s])
  BY DEF TransactionsInv, Releasing
<1>4. ASSUME NEW w \in Worker PROVE Holding(tx[w], book'[tx[w].op.user])
  <2>1. CASE tx[w].pc = "idle" BY <2>1 DEF Holding
  <2>2. CASE tx[w].pc # "idle"
    <3>1. tx[w].op.user \in User /\ BookOf(w) \in Book BY <2>2, BusyWorkers
    <3>2. /\ Grows(book[tx[w].op.user], book'[tx[w].op.user])
          /\ book'[tx[w].op.user] \in Book
      BY <1>1, <1>2, <3>1 DEF BooksGrow, Inv, TypeOK
    <3>3. Holding(tx[w], book[tx[w].op.user]) /\ tx[w] \in Transactions
      BY DEF TransactionsInv, BookOf
    <3> QED BY <3>1, <3>2, <3>3, HoldingStays DEF BookOf
  <2> QED BY <2>1, <2>2
<1>5. OwnKeys' BY <1>2, OwnKeysStay DEF TransactionsInv
<1> QED BY <1>1, <1>3, <1>4, <1>5 DEF TransactionsInv, BookOf

\* The idle transaction has its type.
LEMMA NoTransactionType == NoTransaction \in Transactions /\ NoTransaction.pc = "idle"
  BY NewBookType DEF NoTransaction, NoRequest, Request, Transactions, Requests

\* A transaction ends, and with it what was held.
LEMMA EndedTransaction ==
  ASSUME TransactionsInv, [Next]_vars, NEW w \in Worker, tx' = [tx EXCEPT ![w] = NoTransaction],
         \A s \in Sweeper : s # w => sweep'[s] = sweep[s]
  PROVE  TransactionsInv'
<1> DEFINE t == NoTransaction
<1>1. t \in Transactions /\ t.pc = "idle" BY NoTransactionType
<1> HIDE DEF t
<1>2. Calling(t) /\ (w \in Sweeper => Releasing(t, sweep'[w]))
  BY <1>1 DEF Calling, Releasing
<1>3. tx' = [tx EXCEPT ![w] = t] BY DEF t
<1> QED BY <1>1, <1>2, <1>3, OneTransaction

-----------------------------------------------------------------------------
(***************************************************************************)
(* The steps of serializable().                                            *)
(***************************************************************************)
\* The reads of an attempt.
LEMMA LookStep ==
  ASSUME TransactionsInv, NEW w \in Worker, Look(w)
  PROVE  [Next]_vars /\ TransactionsInv'
<1> DEFINE t == [tx[w] EXCEPT !.pc = "open", !.snapshot = BookOf(w)]
<1>1. tx[w] \in Transactions /\ tx[w].pc = "begun" BY DEF TransactionsInv, Look, Stage
<1>2. BookOf(w) \in Book /\ BookOf(w).version \in Nat BY <1>1, BusyWorkers
<1>3. t \in Transactions /\ t.pc = "open" /\ t.op = tx[w].op /\ t.snapshot = BookOf(w)
  BY <1>1, <1>2 DEF Transactions
<1>4. tx' = [tx EXCEPT ![w] = t] BY DEF Look
<1>5. UNCHANGED vars /\ [Next]_vars BY DEF Look
<1>6. Writes(BookOf(w), tx[w].op) BY DEF Look
<1> HIDE DEF t
<1>7. Holding(t, BookOf(w)) BY <1>2, <1>3, <1>6, AgreesWithItself DEF Holding
<1>8. book'[t.op.user] = BookOf(w) /\ UNCHANGED sweep BY <1>3, <1>5 DEF vars, BookOf
<1>9. w \in Client => Calling(t) BY <1>1, <1>3 DEF TransactionsInv, Calling
<1>10. w \in Sweeper => Releasing(t, sweep'[w])
  BY <1>1, <1>3, <1>8 DEF TransactionsInv, Releasing
<1>11. TransactionsInv'
  BY <1>3, <1>4, <1>5, <1>7, <1>8, <1>9, <1>10, OneTransaction
<1> QED BY <1>5, <1>11

\* An attempt that starts over.
LEMMA ConflictStep ==
  ASSUME TransactionsInv, NEW w \in Worker, Conflict(w)
  PROVE  [Next]_vars /\ TransactionsInv'
<1> DEFINE n == tx[w].attempt + 1
           t == [tx[w] EXCEPT !.pc = "begun", !.attempt = n, !.snapshot = NewBook]
<1>1. tx[w] \in Transactions /\ tx[w].pc \in {"begun", "open"}
  BY DEF TransactionsInv, Conflict, Stage
<1>2. t \in Transactions /\ t.pc = "begun" /\ t.op = tx[w].op
  <2>1. n \in Nat BY <1>1 DEF Transactions
  <2> HIDE DEF n
  <2> QED BY <1>1, <2>1, NewBookType DEF Transactions
<1>3. tx' = [tx EXCEPT ![w] = t] BY DEF Conflict
<1>4. UNCHANGED vars /\ [Next]_vars BY DEF Conflict
<1> HIDE DEF t
<1>5. Holding(t, book'[t.op.user]) BY <1>2 DEF Holding
<1>6. UNCHANGED sweep BY <1>4 DEF vars
<1>7. w \in Client => Calling(t) BY <1>1, <1>2 DEF TransactionsInv, Calling
<1>8. w \in Sweeper => Releasing(t, sweep'[w])
  BY <1>1, <1>2, <1>6 DEF TransactionsInv, Releasing
<1>9. TransactionsInv'
  BY <1>2, <1>3, <1>4, <1>5, <1>6, <1>7, <1>8, OneTransaction
<1> QED BY <1>4, <1>9

-----------------------------------------------------------------------------
(***************************************************************************)
(* The steps of clients.                                                   *)
(***************************************************************************)
\* A client is not a sweep.
LEMMA ClientIsNoSweeper == ASSUME NEW c \in Client PROVE c \in Worker /\ c \notin Sweeper
  BY ClientAssumption DEF Worker

\* A client's call.
LEMMA CallStep ==
  ASSUME TransactionsInv, NEW c \in Client, NEW op \in Requests, Call(c, op),
         op.type \in Movement \union Holds, op.user \in User, op.idempotencyKey \in Key,
         op.type # "RESERVATION_RELEASE" => op.amount \in Amount,
         op.type \in Movement \union {"RESERVATION"} => op.referenceId = 0
  PROVE  [Next]_vars /\ TransactionsInv'
<1> DEFINE t == [pc |-> "begun", op |-> op, attempt |-> 1, snapshot |-> NewBook]
<1>1. t \in Transactions /\ t.pc = "begun" /\ t.op = op
  BY NewBookType DEF Transactions
<1>2. tx' = [tx EXCEPT ![c] = t] BY DEF Call, Submit
<1>3. UNCHANGED vars /\ [Next]_vars BY DEF Call
<1> HIDE DEF t
<1>4. op.referenceId \in Nat BY DEF Requests
<1>5. op.type # "RESERVATION_RELEASE" => ValidAmount(op.amount) BY DEF Call
<1>6. Calling(t) BY <1>1, <1>4, <1>5 DEF Calling, Asked, Holds
<1>7. Holding(t, book'[t.op.user]) BY <1>1 DEF Holding
<1>8. UNCHANGED sweep BY <1>3 DEF vars
<1>9. TransactionsInv'
  BY <1>1, <1>2, <1>3, <1>6, <1>7, <1>8, ClientIsNoSweeper, OneTransaction
<1> QED BY <1>3, <1>9

\* A call that ends with the answer that it is done, rightly, or without.
LEMMA EndsStep ==
  ASSUME TransactionsInv, [Next]_vars, NEW c \in Client, tx[c].pc # "idle",
         NEW done \in BOOLEAN, Ends(c, done), UNCHANGED sweep,
         done => Answers(book'[tx[c].op.user], tx[c].op)
  PROVE  TransactionsInv'
<1>1. tx[c] \in Transactions /\ c \in Worker BY ClientIsNoSweeper DEF TransactionsInv
<1>2. CASE ~done
  <2>1. tx' = [tx EXCEPT ![c] = NoTransaction] BY <1>2 DEF Ends
  <2> QED BY <1>1, <2>1, EndedTransaction
<1>3. CASE done
  <2> DEFINE t == [NoTransaction EXCEPT !.pc = "done", !.op = tx[c].op]
  <2>1. t \in Transactions /\ t.pc = "done" /\ t.op = tx[c].op
    BY <1>1, NoTransactionType DEF Transactions
  <2>2. tx' = [tx EXCEPT ![c] = t] BY <1>3 DEF Ends
  <2> HIDE DEF t
  <2>3. Calling(t) BY <2>1 DEF TransactionsInv, Calling
  <2>4. Holding(t, book'[t.op.user]) BY <1>3, <2>1 DEF Holding
  <2> QED BY <1>1, <2>1, <2>2, <2>3, <2>4, ClientIsNoSweeper, OneTransaction
<1> QED BY <1>2, <1>3

\* The answer of an earlier call, an exception, the last conflict.
LEMMA AnswerStep ==
  ASSUME TransactionsInv, NEW c \in Client, Answer(c) \/ GiveUp(c)
  PROVE  [Next]_vars /\ TransactionsInv'
<1>1. UNCHANGED vars /\ [Next]_vars /\ tx[c].pc # "idle"
  BY DEF Answer, GiveUp, Stage
<1>2. UNCHANGED <<book, sweep>> BY <1>1 DEF vars
<1>3. CASE Answer(c)
  <2> DEFINE done == Answers(BookOf(c), tx[c].op)
  <2>1. done \in BOOLEAN BY DEF Answers
  <2>2. Ends(c, done) BY <1>3 DEF Answer
  <2>3. done => Answers(book'[tx[c].op.user], tx[c].op) BY <1>2 DEF BookOf
  <2> HIDE DEF done
  <2> QED BY <1>1, <1>2, <2>1, <2>2, <2>3, EndsStep
<1>4. CASE GiveUp(c)
  <2>1. Ends(c, FALSE) BY <1>4 DEF GiveUp
  <2> QED BY <1>1, <1>2, <2>1, EndsStep
<1> QED BY <1>1, <1>3, <1>4

\* A client's commit is the operation's one step of the ledger.
LEMMA CommitStep ==
  ASSUME TransactionsInv, NEW c \in Client, Commit(c)
  PROVE  [Next]_vars /\ TransactionsInv'
<1> DEFINE op == tx[c].op
           s == tx[c].snapshot
           u == op.user
           b == book[u]
<1>1. /\ tx[c].pc = "open" /\ b.version = s.version
      /\ op.type \in Movement \union {"RESERVATION"} => Room(u)
      /\ book' = [book EXCEPT ![u] = Written(b, s, op)]
      /\ UNCHANGED <<sweep, rebuild, crashes>>
  BY DEF Commit, Commits, Stage
<1>2. /\ c \in Worker /\ Asked(op) /\ u \in User /\ s \in Book /\ b \in Book
      /\ s.version = b.version /\ Agrees(s, b) /\ Writes(s, op)
  BY <1>1, ClientIsNoSweeper, BusyWorkers DEF TransactionsInv, Calling, Holding, BookOf
<1>3. SetBook(u, Written(b, s, op)) BY <1>1 DEF SetBook
<1>4. Inv BY DEF TransactionsInv
<1>5. UserStep(u) /\ Answers(Written(b, s, op), op)
  BY <1>1, <1>2, <1>3, <1>4, CommitIsStep
<1>6. [Next]_vars BY <1>2, <1>5 DEF Next
<1>7. Answers(book'[u], op) BY <1>1, <1>2, <1>4, <1>5 DEF Inv, TypeOK
<1>8. PICK told \in BOOLEAN : Ends(c, told) BY DEF Commit
<1>9. TransactionsInv' BY <1>1, <1>6, <1>7, <1>8, EndsStep
<1> QED BY <1>6, <1>9

-----------------------------------------------------------------------------
(***************************************************************************)
(* The steps of sweeps.                                                    *)
(***************************************************************************)
\* A step of a sweep that ends its transaction.
LEMMA SweepEnds ==
  ASSUME TransactionsInv, NEW s \in Sweeper, SweepStep(s) \/ SweepCrash(s), NEW new,
         sweep' = [sweep EXCEPT ![s] = new], tx' = [tx EXCEPT ![s] = NoTransaction]
  PROVE  [Next]_vars /\ TransactionsInv'
<1>1. [Next]_vars BY DEF Next
<1>2. s \in Worker /\ \A r \in Sweeper : r # s => sweep'[r] = sweep[r]
  BY DEF Worker, TransactionsInv, Inv, TypeOK
<1> QED BY <1>1, <1>2, EndedTransaction

\* What a sweep is about to release.
LEMMA SweepsHold ==
  ASSUME TransactionsInv, NEW s \in Sweeper, tx[s].pc # "idle"
  PROVE  /\ sweep[s].pc = "release"
         /\ \E h \in sweep[s].batch :
              /\ h \in [user : User, id : Nat \ {0}] /\ h.id \in DOMAIN book[h.user].reservations
              /\ h = [user |-> tx[s].op.user, id |-> tx[s].op.referenceId]
              /\ tx[s].op.type = "RESERVATION_RELEASE"
              /\ tx[s].op.idempotencyKey = ExpireKey(h.id)
<1>1. /\ sweep[s].pc = "release"
      /\ \E h \in sweep[s].batch :
           tx[s].op = Request(h.user, "RESERVATION_RELEASE", ExpireKey(h.id), 0, h.id)
  BY DEF TransactionsInv, Releasing
<1>2. PICK h \in sweep[s].batch :
        tx[s].op = Request(h.user, "RESERVATION_RELEASE", ExpireKey(h.id), 0, h.id)
  BY <1>1
<1>3. /\ tx[s].op.user = h.user /\ tx[s].op.referenceId = h.id
      /\ tx[s].op.type = "RESERVATION_RELEASE" /\ tx[s].op.idempotencyKey = ExpireKey(h.id)
  BY <1>2 DEF Request
<1>4. h.user \in User /\ h.id \in DOMAIN book[h.user].reservations
  BY DEF TransactionsInv, Inv, SweepsKnowHolds
<1>5. sweep[s].batch \subseteq [user : User \union {"none"}, id : Nat]
  BY DEF TransactionsInv, Inv, TypeOK
<1>6. h = [user |-> h.user, id |-> h.id] /\ h.id \in Nat
  BY <1>5
<1>7. h.id \in Nat \ {0}
  BY <1>4, ReservationFields DEF TransactionsInv, Inv, TypeOK
<1>8. h \in [user : User, id : Nat \ {0}]
  BY <1>4, <1>6, <1>7
<1>9. h = [user |-> tx[s].op.user, id |-> tx[s].op.referenceId]
  BY <1>3, <1>6
<1> QED BY <1>1, <1>3, <1>4, <1>8, <1>9

\* A sweep's call.
LEMMA SweepCallsStep ==
  ASSUME TransactionsInv, NEW s \in Sweeper, SweepCalls(s)
  PROVE  [Next]_vars /\ TransactionsInv'
<1>1. PICK h \in sweep[s].batch :
        Submit(s, Request(h.user, "RESERVATION_RELEASE", ExpireKey(h.id), 0, h.id))
  BY DEF SweepCalls
<1> DEFINE op == Request(h.user, "RESERVATION_RELEASE", ExpireKey(h.id), 0, h.id)
           t == [pc |-> "begun", op |-> op, attempt |-> 1, snapshot |-> NewBook]
<1>2. UNCHANGED vars /\ [Next]_vars /\ sweep[s].pc = "release" BY DEF SweepCalls
<1>3. UNCHANGED sweep BY <1>2 DEF vars
<1>4. h.user \in User /\ h.id \in Nat
  BY DEF TransactionsInv, Inv, TypeOK, SweepsKnowHolds
<1>5. op \in Requests
  BY <1>4 DEF Request, Requests, Holds, EntryKey, ExpireKey
<1> HIDE DEF op
<1>6. t \in Transactions /\ t.pc = "begun" /\ t.op = op BY <1>5, NewBookType DEF Transactions
<1>7. tx' = [tx EXCEPT ![s] = t] BY <1>1 DEF Submit, op
<1> HIDE DEF t
<1>8. Releasing(t, sweep'[s]) BY <1>2, <1>3, <1>6 DEF Releasing, op
<1>9. Holding(t, book'[t.op.user]) BY <1>6 DEF Holding
<1>10. s \in Worker /\ s \notin Client BY ClientAssumption DEF Worker
<1>11. TransactionsInv' BY <1>2, <1>3, <1>6, <1>7, <1>8, <1>9, <1>10, OneTransaction
<1> QED BY <1>2, <1>11

\* The sweep was answered: its own row is there.
LEMMA SweepAnsweredStep ==
  ASSUME TransactionsInv, NEW s \in Sweeper, SweepAnswered(s)
  PROVE  [Next]_vars /\ TransactionsInv'
<1> DEFINE new == [pc |-> "mark", batch |-> sweep[s].batch,
                   hold |-> [user |-> tx[s].op.user, id |-> tx[s].op.referenceId]]
<1>1. /\ tx[s].pc = "begun" /\ Answers(BookOf(s), tx[s].op) /\ UNCHANGED book
      /\ sweep' = [sweep EXCEPT ![s] = new] /\ tx' = [tx EXCEPT ![s] = NoTransaction]
      /\ UNCHANGED <<rebuild, crashes>>
  BY DEF SweepAnswered, GoesOn, Stage
<1>2. PICK h \in sweep[s].batch :
        /\ h = [user |-> tx[s].op.user, id |-> tx[s].op.referenceId]
        /\ tx[s].op.type = "RESERVATION_RELEASE"
        /\ tx[s].op.idempotencyKey = ExpireKey(h.id)
  BY <1>1, SweepsHold
<1>3. HasEntry(book[h.user], "RESERVATION_RELEASE", ExpireKey(h.id))
  BY <1>1, <1>2 DEF Answers, HasEntry, BookOf
<1>4. sweep[s].pc = "release" BY <1>1, SweepsHold
<1>5. SweepRelease(s)
  BY <1>1, <1>2, <1>3, <1>4 DEF SweepRelease
<1> QED BY <1>1, <1>5, SweepEnds DEF SweepStep

\* The sweep was refused: no row has its key.
LEMMA SweepRefusedStep ==
  ASSUME TransactionsInv, NEW s \in Sweeper, SweepRefused(s)
  PROVE  [Next]_vars /\ TransactionsInv'
<1>1. /\ tx[s].pc = "begun" /\ UNCHANGED <<book, rebuild, crashes>>
      /\ ~Writes(BookOf(s), tx[s].op) /\ ~Answers(BookOf(s), tx[s].op)
      /\ sweep' = [sweep EXCEPT ![s] = IdleSweep] /\ tx' = [tx EXCEPT ![s] = NoTransaction]
  BY DEF SweepRefused, Stage
<1>2. PICK h \in sweep[s].batch :
        /\ h \in [user : User, id : Nat \ {0}]
        /\ h = [user |-> tx[s].op.user, id |-> tx[s].op.referenceId]
        /\ tx[s].op.type = "RESERVATION_RELEASE"
        /\ tx[s].op.idempotencyKey = ExpireKey(h.id)
  BY <1>1, SweepsHold
<1>3. ~ReleaseOk(book[h.user], ExpireKey(h.id), h.id)
  BY <1>1, <1>2 DEF Writes, BookOf
<1>4. ASSUME HasEntry(book[h.user], "RESERVATION_RELEASE", ExpireKey(h.id)) PROVE FALSE
  <2>1. PICK i \in DOMAIN book[h.user].entries :
          /\ book[h.user].entries[i].type = "RESERVATION_RELEASE"
          /\ book[h.user].entries[i].idempotencyKey = ExpireKey(h.id)
    BY <1>4 DEF HasEntry
  <2>2. h.user \in User /\ h.id \in Nat BY <1>2
  <2>3. book[h.user].entries[i].referenceId = h.id
    BY <2>1, <2>2 DEF TransactionsInv, OwnKeys, OwnKey
  <2>4. tx[s].op.referenceId = h.id /\ BookOf(s) = book[h.user] BY <1>2 DEF BookOf
  <2> DEFINE op == tx[s].op
             b == BookOf(s)
  <2>5. /\ op.type = "RESERVATION_RELEASE" /\ i \in DOMAIN b.entries
        /\ b.entries[i].type = op.type /\ b.entries[i].referenceId = op.referenceId
        /\ b.entries[i].idempotencyKey = op.idempotencyKey
    BY <1>2, <2>1, <2>3, <2>4
  <2> HIDE DEF op, b
  <2>6. op.type \notin Credits \union Debits BY <2>5 DEF Credits, Debits
  <2>7. Answers(b, op)
    BY <2>5, <2>6 DEF Answers
  <2> QED BY <1>1, <2>7 DEF op, b
<1>5. sweep[s].pc = "release" BY <1>1, SweepsHold
<1>6. SweepAbort(s) BY <1>1, <1>2, <1>3, <1>4, <1>5 DEF SweepAbort
<1> QED BY <1>1, <1>6, SweepEnds DEF SweepStep

\* A sweep's commit is its release.
LEMMA SweepCommitsStep ==
  ASSUME TransactionsInv, NEW s \in Sweeper, SweepCommits(s)
  PROVE  [Next]_vars /\ TransactionsInv'
<1> DEFINE op == tx[s].op
           b == book[op.user]
           new == [pc |-> "mark", batch |-> sweep[s].batch,
                   hold |-> [user |-> op.user, id |-> op.referenceId]]
<1>1. /\ tx[s].pc = "open" /\ b.version = tx[s].snapshot.version
      /\ book' = [book EXCEPT ![op.user] = Written(b, tx[s].snapshot, op)]
      /\ sweep' = [sweep EXCEPT ![s] = new] /\ tx' = [tx EXCEPT ![s] = NoTransaction]
      /\ UNCHANGED <<rebuild, crashes>>
  BY DEF SweepCommits, Commits, GoesOn, Stage
<1>2. PICK h \in sweep[s].batch :
        /\ h \in [user : User, id : Nat \ {0}]
        /\ h = [user |-> op.user, id |-> op.referenceId]
        /\ op.type = "RESERVATION_RELEASE"
        /\ op.idempotencyKey = ExpireKey(h.id)
  BY <1>1, SweepsHold
<1>3. h.user = op.user /\ h.id = op.referenceId /\ h.id \in Nat
  BY <1>2
<1>4. op.idempotencyKey \in EntryKey
  BY <1>2, <1>3 DEF EntryKey, ExpireKey
<1>5. /\ b \in Book /\ tx[s].snapshot \in Book /\ Agrees(tx[s].snapshot, b)
      /\ Writes(tx[s].snapshot, op)
  BY <1>1, BusyWorkers DEF TransactionsInv, Holding, BookOf, Worker
<1>6. /\ Written(b, tx[s].snapshot, op) = Release(b, ExpireKey(h.id), h.id)
      /\ ReleaseOk(b, ExpireKey(h.id), h.id)
  BY <1>1, <1>2, <1>3, <1>4, <1>5, ReleaseCommits
<1>7. sweep[s].pc = "release" BY <1>1, SweepsHold
<1>8. SweepRelease(s)
  BY <1>1, <1>2, <1>3, <1>6, <1>7 DEF SweepRelease
<1> QED BY <1>1, <1>8, SweepEnds DEF SweepStep

\* All steps of a sweep.
LEMMA SweeperSteps ==
  ASSUME TransactionsInv, NEW s \in Sweeper, SweeperStep(s)
  PROVE  [Next]_vars /\ TransactionsInv'
<1>1. CASE SweepDies(s)
  BY <1>1, SweepEnds DEF SweepDies, SweepCrash
<1>2. CASE (SweepFind(s) \/ SweepMark(s)) /\ UNCHANGED tx
  <2>1. [Next]_vars BY <1>2 DEF Next, SweepStep
  <2>2. sweep[s].pc # "release" BY <1>2 DEF SweepFind, SweepMark
  <2>3. tx[s].pc = "idle" BY <2>2, SweepsHold
  <2>4. \A r \in Sweeper : r # s => sweep'[r] = sweep[r]
    BY <1>2 DEF SweepFind, SweepMark, TransactionsInv, Inv, TypeOK
  <2> QED BY <1>2, <2>1, <2>3, <2>4, OtherStep
<1> QED
  BY <1>1, <1>2, SweepCallsStep, SweepAnsweredStep, SweepRefusedStep, SweepCommitsStep
     DEF SweeperStep

-----------------------------------------------------------------------------
(***************************************************************************)
(* All steps, and what follows.                                            *)
(***************************************************************************)
\* What a client asks for is a request.
LEMMA ClientSteps ==
  ASSUME TransactionsInv, NEW c \in Client, ClientStep(c)
  PROVE  [Next]_vars /\ TransactionsInv'
<1>1. \A amount \in Amount : amount \in Int BY AmountAssumption
<1>2. \A u \in User : \A id \in DOMAIN book[u].reservations : id \in Nat
  BY ReservationFields DEF TransactionsInv, Inv, TypeOK
<1>3. ASSUME NEW u \in User, NEW key \in Key, NEW type \in Movement \union Holds,
             NEW amount \in Int, NEW id \in Nat, Call(c, Request(u, type, key, amount, id)),
             type # "RESERVATION_RELEASE" => amount \in Amount,
             type \in Movement \union {"RESERVATION"} => id = 0
      PROVE  [Next]_vars /\ TransactionsInv'
  <2> DEFINE op == Request(u, type, key, amount, id)
  <2>1. /\ op.user = u /\ op.type = type /\ op.idempotencyKey = key /\ op.amount = amount
        /\ op.referenceId = id /\ op \in Requests
    BY DEF Request, Requests, EntryKey
  <2>2. Call(c, op) BY <1>3
  <2> HIDE DEF op
  <2> QED BY <1>3, <2>1, <2>2, CallStep
<1>4. ASSUME NEW u \in User, NEW key \in Key, NEW type \in Movement \union {"RESERVATION"},
             NEW amount \in Amount, Call(c, Request(u, type, key, amount, 0))
      PROVE  [Next]_vars /\ TransactionsInv'
  <2>1. type \in Movement \union Holds /\ type # "RESERVATION_RELEASE"
    BY MovementAssumption DEF Holds, Credits, Debits
  <2> QED BY <1>1, <1>3, <1>4, <2>1
<1>5. ASSUME NEW u \in User, NEW key \in Key, NEW id \in DOMAIN book[u].reservations,
             \/ \E amount \in Amount : Call(c, Request(u, "RESERVATION_CAPTURE", key, amount, id))
             \/ Call(c, Request(u, "RESERVATION_RELEASE", key, 0, id))
      PROVE  [Next]_vars /\ TransactionsInv'
  <2>1. /\ "RESERVATION_CAPTURE" \in Holds /\ "RESERVATION_RELEASE" \in Holds
        /\ "RESERVATION_CAPTURE" \notin Movement \union {"RESERVATION"}
        /\ "RESERVATION_RELEASE" \notin Movement \union {"RESERVATION"}
        /\ 0 \in Int
    BY MovementAssumption DEF Holds, Credits, Debits
  <2> QED BY <1>1, <1>2, <1>3, <1>5, <2>1
<1> QED BY <1>4, <1>5, AnswerStep, CommitStep DEF ClientStep

\* All steps: each is a step of the ledger or none, and keeps the invariant.
LEMMA TransactionsStep ==
  ASSUME TransactionsInv, [TransactionsNext]_transactionVars
  PROVE  [Next]_vars /\ TransactionsInv'
<1>1. CASE UNCHANGED transactionVars
  <2>1. UNCHANGED <<book, sweep, rebuild, crashes, tx>> BY <1>1 DEF transactionVars
  <2>2. [Next]_vars BY <2>1 DEF vars
  <2> QED BY <2>1, <2>2, OtherStep
<1>2. ASSUME NEW p \in Auditor, RebuildStep(p), UNCHANGED tx
      PROVE  [Next]_vars /\ TransactionsInv'
  <2>1. [Next]_vars BY <1>2 DEF Next
  <2>2. UNCHANGED sweep
    BY <1>2 DEF RebuildStep, RebuildReadAccount, RebuildSumLedger, RebuildFinish
  <2> QED BY <1>2, <2>1, <2>2, OtherStep
<1>3. ASSUME NEW u \in User, NEW id \in DOMAIN book[u].reservations, TtlElapses(u, id),
             UNCHANGED tx
      PROVE  [Next]_vars /\ TransactionsInv'
  <2>1. [Next]_vars BY <1>3 DEF Next, UserStep
  <2>2. UNCHANGED sweep BY <1>3 DEF TtlElapses, SetBook
  <2> QED BY <1>3, <2>1, <2>2, OtherStep
<1> QED
  BY <1>1, <1>2, <1>3, LookStep, ConflictStep, ClientSteps, SweeperSteps
     DEF TransactionsNext, Worker

\* The initial states.
LEMMA TransactionsInitInv == TransactionsInit => Init /\ TransactionsInv
<1> SUFFICES ASSUME TransactionsInit PROVE Init /\ TransactionsInv
  OBVIOUS
<1>1. Init /\ Inv BY InitInv DEF TransactionsInit
<1>2. tx = [w \in Worker |-> NoTransaction] BY DEF TransactionsInit, Worker
<1>3. tx \in [Worker -> Transactions] BY <1>2, NoTransactionType
<1>4. \A w \in Worker : tx[w].pc = "idle" BY <1>2, NoTransactionType
<1>5. /\ \A c \in Client : Calling(tx[c])
      /\ \A s \in Sweeper : Releasing(tx[s], sweep[s])
      /\ \A w \in Worker : Holding(tx[w], BookOf(w))
  BY <1>4 DEF Calling, Releasing, Holding, Worker
<1>6. OwnKeys
  <2>1. \A u \in User : book[u].entries = << >> BY <1>1 DEF Init, NewBook
  <2> QED BY <2>1 DEF OwnKeys
<1> QED BY <1>1, <1>3, <1>5, <1>6 DEF TransactionsInv

\* The invariant of the transactions holds in every reachable state.
THEOREM TransactionsInvariance == TransactionsSpec => []TransactionsInv
  BY TransactionsInitInv, TransactionsStep, PTL DEF TransactionsSpec

\* Every behaviour of the transactions is one of CreditLedger, in which each operation is one
\* step: what is proved of it holds of transactions that overlap, conflict, are retried,
\* answer from earlier rows or die.
THEOREM TransactionsImplementLedger == TransactionsSpec => ImplementsLedger
  BY TransactionsInitInv, TransactionsStep, TransactionsInvariance, PTL
     DEF TransactionsSpec, ImplementsLedger, Spec

\* The version an operation read stands for everything it read.
THEOREM VersionStandsForBook == TransactionsSpec => []VersionGuards
<1>1. TransactionsInv => VersionGuards
  BY DEF TransactionsInv, Holding, VersionGuards, Stage, Worker
<1> QED BY <1>1, TransactionsInvariance, PTL

\* Who was told that it is done finds it in the books.
THEOREM AnswersAreBooked == TransactionsSpec => []AnsweredIsBooked
<1>1. TransactionsInv => AnsweredIsBooked
  BY DEF TransactionsInv, Holding, AnsweredIsBooked, Stage, Worker
<1> QED BY <1>1, TransactionsInvariance, PTL

\* Neither what a transaction read nor what it answered turns out to be false.
THEOREM TransactionsAreRight == TransactionsSpec => []HeldIsTrue
<1>1. VersionGuards /\ AnsweredIsBooked => HeldIsTrue BY DEF HeldIsTrue
<1> QED BY <1>1, VersionStandsForBook, AnswersAreBooked, PTL
================================================================================
