--------------------------- MODULE CreditBookTheorems ---------------------------
(***************************************************************************)
(* What each transaction of CreditService preserves of a user's book, for  *)
(* every book, key and amount: its type; that the cached balances are the  *)
(* sums of the ledger and that its rows account for every reservation      *)
(* (BookInv); that no transaction takes back what another settled          *)
(* (BookStep, Later); and that a row with a caller's key tells what became *)
(* of the reservation made with it (BookOk).  The modules of what runs     *)
(* over a book cite these.                                                 *)
(***************************************************************************)
EXTENDS CreditBook, SumTheorems, SequenceTheorems

-----------------------------------------------------------------------------
(***************************************************************************)
(* Types.                                                                  *)
(***************************************************************************)
\* The account getOrCreateAccount inserts is a book.
LEMMA NewBookType == NewBook \in Book
  BY DEF NewBook, Book

\* The fields of a book.
LEMMA BookFields ==
  ASSUME NEW b \in Book
  PROVE  /\ b.available \in Nat /\ b.reserved \in Nat
         /\ b.lifetimePurchased \in Nat /\ b.lifetimeConsumed \in Nat /\ b.version \in Nat
         /\ b.entries \in Seq(LedgerEntry) /\ b.reservations \in Seq(Reservation)
  BY DEF Book

\* The fields of a reservation of a book.
LEMMA ReservationFields ==
  ASSUME NEW b \in Book, NEW id \in DOMAIN b.reservations
  PROVE  /\ id \in Nat \ {0} /\ b.reservations[id] \in Reservation
         /\ b.reservations[id].amount \in Nat \ {0}
         /\ b.reservations[id].capturedAmount \in Nat
         /\ b.reservations[id].status \in {"ACTIVE", "CAPTURED", "RELEASED", "EXPIRED"}
<1>1. b.reservations \in Seq(Reservation)
  BY BookFields
<1>2. id \in Nat \ {0} /\ b.reservations[id] \in Reservation
  BY <1>1
<1>3. QED
  BY <1>2 DEF Reservation

\* A ledger entry with fields of the right types is a LedgerEntry.
LEMMA EntryType ==
  ASSUME NEW type \in Credits \union Debits \union Holds, NEW key \in EntryKey,
         NEW id \in Nat, NEW dA \in Int, NEW dR \in Int, NEW a \in Int, NEW r \in Int
  PROVE  Entry(type, key, id, dA, dR, a, r) \in LedgerEntry
  BY DEF Entry, LedgerEntry

\* An account update with natural balances and well-typed rows leaves a book.
LEMMA UpdatedType ==
  ASSUME NEW b \in Book, NEW available \in Nat, NEW reserved \in Nat, NEW purchased \in Nat,
         NEW consumed \in Nat, NEW entries \in Seq(LedgerEntry),
         NEW reservations \in Seq(Reservation)
  PROVE  Updated(b, available, reserved, purchased, consumed, entries, reservations) \in Book
<1>1. /\ b.lifetimePurchased + purchased \in Nat /\ b.lifetimeConsumed + consumed \in Nat
      /\ b.version + 1 \in Nat
  BY BookFields
<1>2. QED
  BY <1>1 DEF Updated, Book

\* Settling a reservation keeps the reservation rows well typed.
LEMMA SettleType ==
  ASSUME NEW b \in Book, NEW id \in DOMAIN b.reservations,
         NEW status \in {"ACTIVE", "CAPTURED", "RELEASED", "EXPIRED"}, NEW captured \in Nat
  PROVE  Settle(b, id, status, captured) \in Seq(Reservation)
<1>1. b.reservations \in Seq(Reservation) /\ b.reservations[id] \in Reservation
  BY BookFields, ReservationFields
<1>2. Settled(b.reservations[id], status, captured) \in Reservation
  BY <1>1 DEF Settled, Reservation
<1>3. QED
  BY <1>1, <1>2 DEF Settle

\* The row mutate writes is a ledger entry.
LEMMA MutateEntryType ==
  ASSUME NEW b \in Book, NEW type \in Credits \union Debits, NEW key \in EntryKey,
         NEW delta \in Int
  PROVE  MutateEntry(b, type, key, delta) \in LedgerEntry
<1>1. /\ b.available + delta \in Int /\ b.reserved \in Int /\ 0 \in Nat /\ 0 \in Int
      /\ type \in Credits \union Debits \union Holds
  BY BookFields
<1>2. QED
  BY <1>1, EntryType DEF MutateEntry

\* The row reserveCredits writes is a ledger entry.
LEMMA ReserveEntryType ==
  ASSUME NEW b \in Book, NEW key \in Key, NEW amount \in Int
  PROVE  ReserveEntry(b, key, amount) \in LedgerEntry
<1>1. /\ Len(b.reservations) + 1 \in Nat /\ -amount \in Int
      /\ b.available - amount \in Int /\ b.reserved + amount \in Int
      /\ key \in EntryKey /\ "RESERVATION" \in Credits \union Debits \union Holds
  BY BookFields DEF EntryKey, Holds
<1>2. QED
  BY <1>1, EntryType DEF ReserveEntry

\* The one or two rows captureReservation writes are ledger entries.
LEMMA CaptureRowsType ==
  ASSUME NEW b \in Book, NEW key \in Key, NEW id \in DOMAIN b.reservations, NEW amount \in Int
  PROVE  /\ CaptureEntry(b, key, id, amount) \in LedgerEntry
         /\ RemainderEntry(b, key, id, amount) \in LedgerEntry
         /\ CaptureRows(b, key, id, amount) \in Seq(LedgerEntry)
<1>1. /\ id \in Nat /\ 0 \in Int /\ -amount \in Int /\ b.available \in Int
      /\ b.reserved - amount \in Int
      /\ Unused(b, id, amount) \in Int /\ -Unused(b, id, amount) \in Int
      /\ b.available + Unused(b, id, amount) \in Int
      /\ b.reserved - b.reservations[id].amount \in Int
  <2>1. /\ id \in Nat /\ b.available \in Int /\ b.reserved \in Int
        /\ b.reservations[id].amount \in Int
    BY BookFields, ReservationFields
  <2>2. QED
    BY <2>1 DEF Unused
<1>2. /\ key \in EntryKey /\ RemainderKey(key) \in EntryKey
      /\ "RESERVATION_CAPTURE" \in Credits \union Debits \union Holds
      /\ "RESERVATION_RELEASE" \in Credits \union Debits \union Holds
  BY DEF EntryKey, RemainderKey, Holds
<1>3. CaptureEntry(b, key, id, amount) \in LedgerEntry
  BY <1>1, <1>2, EntryType DEF CaptureEntry
<1>4. RemainderEntry(b, key, id, amount) \in LedgerEntry
  BY <1>1, <1>2, EntryType DEF RemainderEntry
<1>5. QED
  BY <1>3, <1>4, BookFields DEF CaptureRows

\* The row releaseReservation writes is a ledger entry.
LEMMA ReleaseEntryType ==
  ASSUME NEW b \in Book, NEW key \in EntryKey, NEW id \in DOMAIN b.reservations
  PROVE  ReleaseEntry(b, key, id) \in LedgerEntry
<1> DEFINE held == b.reservations[id].amount
<1>1. /\ id \in Nat /\ held \in Int /\ -held \in Int
      /\ b.available + held \in Int /\ b.reserved - held \in Int
      /\ "RESERVATION_RELEASE" \in Credits \union Debits \union Holds
  BY BookFields, ReservationFields DEF Holds
<1>2. QED
  BY <1>1, EntryType DEF ReleaseEntry

\* mutate leaves a book: its guard keeps the available balance from going negative.
LEMMA MutateType ==
  ASSUME NEW b \in Book, NEW type \in Credits \union Debits, NEW key \in EntryKey,
         NEW delta \in Int, type \in Credits => delta \in Nat,
         MutateOk(b, type, key, delta)
  PROVE  Mutate(b, type, key, delta) \in Book
<1>1. /\ b.available + delta \in Nat
      /\ (IF type = "PURCHASE" THEN delta ELSE 0) \in Nat
      /\ Append(b.entries, MutateEntry(b, type, key, delta)) \in Seq(LedgerEntry)
  BY BookFields, MutateEntryType DEF MutateOk, Credits
<1>2. QED
  BY <1>1, BookFields, UpdatedType DEF Mutate

\* reserveCredits leaves a book: it holds no more than is available.
LEMMA ReserveType ==
  ASSUME NEW b \in Book, NEW key \in Key, NEW amount \in Nat \ {0}, ReserveOk(b, key, amount)
  PROVE  Reserve(b, key, amount) \in Book
<1>1. NewReservation(key, amount) \in Reservation
  BY DEF NewReservation, Reservation
<1>2. /\ b.available - amount \in Nat /\ b.reserved + amount \in Nat
      /\ Append(b.entries, ReserveEntry(b, key, amount)) \in Seq(LedgerEntry)
      /\ Append(b.reservations, NewReservation(key, amount)) \in Seq(Reservation)
  BY <1>1, BookFields, ReserveEntryType DEF ReserveOk
<1>3. QED
  BY <1>2, UpdatedType DEF Reserve

\* captureReservation leaves a book: it takes out of reserved what the hold put there.
LEMMA CaptureType ==
  ASSUME NEW b \in Book, NEW key \in Key, NEW id \in DOMAIN b.reservations,
         NEW amount \in Nat, CaptureFits(b, key, id, amount)
  PROVE  Capture(b, key, id, amount) \in Book
<1>1. /\ b.available + Unused(b, id, amount) \in Nat
      /\ b.reserved - b.reservations[id].amount \in Nat
  <2>1. b.available \in Nat /\ b.reserved \in Nat /\ b.reservations[id].amount \in Nat
    BY BookFields, ReservationFields
  <2>2. amount <= b.reservations[id].amount /\ b.reserved >= b.reservations[id].amount
    BY DEF CaptureFits
  <2>3. QED
    BY <2>1, <2>2 DEF Unused
<1>2. /\ CaptureRows(b, key, id, amount) \in Seq(LedgerEntry)
      /\ Settle(b, id, "CAPTURED", amount) \in Seq(Reservation)
  BY CaptureRowsType, SettleType
<1>3. QED
  BY <1>1, <1>2, UpdatedType DEF Capture

\* releaseReservation leaves a book.
LEMMA ReleaseType ==
  ASSUME NEW b \in Book, NEW key \in EntryKey, NEW id \in DOMAIN b.reservations,
         ReleaseOk(b, key, id)
  PROVE  Release(b, key, id) \in Book
<1>1. /\ b.available + b.reservations[id].amount \in Nat
      /\ b.reserved - b.reservations[id].amount \in Nat
      /\ Append(b.entries, ReleaseEntry(b, key, id)) \in Seq(LedgerEntry)
  BY BookFields, ReservationFields, ReleaseEntryType DEF ReleaseOk
<1>2. Settle(b, id, "RELEASED", b.reservations[id].capturedAmount) \in Seq(Reservation)
  BY ReservationFields, SettleType
<1>3. QED
  BY <1>1, <1>2, UpdatedType DEF Release

\* The sweep's change of status leaves a book.
LEMMA MarkExpiredType ==
  ASSUME NEW b \in Book, NEW id \in DOMAIN b.reservations
  PROVE  MarkExpired(b, id) \in Book
<1>1. Settle(b, id, "EXPIRED", b.reservations[id].capturedAmount) \in Seq(Reservation)
  BY ReservationFields, SettleType
<1>2. QED
  BY <1>1 DEF MarkExpired, Book

\* The passing of an expiry time leaves a book.
LEMMA OverdueType ==
  ASSUME NEW b \in Book, NEW id \in DOMAIN b.reservations
  PROVE  Overdue(b, id) \in Book
<1> DEFINE late == [b.reservations[id] EXCEPT !.expired = TRUE]
           all == [b.reservations EXCEPT ![id] = late]
<1>1. ASSUME NEW r \in Reservation PROVE [r EXCEPT !.expired = TRUE] \in Reservation
  BY DEF Reservation
<1>2. late \in Reservation
  BY <1>1, ReservationFields
<1> HIDE DEF late
<1>3. all \in Seq(Reservation)
  BY <1>2, BookFields
<1>4. Overdue(b, id) = [b EXCEPT !.reservations = all]
  BY DEF Overdue, late
<1> HIDE DEF all
<1>5. QED
  BY <1>3, <1>4 DEF Book

-----------------------------------------------------------------------------
(***************************************************************************)
(* Sums of columns.                                                        *)
(***************************************************************************)
LEMMA ColumnIsSeq ==
  ASSUME NEW n \in Nat, NEW c \in [1..n -> Int]
  PROVE  c \in Seq(Int) /\ Len(c) = n
<1>1. c \in Seq(Int)
  BY SeqDef
<1>2. QED
  BY <1>1

\* One more row adds its term.
LEMMA ColumnAppend ==
  ASSUME NEW n \in Nat, NEW c \in [1..n -> Int], NEW d \in [1..(n + 1) -> Int],
         \A i \in 1..n : d[i] = c[i]
  PROVE  SumOf(d) = SumOf(c) + d[n + 1]
<1>1. Len(c) = n
  BY ColumnIsSeq
<1>2. n + 1 \in Nat
  OBVIOUS
<1>3. Len(d) = n + 1
  BY <1>2, ColumnIsSeq
<1>4. Total(d, n + 1) = Total(c, n) + d[n + 1]
  BY TotalAppend
<1>5. QED
  BY <1>1, <1>3, <1>4 DEF SumOf

\* A row that changes changes the sum by its difference.
LEMMA ColumnUpdate ==
  ASSUME NEW n \in Nat, NEW c \in [1..n -> Int], NEW d \in [1..n -> Int], NEW k \in 1..n,
         \A i \in 1..n : i # k => d[i] = c[i]
  PROVE  SumOf(d) = SumOf(c) + (d[k] - c[k])
<1>1. Len(c) = n /\ Len(d) = n
  BY ColumnIsSeq
<1>2. \A i \in 1..n : c[i] \in Int /\ d[i] \in Int
  OBVIOUS
<1>3. QED
  BY <1>1, <1>2, TotalUpdate DEF SumOf

\* The sum of a column of integers is an integer.
LEMMA ColumnInt ==
  ASSUME NEW n \in Nat, NEW c \in [1..n -> Int]
  PROVE  SumOf(c) \in Int
<1>1. Len(c) = n /\ \A i \in 1..n : c[i] \in Int
  BY ColumnIsSeq
<1>2. QED
  BY <1>1, TotalInt DEF SumOf

\* The sum of a column of zeros is zero.
LEMMA ColumnZero ==
  ASSUME NEW n \in Nat, NEW c \in [1..n -> Int], \A i \in 1..n : c[i] = 0
  PROVE  SumOf(c) = 0
  BY ColumnIsSeq, TotalZero DEF SumOf

\* The fields of the rows of a ledger.
LEMMA RowFields ==
  ASSUME NEW rows \in Seq(LedgerEntry)
  PROVE  /\ Len(rows) \in Nat /\ DOMAIN rows = 1..Len(rows)
         /\ \A i \in 1..Len(rows) :
              /\ rows[i] \in LedgerEntry /\ rows[i].referenceId \in Nat
              /\ rows[i].availableDelta \in Int /\ rows[i].reservedDelta \in Int
              /\ rows[i].availableBalanceAfter \in Int /\ rows[i].reservedBalanceAfter \in Int
<1>1. /\ Len(rows) \in Nat /\ DOMAIN rows = 1..Len(rows)
      /\ \A i \in 1..Len(rows) : rows[i] \in LedgerEntry
  OBVIOUS
<1>2. QED
  BY <1>1 DEF LedgerEntry

\* A ledger with one more row: its length, its old rows and its last one.
LEMMA RowsAppend ==
  ASSUME NEW rows \in Seq(LedgerEntry), NEW e \in LedgerEntry
  PROVE  /\ Append(rows, e) \in Seq(LedgerEntry)
         /\ DOMAIN Append(rows, e) = 1..(Len(rows) + 1)
         /\ Len(Append(rows, e)) = Len(rows) + 1
         /\ \A i \in 1..Len(rows) : Append(rows, e)[i] = rows[i]
         /\ Append(rows, e)[Len(rows) + 1] = e
  OBVIOUS

\* The columns of a ledger hold integers.
LEMMA EntryColumns ==
  ASSUME NEW rows \in Seq(LedgerEntry), NEW id
  PROVE  /\ AvailableDeltas(rows) \in [1..Len(rows) -> Int]
         /\ ReservedDeltas(rows) \in [1..Len(rows) -> Int]
         /\ Outside(rows) \in [1..Len(rows) -> Int]
         /\ ReservedFor(rows, id) \in [1..Len(rows) -> Int]
         /\ PaidFor(rows, id) \in [1..Len(rows) -> Int]
  BY RowFields DEF AvailableDeltas, ReservedDeltas, Outside, ReservedFor, PaidFor

\* A new row adds its availableDelta to the sum of that column.
LEMMA AvailableDeltasAppend ==
  ASSUME NEW rows \in Seq(LedgerEntry), NEW e \in LedgerEntry
  PROVE  SumOf(AvailableDeltas(Append(rows, e))) =
           SumOf(AvailableDeltas(rows)) + e.availableDelta
<1> DEFINE c == AvailableDeltas(rows)
           d == AvailableDeltas(Append(rows, e))
<1>1. c \in [1..Len(rows) -> Int] /\ d \in [1..(Len(rows) + 1) -> Int]
  BY RowsAppend, EntryColumns
<1>2. /\ \A i \in 1..Len(rows) : d[i] = c[i]
      /\ d[Len(rows) + 1] = e.availableDelta
  BY RowsAppend, RowFields DEF AvailableDeltas
<1> HIDE DEF c, d
<1>3. SumOf(d) = SumOf(c) + d[Len(rows) + 1]
  BY <1>1, <1>2, RowFields, ColumnAppend
<1>4. QED
  BY <1>2, <1>3 DEF c, d

\* A new row adds its reservedDelta to the sum of that column.
LEMMA ReservedDeltasAppend ==
  ASSUME NEW rows \in Seq(LedgerEntry), NEW e \in LedgerEntry
  PROVE  SumOf(ReservedDeltas(Append(rows, e))) =
           SumOf(ReservedDeltas(rows)) + e.reservedDelta
<1> DEFINE c == ReservedDeltas(rows)
           d == ReservedDeltas(Append(rows, e))
<1>1. c \in [1..Len(rows) -> Int] /\ d \in [1..(Len(rows) + 1) -> Int]
  BY RowsAppend, EntryColumns
<1>2. /\ \A i \in 1..Len(rows) : d[i] = c[i]
      /\ d[Len(rows) + 1] = e.reservedDelta
  BY RowsAppend, RowFields DEF ReservedDeltas
<1> HIDE DEF c, d
<1>3. SumOf(d) = SumOf(c) + d[Len(rows) + 1]
  BY <1>1, <1>2, RowFields, ColumnAppend
<1>4. QED
  BY <1>2, <1>3 DEF c, d

\* A new row adds to what crossed the border of the account, unless it belongs to a hold.
LEMMA OutsideAppend ==
  ASSUME NEW rows \in Seq(LedgerEntry), NEW e \in LedgerEntry
  PROVE  SumOf(Outside(Append(rows, e))) =
           SumOf(Outside(rows)) + (IF e.type \in Holds THEN 0 ELSE e.availableDelta)
<1> DEFINE c == Outside(rows)
           d == Outside(Append(rows, e))
<1>1. c \in [1..Len(rows) -> Int] /\ d \in [1..(Len(rows) + 1) -> Int]
  BY RowsAppend, EntryColumns
<1>2. /\ \A i \in 1..Len(rows) : d[i] = c[i]
      /\ d[Len(rows) + 1] = (IF e.type \in Holds THEN 0 ELSE e.availableDelta)
  BY RowsAppend, RowFields DEF Outside
<1> HIDE DEF c, d
<1>3. SumOf(d) = SumOf(c) + d[Len(rows) + 1]
  BY <1>1, <1>2, RowFields, ColumnAppend
<1>4. QED
  BY <1>2, <1>3 DEF c, d

\* A new row adds its reservedDelta to the hold it refers to and to no other.
LEMMA ReservedForAppend ==
  ASSUME NEW rows \in Seq(LedgerEntry), NEW e \in LedgerEntry, NEW id
  PROVE  SumOf(ReservedFor(Append(rows, e), id)) =
           SumOf(ReservedFor(rows, id)) + (IF e.referenceId = id THEN e.reservedDelta ELSE 0)
<1> DEFINE c == ReservedFor(rows, id)
           d == ReservedFor(Append(rows, e), id)
<1>1. c \in [1..Len(rows) -> Int] /\ d \in [1..(Len(rows) + 1) -> Int]
  BY RowsAppend, EntryColumns
<1>2. /\ \A i \in 1..Len(rows) : d[i] = c[i]
      /\ d[Len(rows) + 1] = (IF e.referenceId = id THEN e.reservedDelta ELSE 0)
  BY RowsAppend, RowFields DEF ReservedFor
<1> HIDE DEF c, d
<1>3. SumOf(d) = SumOf(c) + d[Len(rows) + 1]
  BY <1>1, <1>2, RowFields, ColumnAppend
<1>4. QED
  BY <1>2, <1>3 DEF c, d

\* A new row adds its availableDelta to the hold it refers to and to no other.
LEMMA PaidForAppend ==
  ASSUME NEW rows \in Seq(LedgerEntry), NEW e \in LedgerEntry, NEW id
  PROVE  SumOf(PaidFor(Append(rows, e), id)) =
           SumOf(PaidFor(rows, id)) + (IF e.referenceId = id THEN e.availableDelta ELSE 0)
<1> DEFINE c == PaidFor(rows, id)
           d == PaidFor(Append(rows, e), id)
<1>1. c \in [1..Len(rows) -> Int] /\ d \in [1..(Len(rows) + 1) -> Int]
  BY RowsAppend, EntryColumns
<1>2. /\ \A i \in 1..Len(rows) : d[i] = c[i]
      /\ d[Len(rows) + 1] = (IF e.referenceId = id THEN e.availableDelta ELSE 0)
  BY RowsAppend, RowFields DEF PaidFor
<1> HIDE DEF c, d
<1>3. SumOf(d) = SumOf(c) + d[Len(rows) + 1]
  BY <1>1, <1>2, RowFields, ColumnAppend
<1>4. QED
  BY <1>2, <1>3 DEF c, d


\* The columns of the reservation rows hold integers.
LEMMA ReservationColumns ==
  ASSUME NEW reservations \in Seq(Reservation)
  PROVE  /\ Len(reservations) \in Nat /\ DOMAIN reservations = 1..Len(reservations)
         /\ \A id \in 1..Len(reservations) :
              reservations[id].amount \in Nat \ {0} /\ reservations[id].capturedAmount \in Nat
         /\ HeldAmounts(reservations) \in [1..Len(reservations) -> Int]
         /\ CapturedAmounts(reservations) \in [1..Len(reservations) -> Int]
<1>1. /\ Len(reservations) \in Nat /\ DOMAIN reservations = 1..Len(reservations)
      /\ \A id \in 1..Len(reservations) : reservations[id] \in Reservation
  OBVIOUS
<1>2. \A id \in 1..Len(reservations) :
        reservations[id].amount \in Nat \ {0} /\ reservations[id].capturedAmount \in Nat
  BY <1>1 DEF Reservation
<1>3. QED
  BY <1>1, <1>2 DEF HeldAmounts, CapturedAmounts, HeldAmount

\* A new reservation adds its amount to what is held, and nothing to what is captured.
LEMMA ReservationsAppend ==
  ASSUME NEW reservations \in Seq(Reservation), NEW key \in Key, NEW amount \in Nat \ {0}
  PROVE  LET more == Append(reservations, NewReservation(key, amount))
         IN /\ SumOf(HeldAmounts(more)) = SumOf(HeldAmounts(reservations)) + amount
            /\ SumOf(CapturedAmounts(more)) = SumOf(CapturedAmounts(reservations))
<1> DEFINE r == NewReservation(key, amount)
           more == Append(reservations, r)
           n == Len(reservations)
           h == HeldAmounts(reservations)
           hh == HeldAmounts(more)
           c == CapturedAmounts(reservations)
           cc == CapturedAmounts(more)
<1>1. r \in Reservation
  BY DEF NewReservation, Reservation
<1>2. /\ more \in Seq(Reservation) /\ n \in Nat /\ Len(more) = n + 1
      /\ DOMAIN more = 1..(n + 1) /\ DOMAIN reservations = 1..n
      /\ \A id \in 1..n : more[id] = reservations[id]
      /\ more[n + 1] = r
  BY <1>1
<1>3. h \in [1..n -> Int] /\ c \in [1..n -> Int]
      /\ hh \in [1..(n + 1) -> Int] /\ cc \in [1..(n + 1) -> Int]
  BY <1>2, ReservationColumns
<1>4. /\ \A id \in 1..n : hh[id] = h[id] /\ cc[id] = c[id]
      /\ hh[n + 1] = amount /\ cc[n + 1] = 0
  BY <1>2 DEF HeldAmounts, CapturedAmounts, HeldAmount, NewReservation
<1> HIDE DEF h, hh, c, cc, n
<1>5. SumOf(hh) = SumOf(h) + hh[n + 1]
  BY <1>2, <1>3, <1>4, ColumnAppend
<1>6. SumOf(cc) = SumOf(c) + cc[n + 1]
  BY <1>2, <1>3, <1>4, ColumnAppend
<1>7. SumOf(c) \in Int
  BY <1>2, <1>3, ColumnInt
<1>8. QED
  BY <1>4, <1>5, <1>6, <1>7 DEF h, hh, c, cc

\* Settling an ACTIVE reservation takes its amount out of what is held.
LEMMA ReservationsSettle ==
  ASSUME NEW b \in Book, NEW id \in DOMAIN b.reservations,
         NEW status \in {"ACTIVE", "CAPTURED", "RELEASED", "EXPIRED"}, NEW captured \in Nat
  PROVE  LET now == Settle(b, id, status, captured)
             before == b.reservations[id]
         IN /\ SumOf(HeldAmounts(now)) =
                 SumOf(HeldAmounts(b.reservations)) + (HeldAmount(now[id]) - HeldAmount(before))
            /\ SumOf(CapturedAmounts(now)) =
                 SumOf(CapturedAmounts(b.reservations)) + (captured - before.capturedAmount)
<1> DEFINE now == Settle(b, id, status, captured)
           n == Len(b.reservations)
           h == HeldAmounts(b.reservations)
           hh == HeldAmounts(now)
           c == CapturedAmounts(b.reservations)
           cc == CapturedAmounts(now)
<1>1. b.reservations \in Seq(Reservation) /\ now \in Seq(Reservation)
  BY BookFields, SettleType
<1>2. /\ n \in Nat /\ id \in 1..n /\ Len(now) = n
      /\ DOMAIN now = 1..n /\ DOMAIN b.reservations = 1..n
      /\ \A k \in 1..n : k # id => now[k] = b.reservations[k]
      /\ now[id] = Settled(b.reservations[id], status, captured)
  BY <1>1 DEF Settle
<1>3. /\ h \in [1..n -> Int] /\ c \in [1..n -> Int]
      /\ hh \in [1..n -> Int] /\ cc \in [1..n -> Int]
  BY <1>1, <1>2, ReservationColumns
<1>4. /\ \A k \in 1..n : k # id => hh[k] = h[k] /\ cc[k] = c[k]
      /\ hh[id] = HeldAmount(now[id]) /\ h[id] = HeldAmount(b.reservations[id])
      /\ cc[id] = captured /\ c[id] = b.reservations[id].capturedAmount
  BY <1>2 DEF HeldAmounts, CapturedAmounts, Settled
<1> HIDE DEF h, hh, c, cc, n
<1>5. SumOf(hh) = SumOf(h) + (hh[id] - h[id])
  BY <1>2, <1>3, <1>4, ColumnUpdate
<1>6. SumOf(cc) = SumOf(c) + (cc[id] - c[id])
  BY <1>2, <1>3, <1>4, ColumnUpdate
<1>7. QED
  BY <1>4, <1>5, <1>6 DEF h, hh, c, cc

-----------------------------------------------------------------------------
(***************************************************************************)
(* Posting a row.                                                          *)
(***************************************************************************)
\* The ledger reconciles with, and leads up to, these balances.
LeadsTo(rows, available, reserved) ==
  /\ available = SumOf(AvailableDeltas(rows))
  /\ reserved = SumOf(ReservedDeltas(rows))
  /\ Running(rows)
  /\ BalancesAfter(rows, Len(rows)) = [available |-> available, reserved |-> reserved]

\* A row whose stored balances are the old ones plus its deltas extends a replayable ledger.
LEMMA PostingLeadsTo ==
  ASSUME NEW rows \in Seq(LedgerEntry), NEW e \in LedgerEntry,
         NEW available \in Int, NEW reserved \in Int, LeadsTo(rows, available, reserved),
         e.availableBalanceAfter = available + e.availableDelta,
         e.reservedBalanceAfter = reserved + e.reservedDelta
  PROVE  LeadsTo(Append(rows, e), e.availableBalanceAfter, e.reservedBalanceAfter)
<1> DEFINE n == Len(rows)
           all == Append(rows, e)
<1>1. /\ n \in Nat /\ DOMAIN rows = 1..n /\ DOMAIN all = 1..(n + 1) /\ Len(all) = n + 1
      /\ \A i \in 1..n : all[i] = rows[i]
      /\ all[n + 1] = e
  BY RowsAppend, RowFields
<1>2. /\ e.availableBalanceAfter = SumOf(AvailableDeltas(all))
      /\ e.reservedBalanceAfter = SumOf(ReservedDeltas(all))
  BY AvailableDeltasAppend, ReservedDeltasAppend DEF LeadsTo
<1>3. \A i \in 0..n : BalancesAfter(all, i) = BalancesAfter(rows, i)
  BY <1>1 DEF BalancesAfter
<1>4. BalancesAfter(all, n + 1) =
        [available |-> e.availableBalanceAfter, reserved |-> e.reservedBalanceAfter]
  BY <1>1 DEF BalancesAfter
<1>5. BalancesAfter(all, n) = [available |-> available, reserved |-> reserved]
  BY <1>1, <1>3 DEF LeadsTo
<1> HIDE DEF all, n
<1>6. Running(all)
  <2> SUFFICES ASSUME NEW i \in 1..(n + 1)
      PROVE /\ BalancesAfter(all, i).available =
                 BalancesAfter(all, i - 1).available + all[i].availableDelta
            /\ BalancesAfter(all, i).reserved =
                 BalancesAfter(all, i - 1).reserved + all[i].reservedDelta
    BY <1>1 DEF Running
  <2>1. CASE i = n + 1
    BY <2>1, <1>1, <1>4, <1>5
  <2>2. CASE i # n + 1
    <3>1. i \in 1..n /\ i \in 0..n /\ i - 1 \in 0..n
      BY <2>2, <1>1
    <3>2. /\ BalancesAfter(rows, i).available =
               BalancesAfter(rows, i - 1).available + rows[i].availableDelta
          /\ BalancesAfter(rows, i).reserved =
               BalancesAfter(rows, i - 1).reserved + rows[i].reservedDelta
      BY <3>1, <1>1 DEF LeadsTo, Running
    <3>3. QED
      BY <3>1, <3>2, <1>1, <1>3
  <2>3. QED
    BY <2>1, <2>2
<1>7. QED
  BY <1>1, <1>2, <1>4, <1>6 DEF LeadsTo, all, n

\* A row with a new (type, key) leaves keys unique.
LEMMA PostingOncePerKey ==
  ASSUME NEW rows \in Seq(LedgerEntry), NEW e \in LedgerEntry, OncePerKey(rows),
         \A i \in 1..Len(rows) : ~(rows[i].type = e.type /\ rows[i].idempotencyKey = e.idempotencyKey)
  PROVE  OncePerKey(Append(rows, e))
<1> DEFINE n == Len(rows)
           all == Append(rows, e)
<1>1. /\ n \in Nat /\ DOMAIN rows = 1..n /\ DOMAIN all = 1..(n + 1)
      /\ \A i \in 1..n : all[i] = rows[i]
      /\ all[n + 1] = e
  BY RowsAppend, RowFields
<1>2. \A i \in 1..n : ~(rows[i].type = e.type /\ rows[i].idempotencyKey = e.idempotencyKey)
  OBVIOUS
<1> HIDE DEF n, all
<1>3. SUFFICES ASSUME NEW i \in 1..(n + 1), NEW j \in 1..(n + 1),
                      all[i].type = all[j].type, all[i].idempotencyKey = all[j].idempotencyKey
               PROVE  i = j
  BY <1>1 DEF OncePerKey, all
<1>4. CASE i \in 1..n /\ j \in 1..n
  BY <1>1, <1>3, <1>4 DEF OncePerKey
<1>5. CASE i \in 1..n /\ j = n + 1
  BY <1>1, <1>2, <1>3, <1>5
<1>6. CASE i = n + 1 /\ j \in 1..n
  BY <1>1, <1>2, <1>3, <1>6
<1>7. QED
  BY <1>1, <1>4, <1>5, <1>6

-----------------------------------------------------------------------------
(***************************************************************************)
(* The invariant of a book.  The last conjunct is what the others need to  *)
(* be inductive: rows refer to reservations that exist, so a new one has   *)
(* no rows yet; the key of a RESERVATION row and the derived key of a      *)
(* capture's remainder are taken exactly when the service's lookups say so;*)
(* and nothing is captured from an ACTIVE reservation.                     *)
(***************************************************************************)
Traced(b, e) ==
  /\ e.referenceId <= Len(b.reservations)
  /\ e.type = "RESERVATION" => HasReservation(b, e.idempotencyKey)
  /\ \A key \in Key :
       e.type = "RESERVATION_RELEASE" /\ e.idempotencyKey = RemainderKey(key)
         => HasEntry(b, "RESERVATION_CAPTURE", key)

Traceable(b) ==
  /\ \A i \in DOMAIN b.entries : Traced(b, b.entries[i])
  /\ \A id \in DOMAIN b.reservations :
       b.reservations[id].status = "ACTIVE" => b.reservations[id].capturedAmount = 0

BookInv(b) ==
  /\ LeadsTo(b.entries, b.available, b.reserved)
  /\ Backed(b)
  /\ Conserved(b)
  /\ \A id \in DOMAIN b.reservations : Accounted(b, id)
  /\ OncePerKey(b.entries)
  /\ Traceable(b)

\* The account getOrCreateAccount inserts satisfies the invariant.
LEMMA NewBookInv == BookInv(NewBook)
<1>1. /\ DOMAIN NewBook.entries = {} /\ DOMAIN NewBook.reservations = {}
      /\ NewBook.available = 0 /\ NewBook.reserved = 0 /\ NewBook.lifetimeConsumed = 0
      /\ Len(NewBook.entries) = 0 /\ Len(NewBook.reservations) = 0
      /\ NewBook.entries = << >> /\ NewBook.reservations = << >>
  BY DEF NewBook
<1>2. \A f \in Seq(Int) : Len(f) = 0 => SumOf(f) = 0
  BY TotalRecursion DEF SumOf
<1>3. << >> \in Seq(LedgerEntry) /\ << >> \in Seq(Reservation) /\ Len(<< >>) = 0 /\ 0 \in Nat
  OBVIOUS
<1>4. \A c \in [1..0 -> Int] : SumOf(c) = 0
  BY <1>2, ColumnIsSeq
<1>5. /\ SumOf(AvailableDeltas(<< >>)) = 0 /\ SumOf(ReservedDeltas(<< >>)) = 0
      /\ SumOf(Outside(<< >>)) = 0
  BY <1>3, <1>4, EntryColumns
<1>6. SumOf(HeldAmounts(<< >>)) = 0 /\ SumOf(CapturedAmounts(<< >>)) = 0
  BY <1>3, <1>4, ReservationColumns
<1>7. LeadsTo(NewBook.entries, NewBook.available, NewBook.reserved)
  BY <1>1, <1>5 DEF LeadsTo, Running, BalancesAfter
<1>8. Backed(NewBook) /\ Conserved(NewBook)
  BY <1>1, <1>5, <1>6 DEF Backed, Conserved
<1>9. QED
  BY <1>1, <1>7, <1>8 DEF BookInv, OncePerKey, Traceable

\* A new row removes no (type, key) pair from the ledger and adds its own.
LEMMA HasEntryAppend ==
  ASSUME NEW b, NEW c, NEW e \in LedgerEntry, b.entries \in Seq(LedgerEntry),
         c.entries = Append(b.entries, e), NEW type, NEW key
  PROVE  /\ HasEntry(b, type, key) => HasEntry(c, type, key)
         /\ e.type = type /\ e.idempotencyKey = key => HasEntry(c, type, key)
<1> DEFINE n == Len(b.entries)
<1>1. /\ n \in Nat /\ DOMAIN b.entries = 1..n /\ DOMAIN c.entries = 1..(n + 1)
      /\ \A i \in 1..n : c.entries[i] = b.entries[i]
      /\ c.entries[n + 1] = e
  BY RowsAppend, RowFields
<1> HIDE DEF n
<1>2. QED
  BY <1>1 DEF HasEntry

\* The rows of a reservation after one more row.
LEMMA AccountedSums ==
  ASSUME NEW rows \in Seq(LedgerEntry), NEW e \in LedgerEntry, NEW id
  PROVE  /\ SumOf(ReservedFor(rows, id)) \in Int /\ SumOf(PaidFor(rows, id)) \in Int
         /\ e.referenceId = id =>
              /\ SumOf(ReservedFor(Append(rows, e), id)) =
                   SumOf(ReservedFor(rows, id)) + e.reservedDelta
              /\ SumOf(PaidFor(Append(rows, e), id)) =
                   SumOf(PaidFor(rows, id)) + e.availableDelta
         /\ e.referenceId # id =>
              /\ SumOf(ReservedFor(Append(rows, e), id)) = SumOf(ReservedFor(rows, id))
              /\ SumOf(PaidFor(Append(rows, e), id)) = SumOf(PaidFor(rows, id))
<1>1. SumOf(ReservedFor(rows, id)) \in Int /\ SumOf(PaidFor(rows, id)) \in Int
  BY RowFields, EntryColumns, ColumnInt
<1>2. QED
  BY <1>1, ReservedForAppend, PaidForAppend

\* Rows stay traceable when reservations are added or settled and a row is added.
LEMMA PostingTraced ==
  ASSUME NEW b, NEW c, NEW e \in LedgerEntry, b.entries \in Seq(LedgerEntry),
         c.entries = Append(b.entries, e),
         Len(b.reservations) \in Nat, Len(c.reservations) \in Nat,
         Len(b.reservations) <= Len(c.reservations),
         \A k : HasReservation(b, k) => HasReservation(c, k),
         \A i \in DOMAIN b.entries : Traced(b, b.entries[i]),
         Traced(c, e)
  PROVE  \A i \in DOMAIN c.entries : Traced(c, c.entries[i])
<1> DEFINE n == Len(b.entries)
<1>1. /\ n \in Nat /\ DOMAIN b.entries = 1..n /\ DOMAIN c.entries = 1..(n + 1)
      /\ \A i \in 1..n : c.entries[i] = b.entries[i] /\ b.entries[i].referenceId \in Nat
      /\ c.entries[n + 1] = e
  BY RowsAppend, RowFields
<1> HIDE DEF n
<1>2. \A k : HasEntry(b, "RESERVATION_CAPTURE", k) => HasEntry(c, "RESERVATION_CAPTURE", k)
  BY HasEntryAppend
<1>3. ASSUME NEW i \in 1..n PROVE Traced(c, c.entries[i])
  <2> DEFINE row == b.entries[i]
  <2>1. Traced(b, row) /\ row.referenceId \in Nat /\ c.entries[i] = row
    BY <1>1
  <2> HIDE DEF row
  <2>2. Traced(c, row)
    BY <1>2, <2>1 DEF Traced
  <2>3. QED
    BY <2>1, <2>2
<1>4. \A i \in 1..(n + 1) : i \in 1..n \/ i = n + 1
  BY <1>1
<1>5. QED
  BY <1>1, <1>3, <1>4

-----------------------------------------------------------------------------
(***************************************************************************)
(* mutate.                                                                 *)
(***************************************************************************)
LEMMA MutateKeeps ==
  ASSUME NEW b \in Book, BookInv(b), NEW type \in Credits \union Debits, NEW key \in Key,
         NEW delta \in Int, MutateOk(b, type, key, delta)
  PROVE  BookInv(Mutate(b, type, key, delta))
<1> DEFINE e == MutateEntry(b, type, key, delta)
           c == Mutate(b, type, key, delta)
<1>1. /\ c.available = b.available + delta /\ c.reserved = b.reserved
      /\ c.lifetimeConsumed = b.lifetimeConsumed
      /\ c.entries = Append(b.entries, e) /\ c.reservations = b.reservations
  BY BookFields DEF Mutate, Updated
<1>2. e \in LedgerEntry
  BY MutateEntryType DEF EntryKey
<1>3. /\ e.type = type /\ e.idempotencyKey = key /\ e.referenceId = 0
      /\ e.availableDelta = delta /\ e.reservedDelta = 0
      /\ e.availableBalanceAfter = b.available + delta /\ e.reservedBalanceAfter = b.reserved
  BY DEF MutateEntry, Entry
<1>4. type \notin Holds /\ b.entries \in Seq(LedgerEntry)
  BY BookFields DEF Credits, Debits, Holds
<1> HIDE DEF e, c
<1>5. LeadsTo(c.entries, c.available, c.reserved)
  <2>1. e.reservedBalanceAfter = b.reserved + e.reservedDelta
    BY <1>3, BookFields
  <2>2. QED
    BY <1>1, <1>2, <1>3, <1>4, <2>1, BookFields, PostingLeadsTo DEF BookInv
<1>6. Backed(c)
  BY <1>1 DEF Backed, BookInv
<1>7. Conserved(c)
  <2>1. SumOf(Outside(c.entries)) = SumOf(Outside(b.entries)) + delta
    BY <1>1, <1>2, <1>3, <1>4, OutsideAppend
  <2>2. QED
    BY <1>1, <2>1, BookFields DEF Conserved, BookInv
<1>8. \A id \in DOMAIN c.reservations : Accounted(c, id)
  <2>1. \A id \in DOMAIN b.reservations : id # 0
    BY ReservationFields
  <2>2. QED
    BY <1>1, <1>2, <1>3, <1>4, <2>1, AccountedSums DEF Accounted, BookInv
<1>9. OncePerKey(c.entries)
  BY <1>1, <1>2, <1>3, <1>4, RowFields, PostingOncePerKey DEF BookInv, MutateOk, HasEntry
<1>10. Traceable(c)
  <2>1. type \notin {"RESERVATION", "RESERVATION_RELEASE"} /\ Len(b.reservations) \in Nat
    BY BookFields DEF Credits, Debits
  <2>2. Traced(c, e)
    BY <1>1, <1>3, <2>1 DEF Traced
  <2>3. \A k : HasReservation(b, k) => HasReservation(c, k)
    BY <1>1 DEF HasReservation
  <2>4. \A i \in DOMAIN c.entries : Traced(c, c.entries[i])
    <3>1. /\ Len(b.reservations) \in Nat /\ Len(c.reservations) \in Nat
          /\ Len(b.reservations) <= Len(c.reservations)
      BY <1>1, <2>1
    <3>2. \A i \in DOMAIN b.entries : Traced(b, b.entries[i])
      BY DEF BookInv, Traceable
    <3>3. c.entries = Append(b.entries, e) /\ e \in LedgerEntry /\ b.entries \in Seq(LedgerEntry)
      BY <1>1, <1>2, <1>4
    <3>4. QED
      BY <2>2, <2>3, <3>1, <3>2, <3>3, PostingTraced
  <2>5. QED
    BY <1>1, <2>4 DEF BookInv, Traceable
<1>11. QED
  BY <1>5, <1>6, <1>7, <1>8, <1>9, <1>10 DEF BookInv, c

(***************************************************************************)
(* reserveCredits.                                                         *)
(***************************************************************************)
LEMMA ReserveKeeps ==
  ASSUME NEW b \in Book, BookInv(b), NEW key \in Key, NEW amount \in Nat \ {0},
         ReserveOk(b, key, amount)
  PROVE  BookInv(Reserve(b, key, amount))
<1> DEFINE e == ReserveEntry(b, key, amount)
           r == NewReservation(key, amount)
           c == Reserve(b, key, amount)
           m == Len(b.reservations)
<1>1. /\ c.available = b.available - amount /\ c.reserved = b.reserved + amount
      /\ c.lifetimeConsumed = b.lifetimeConsumed
      /\ c.entries = Append(b.entries, e) /\ c.reservations = Append(b.reservations, r)
  BY BookFields DEF Reserve, Updated
<1>2. e \in LedgerEntry /\ r \in Reservation
  BY ReserveEntryType DEF NewReservation, Reservation
<1>3. /\ e.type = "RESERVATION" /\ e.idempotencyKey = key /\ e.referenceId = m + 1
      /\ e.availableDelta = -amount /\ e.reservedDelta = amount
      /\ e.availableBalanceAfter = b.available - amount
      /\ e.reservedBalanceAfter = b.reserved + amount
      /\ r.amount = amount /\ r.idempotencyKey = key /\ r.status = "ACTIVE" /\ r.capturedAmount = 0
  BY DEF ReserveEntry, Entry, NewReservation
<1>4. /\ b.entries \in Seq(LedgerEntry) /\ m \in Nat /\ DOMAIN b.reservations = 1..m
      /\ Len(c.reservations) = m + 1 /\ DOMAIN c.reservations = 1..(m + 1)
      /\ \A id \in 1..m : c.reservations[id] = b.reservations[id]
      /\ c.reservations[m + 1] = r
  <2>1. b.entries \in Seq(LedgerEntry) /\ b.reservations \in Seq(Reservation)
    BY BookFields
  <2>2. m \in Nat /\ DOMAIN b.reservations = 1..m
    BY <2>1
  <2>3. /\ Len(c.reservations) = m + 1 /\ DOMAIN c.reservations = 1..(m + 1)
        /\ \A id \in 1..m : c.reservations[id] = b.reservations[id]
        /\ c.reservations[m + 1] = r
    BY <1>1, <1>2, <2>1
  <2>4. QED
    BY <2>1, <2>2, <2>3
<1> HIDE DEF e, c, m, r
<1>5. LeadsTo(c.entries, c.available, c.reserved)
  <2>1. /\ e.availableBalanceAfter = b.available + e.availableDelta
        /\ e.reservedBalanceAfter = b.reserved + e.reservedDelta
    BY <1>3, BookFields
  <2>2. QED
    BY SMTT(30), <1>1, <1>2, <1>3, <1>4, <2>1, BookFields, PostingLeadsTo DEF BookInv
<1>6. /\ SumOf(HeldAmounts(c.reservations)) = SumOf(HeldAmounts(b.reservations)) + amount
      /\ SumOf(CapturedAmounts(c.reservations)) = SumOf(CapturedAmounts(b.reservations))
  BY <1>1, BookFields, ReservationsAppend DEF r
<1>7. Backed(c)
  BY <1>1, <1>6 DEF Backed, BookInv
<1>8. Conserved(c)
  <2>1. SumOf(Outside(c.entries)) = SumOf(Outside(b.entries)) + 0
    BY <1>1, <1>2, <1>3, <1>4, OutsideAppend DEF Holds
  <2>2. QED
    BY <1>1, <1>6, <2>1, BookFields DEF Conserved, BookInv
<1>9. \A id \in DOMAIN c.reservations : Accounted(c, id)
  <2> SUFFICES ASSUME NEW id \in 1..(m + 1) PROVE Accounted(c, id)
    BY <1>4
  <2>1. CASE id \in 1..m
    <3>1. /\ SumOf(ReservedFor(c.entries, id)) = SumOf(ReservedFor(b.entries, id))
          /\ SumOf(PaidFor(c.entries, id)) = SumOf(PaidFor(b.entries, id))
      BY <1>1, <1>2, <1>3, <1>4, <2>1, AccountedSums
    <3>2. Accounted(b, id) /\ c.reservations[id] = b.reservations[id]
      BY <1>4, <2>1 DEF BookInv
    <3>3. QED
      BY <3>1, <3>2 DEF Accounted
  <2>2. CASE id = m + 1
    <3>1. \A i \in 1..Len(b.entries) : b.entries[i].referenceId # id
      BY <1>4, <2>2, RowFields DEF BookInv, Traceable, Traced, m
    <3>2. \A i \in 1..Len(b.entries) :
            ReservedFor(b.entries, id)[i] = 0 /\ PaidFor(b.entries, id)[i] = 0
      BY <1>4, <3>1, RowFields DEF ReservedFor, PaidFor
    <3>3. SumOf(ReservedFor(b.entries, id)) = 0 /\ SumOf(PaidFor(b.entries, id)) = 0
      BY <1>4, <3>2, RowFields, EntryColumns, ColumnZero
    <3>4. /\ SumOf(ReservedFor(c.entries, id)) = amount
          /\ SumOf(PaidFor(c.entries, id)) = -amount
      BY <1>1, <1>2, <1>3, <1>4, <2>2, <3>3, AccountedSums
    <3>5. QED
      BY <1>3, <1>4, <2>2, <3>4 DEF Accounted, HeldAmount
  <2>3. QED
    BY <1>4, <2>1, <2>2
<1>10. OncePerKey(c.entries)
  <2>1. \A i \in 1..Len(b.entries) :
          b.entries[i].type = "RESERVATION" => b.entries[i].idempotencyKey # key
    BY <1>4, RowFields DEF BookInv, Traceable, Traced, ReserveOk, HasReservation
  <2>2. QED
    BY <1>1, <1>2, <1>3, <1>4, <2>1, PostingOncePerKey DEF BookInv
<1>11. Traceable(c)
  <2>1. /\ \A k : HasReservation(b, k) => HasReservation(c, k)
        /\ HasReservation(c, key)
    BY <1>3, <1>4 DEF HasReservation
  <2>2. Traced(c, e)
    BY <1>3, <1>4, <2>1 DEF Traced
  <2>3. \A i \in DOMAIN c.entries : Traced(c, c.entries[i])
    <3>1. /\ Len(b.reservations) \in Nat /\ Len(c.reservations) \in Nat
          /\ Len(b.reservations) <= Len(c.reservations)
      BY <1>4 DEF m
    <3>2. \A i \in DOMAIN b.entries : Traced(b, b.entries[i])
      BY DEF BookInv, Traceable
    <3>3. c.entries = Append(b.entries, e) /\ e \in LedgerEntry /\ b.entries \in Seq(LedgerEntry)
      BY <1>1, <1>2, <1>4
    <3>4. QED
      BY <2>1, <2>2, <3>1, <3>2, <3>3, PostingTraced
  <2>4. \A id \in 1..(m + 1) :
          c.reservations[id].status = "ACTIVE" => c.reservations[id].capturedAmount = 0
    <3> TAKE id \in 1..(m + 1)
    <3>1. CASE id \in 1..m
      <4>1. b.reservations[id].status = "ACTIVE" => b.reservations[id].capturedAmount = 0
        BY <1>4, <3>1 DEF Traceable, BookInv
      <4>2. c.reservations[id] = b.reservations[id]
        BY <1>4, <3>1
      <4>3. QED
        BY <4>1, <4>2
    <3>2. CASE id = m + 1
      BY <1>3, <1>4, <3>2
    <3>3. QED
      BY <1>4, <3>1, <3>2
  <2>5. QED
    BY <1>4, <2>3, <2>4 DEF Traceable
<1>12. QED
  BY <1>5, <1>7, <1>8, <1>9, <1>10, <1>11 DEF BookInv, c

(***************************************************************************)
(* releaseReservation, called with a key of its own or with the sweep's.   *)
(***************************************************************************)
LEMMA ReleaseKeeps ==
  ASSUME NEW b \in Book, BookInv(b), NEW key \in Key \union [expire : Nat],
         NEW id \in DOMAIN b.reservations, ReleaseOk(b, key, id)
  PROVE  BookInv(Release(b, key, id))
<1> DEFINE e == ReleaseEntry(b, key, id)
           held == b.reservations[id].amount
           captured == b.reservations[id].capturedAmount
           now == Settle(b, id, "RELEASED", captured)
           c == Release(b, key, id)
           m == Len(b.reservations)
<1>1. /\ c.available = b.available + held /\ c.reserved = b.reserved - held
      /\ c.lifetimeConsumed = b.lifetimeConsumed
      /\ c.entries = Append(b.entries, e) /\ c.reservations = now
  BY BookFields DEF Release, Updated
<1>2. /\ e \in LedgerEntry /\ now \in Seq(Reservation)
      /\ held \in Nat \ {0} /\ captured \in Nat /\ id \in 1..m
  <2>1. key \in EntryKey /\ "RELEASED" \in {"ACTIVE", "CAPTURED", "RELEASED", "EXPIRED"}
    BY DEF EntryKey
  <2>2. captured \in Nat /\ held \in Nat \ {0} /\ id \in 1..m
    BY BookFields, ReservationFields
  <2>3. QED
    BY <2>1, <2>2, ReleaseEntryType, SettleType
<1>3. /\ e.type = "RESERVATION_RELEASE" /\ e.idempotencyKey = key /\ e.referenceId = id
      /\ e.availableDelta = held /\ e.reservedDelta = -held
      /\ e.availableBalanceAfter = b.available + held
      /\ e.reservedBalanceAfter = b.reserved - held
  BY DEF ReleaseEntry, Entry
<1>4. /\ b.entries \in Seq(LedgerEntry) /\ m \in Nat /\ DOMAIN b.reservations = 1..m
      /\ Len(now) = m /\ DOMAIN now = 1..m
      /\ \A k \in 1..m : k # id => now[k] = b.reservations[k]
      /\ now[id] = Settled(b.reservations[id], "RELEASED", captured)
  BY <1>2, BookFields DEF Settle
<1>5. /\ now[id].status = "RELEASED" /\ now[id].capturedAmount = captured
      /\ b.reservations[id].status = "ACTIVE"
      /\ \A k \in 1..m : now[k].idempotencyKey = b.reservations[k].idempotencyKey
  BY <1>4 DEF Settled, ReleaseOk, IsActive
<1>6. /\ SumOf(HeldAmounts(now)) = SumOf(HeldAmounts(b.reservations)) + (0 - held)
      /\ SumOf(CapturedAmounts(now)) =
           SumOf(CapturedAmounts(b.reservations)) + (captured - captured)
  <2>1. HeldAmount(now[id]) = 0 /\ HeldAmount(b.reservations[id]) = held
    BY <1>5 DEF HeldAmount
  <2>2. QED
    <3>1. id \in DOMAIN b.reservations
          /\ "RELEASED" \in {"ACTIVE", "CAPTURED", "RELEASED", "EXPIRED"} /\ captured \in Nat
      BY <1>2
    <3>2. QED
      BY <2>1, <3>1, ReservationsSettle
<1>7. SumOf(CapturedAmounts(b.reservations)) \in Int
  BY BookFields, ReservationColumns, ColumnInt
<1> HIDE DEF e, c, m, now, held, captured
<1>8. LeadsTo(c.entries, c.available, c.reserved)
  <2>1. /\ e.availableBalanceAfter = b.available + e.availableDelta
        /\ e.reservedBalanceAfter = b.reserved + e.reservedDelta
    BY <1>2, <1>3, BookFields
  <2>2. QED
    <3>1. LeadsTo(b.entries, b.available, b.reserved) /\ b.available \in Int /\ b.reserved \in Int
      BY BookFields DEF BookInv
    <3>2. LeadsTo(Append(b.entries, e), e.availableBalanceAfter, e.reservedBalanceAfter)
      BY <1>2, <1>4, <2>1, <3>1, PostingLeadsTo
    <3>3. QED
      BY <1>1, <1>3, <3>2
<1>9. Backed(c)
  <2>1. b.reserved = SumOf(HeldAmounts(b.reservations)) /\ b.reserved \in Nat
    BY BookFields DEF Backed, BookInv
  <2>2. QED
    BY <1>1, <1>2, <1>6, <2>1 DEF Backed
<1>10. Conserved(c)
  <2>1. SumOf(Outside(c.entries)) = SumOf(Outside(b.entries)) + 0
    BY <1>1, <1>2, <1>3, <1>4, OutsideAppend DEF Holds
  <2>2. QED
    BY <1>1, <1>2, <1>6, <1>7, <2>1, BookFields DEF Conserved, BookInv
<1>11. \A k \in DOMAIN c.reservations : Accounted(c, k)
  <2> SUFFICES ASSUME NEW k \in 1..m PROVE Accounted(c, k)
    BY <1>1, <1>4
  <2>1. Accounted(b, k)
    BY <1>4 DEF BookInv
  <2>2. CASE k # id
    <3>1. /\ SumOf(ReservedFor(c.entries, k)) = SumOf(ReservedFor(b.entries, k))
          /\ SumOf(PaidFor(c.entries, k)) = SumOf(PaidFor(b.entries, k))
      BY <1>1, <1>2, <1>3, <1>4, <2>2, AccountedSums
    <3>2. QED
      BY <1>1, <1>4, <2>1, <2>2, <3>1 DEF Accounted
  <2>3. CASE k = id
    <3>1. /\ SumOf(ReservedFor(b.entries, id)) = held
          /\ SumOf(PaidFor(b.entries, id)) = -(held + captured)
      BY <1>5, <2>1, <2>3 DEF Accounted, HeldAmount, held, captured
    <3>2. /\ SumOf(ReservedFor(c.entries, id)) = 0
          /\ SumOf(PaidFor(c.entries, id)) = -(0 + captured)
      BY <1>1, <1>2, <1>3, <1>4, <3>1, AccountedSums
    <3>3. QED
      BY <1>1, <1>5, <2>3, <3>2 DEF Accounted, HeldAmount
  <2>4. QED
    BY <2>2, <2>3
<1>12. OncePerKey(c.entries)
  <2>1. \A i \in 1..Len(b.entries) :
          ~(b.entries[i].type = e.type /\ b.entries[i].idempotencyKey = e.idempotencyKey)
    BY <1>3, <1>4, RowFields DEF ReleaseOk, HasEntry
  <2>2. QED
    BY <1>1, <1>2, <1>4, <2>1, PostingOncePerKey DEF BookInv
<1>13. Traceable(c)
  <2>1. \A k : HasReservation(b, k) => HasReservation(c, k)
    BY <1>1, <1>4, <1>5 DEF HasReservation
  <2>2. \A k \in Key : key # RemainderKey(k)
    <3>1. \A k \in Key : RemainderKey(k) \in [remainder : Key]
      BY DEF RemainderKey
    <3>2. \A k \in Key, x \in [expire : Nat] : x # RemainderKey(k)
      <4> SUFFICES ASSUME NEW k \in Key, NEW x \in [expire : Nat], x = RemainderKey(k)
                   PROVE  FALSE
        OBVIOUS
      <4>1. DOMAIN x = {"expire"} /\ DOMAIN RemainderKey(k) = {"remainder"}
        BY DEF RemainderKey
      <4>2. QED
        BY <4>1
    <3>3. QED
      BY <3>1, <3>2, KeyAssumption
  <2>3. Traced(c, e)
    BY <1>1, <1>2, <1>3, <1>4, <2>2 DEF Traced
  <2>4. \A i \in DOMAIN c.entries : Traced(c, c.entries[i])
    <3>1. /\ Len(b.reservations) \in Nat /\ Len(c.reservations) \in Nat
          /\ Len(b.reservations) <= Len(c.reservations)
      BY <1>1, <1>4 DEF m
    <3>2. \A i \in DOMAIN b.entries : Traced(b, b.entries[i])
      BY DEF BookInv, Traceable
    <3>3. c.entries = Append(b.entries, e) /\ e \in LedgerEntry /\ b.entries \in Seq(LedgerEntry)
      BY <1>1, <1>2, <1>4
    <3>4. QED
      BY <2>1, <2>3, <3>1, <3>2, <3>3, PostingTraced
  <2>5. ASSUME NEW k \in 1..m, now[k].status = "ACTIVE" PROVE now[k].capturedAmount = 0
    <3>1. k # id
      BY <1>5, <2>5
    <3>2. now[k] = b.reservations[k]
      BY <1>4, <3>1
    <3>3. QED
      BY <1>4, <2>5, <3>2 DEF Traceable, BookInv
  <2>6. QED
    BY <1>1, <1>4, <2>4, <2>5 DEF Traceable
<1>14. QED
  BY <1>8, <1>9, <1>10, <1>11, <1>12, <1>13 DEF BookInv, c

(***************************************************************************)
(* captureReservation.                                                     *)
(***************************************************************************)
LEMMA CaptureKeeps ==
  ASSUME NEW b \in Book, BookInv(b), NEW key \in Key, NEW id \in DOMAIN b.reservations,
         NEW amount \in Nat, CaptureFits(b, key, id, amount)
  PROVE  BookInv(Capture(b, key, id, amount))
<1> DEFINE e == CaptureEntry(b, key, id, amount)
           f == RemainderEntry(b, key, id, amount)
           rows == Append(b.entries, e)
           held == b.reservations[id].amount
           rest == Unused(b, id, amount)
           now == Settle(b, id, "CAPTURED", amount)
           c == Capture(b, key, id, amount)
           m == Len(b.reservations)
<1>1. /\ c.available = b.available + rest /\ c.reserved = b.reserved - held
      /\ c.lifetimeConsumed = b.lifetimeConsumed + amount
      /\ c.entries = (IF rest > 0 THEN Append(rows, f) ELSE rows)
      /\ c.reservations = now
  BY DEF Capture, Updated, CaptureRows
<1>2. /\ e \in LedgerEntry /\ f \in LedgerEntry /\ now \in Seq(Reservation)
      /\ b.entries \in Seq(LedgerEntry) /\ rows \in Seq(LedgerEntry)
      /\ held \in Nat \ {0} /\ id \in 1..m /\ rest = held - amount /\ rest \in Nat
  <2>1. "CAPTURED" \in {"ACTIVE", "CAPTURED", "RELEASED", "EXPIRED"}
    OBVIOUS
  <2>2. held \in Nat \ {0} /\ id \in 1..m /\ b.entries \in Seq(LedgerEntry)
    BY BookFields, ReservationFields
  <2>3. rest = held - amount /\ rest \in Nat
    BY <2>2 DEF Unused, CaptureFits
  <2>4. e \in LedgerEntry /\ f \in LedgerEntry /\ now \in Seq(Reservation)
    BY <2>1, CaptureRowsType, SettleType
  <2>5. QED
    BY <2>2, <2>3, <2>4, RowsAppend
<1>3. /\ e.type = "RESERVATION_CAPTURE" /\ e.idempotencyKey = key /\ e.referenceId = id
      /\ e.availableDelta = 0 /\ e.reservedDelta = -amount
      /\ e.availableBalanceAfter = b.available
      /\ e.reservedBalanceAfter = b.reserved - amount
  BY DEF CaptureEntry, Entry
<1>4. /\ f.type = "RESERVATION_RELEASE" /\ f.idempotencyKey = RemainderKey(key)
      /\ f.referenceId = id /\ f.availableDelta = rest /\ f.reservedDelta = -rest
      /\ f.availableBalanceAfter = b.available + rest
      /\ f.reservedBalanceAfter = b.reserved - held
  BY DEF RemainderEntry, Entry
<1>5. /\ m \in Nat /\ DOMAIN b.reservations = 1..m
      /\ Len(now) = m /\ DOMAIN now = 1..m
      /\ \A k \in 1..m : k # id => now[k] = b.reservations[k]
      /\ now[id] = Settled(b.reservations[id], "CAPTURED", amount)
  BY <1>2, BookFields DEF Settle
<1>6. /\ now[id].status = "CAPTURED" /\ now[id].capturedAmount = amount
      /\ b.reservations[id].status = "ACTIVE" /\ b.reservations[id].capturedAmount = 0
      /\ \A k \in 1..m : now[k].idempotencyKey = b.reservations[k].idempotencyKey
  BY <1>5 DEF Settled, CaptureFits, IsActive, BookInv, Traceable
<1>7. /\ SumOf(HeldAmounts(now)) = SumOf(HeldAmounts(b.reservations)) + (0 - held)
      /\ SumOf(CapturedAmounts(now)) = SumOf(CapturedAmounts(b.reservations)) + (amount - 0)
  <2>1. HeldAmount(now[id]) = 0 /\ HeldAmount(b.reservations[id]) = held
    BY <1>6 DEF HeldAmount
  <2>2. QED
    BY <1>2, <1>6, <2>1, ReservationsSettle
<1>8. SumOf(CapturedAmounts(b.reservations)) \in Int
  BY BookFields, ReservationColumns, ColumnInt
<1> HIDE DEF e, f, rows, c, m, now, held, rest
<1>9. LeadsTo(c.entries, c.available, c.reserved)
  <2>1. LeadsTo(rows, b.available, b.reserved - amount)
    <3>1. /\ e.availableBalanceAfter = b.available + e.availableDelta
          /\ e.reservedBalanceAfter = b.reserved + e.reservedDelta
      <4>1. b.available \in Nat /\ b.reserved \in Nat
        BY BookFields
      <4>2. QED
        BY <1>3, <4>1
    <3>2. QED
      <4>1. LeadsTo(b.entries, b.available, b.reserved) /\ b.available \in Int /\ b.reserved \in Int
        BY BookFields DEF BookInv
      <4>2. LeadsTo(rows, e.availableBalanceAfter, e.reservedBalanceAfter)
        BY <1>2, <3>1, <4>1, PostingLeadsTo DEF rows
      <4>3. QED
        BY <1>3, <4>2
  <2>2. CASE rest > 0
    <3>1. /\ f.availableBalanceAfter = b.available + f.availableDelta
          /\ f.reservedBalanceAfter = (b.reserved - amount) + f.reservedDelta
          /\ b.available \in Int /\ b.reserved - amount \in Int
      <4>1. b.available \in Nat /\ b.reserved \in Nat
        BY BookFields
      <4>2. rest = held - amount /\ held \in Nat /\ rest \in Nat
        BY <1>2
      <4>3. QED
        BY <1>4, <4>1, <4>2
    <3>2. LeadsTo(Append(rows, f), f.availableBalanceAfter, f.reservedBalanceAfter)
      BY <1>2, <2>1, <3>1, PostingLeadsTo
    <3>3. QED
      BY <1>1, <1>4, <2>2, <3>2
  <2>3. CASE ~(rest > 0)
    <3>1. c.entries = rows /\ c.available = b.available /\ c.reserved = b.reserved - amount
      BY <1>1, <1>2, <2>3, BookFields
    <3>2. QED
      BY <2>1, <3>1
  <2>4. QED
    BY <2>2, <2>3
<1>10. Backed(c)
  <2>1. b.reserved = SumOf(HeldAmounts(b.reservations)) /\ b.reserved \in Nat
    BY BookFields DEF Backed, BookInv
  <2>2. QED
    BY <1>1, <1>2, <1>7, <2>1 DEF Backed
<1>11. Conserved(c)
  <2>1. SumOf(Outside(b.entries)) \in Int
    BY <1>2, RowFields, EntryColumns, ColumnInt
  <2>2. SumOf(Outside(rows)) = SumOf(Outside(b.entries))
    BY <1>2, <1>3, <2>1, OutsideAppend DEF Holds, rows
  <2>3. SumOf(Outside(Append(rows, f))) = SumOf(Outside(rows))
    BY <1>2, <1>4, <2>1, <2>2, OutsideAppend DEF Holds
  <2>4. SumOf(Outside(c.entries)) = SumOf(Outside(b.entries))
    BY <1>1, <2>2, <2>3
  <2>5. QED
    <3>1. /\ b.available + b.reserved + b.lifetimeConsumed = SumOf(Outside(b.entries))
          /\ b.lifetimeConsumed = SumOf(CapturedAmounts(b.reservations))
      BY DEF Conserved, BookInv
    <3>2. b.available \in Nat /\ b.reserved \in Nat /\ b.lifetimeConsumed \in Nat
      BY BookFields
    <3>3. c.available + c.reserved + c.lifetimeConsumed = SumOf(Outside(c.entries))
      <4>1. /\ c.available = b.available + rest /\ c.reserved = b.reserved - held
            /\ c.lifetimeConsumed = b.lifetimeConsumed + amount
        BY <1>1
      <4>2. held \in Nat /\ rest \in Nat /\ rest = held - amount
        BY <1>2
      <4>3. QED
        BY <2>4, <3>1, <3>2, <4>1, <4>2
    <3>4. c.lifetimeConsumed = SumOf(CapturedAmounts(c.reservations))
      BY <1>1, <1>2, <1>7, <1>8, <3>1
    <3>5. QED
      BY <3>3, <3>4 DEF Conserved
<1>12. \A k \in DOMAIN c.reservations : Accounted(c, k)
  <2> SUFFICES ASSUME NEW k \in 1..m PROVE Accounted(c, k)
    BY <1>1, <1>5
  <2>1. Accounted(b, k)
    BY <1>5 DEF BookInv
  <2>2. CASE k # id
    <3>1. /\ SumOf(ReservedFor(rows, k)) = SumOf(ReservedFor(b.entries, k))
          /\ SumOf(PaidFor(rows, k)) = SumOf(PaidFor(b.entries, k))
      BY <1>2, <1>3, <2>2, AccountedSums DEF rows
    <3>2. /\ SumOf(ReservedFor(Append(rows, f), k)) = SumOf(ReservedFor(rows, k))
          /\ SumOf(PaidFor(Append(rows, f), k)) = SumOf(PaidFor(rows, k))
      BY <1>2, <1>4, <2>2, AccountedSums
    <3>3. QED
      BY <1>1, <1>5, <2>1, <2>2, <3>1, <3>2 DEF Accounted
  <2>3. CASE k = id
    <3>1. /\ SumOf(ReservedFor(b.entries, id)) = held
          /\ SumOf(PaidFor(b.entries, id)) = -held
      BY <1>2, <1>6, <2>1, <2>3 DEF Accounted, HeldAmount, held
    <3>2. /\ SumOf(ReservedFor(rows, id)) = held - amount
          /\ SumOf(PaidFor(rows, id)) = -held
      <4>1. /\ SumOf(ReservedFor(rows, id)) = SumOf(ReservedFor(b.entries, id)) + e.reservedDelta
            /\ SumOf(PaidFor(rows, id)) = SumOf(PaidFor(b.entries, id)) + e.availableDelta
        BY <1>2, <1>3, AccountedSums DEF rows
      <4>2. e.reservedDelta = -amount /\ e.availableDelta = 0 /\ held \in Nat
        BY <1>2, <1>3
      <4>3. QED
        BY <3>1, <4>1, <4>2
    <3>3. /\ SumOf(ReservedFor(Append(rows, f), id)) = 0
          /\ SumOf(PaidFor(Append(rows, f), id)) = -amount
      <4>1. /\ SumOf(ReservedFor(Append(rows, f), id)) = SumOf(ReservedFor(rows, id)) + f.reservedDelta
            /\ SumOf(PaidFor(Append(rows, f), id)) = SumOf(PaidFor(rows, id)) + f.availableDelta
        BY <1>2, <1>4, AccountedSums
      <4>2. /\ f.reservedDelta = -rest /\ f.availableDelta = rest
            /\ rest = held - amount /\ held \in Nat /\ rest \in Nat
        BY <1>2, <1>4
      <4>3. QED
        BY <3>2, <4>1, <4>2
    <3>4. /\ SumOf(ReservedFor(c.entries, id)) = 0
          /\ SumOf(PaidFor(c.entries, id)) = -amount
      BY <1>1, <1>2, <3>2, <3>3
    <3>5. QED
      BY <1>1, <1>6, <2>3, <3>4 DEF Accounted, HeldAmount
  <2>4. QED
    BY <2>2, <2>3
<1>13. OncePerKey(c.entries)
  <2>1. \A i \in 1..Len(b.entries) :
          ~(b.entries[i].type = e.type /\ b.entries[i].idempotencyKey = e.idempotencyKey)
    BY <1>2, <1>3, RowFields DEF CaptureFits, HasEntry
  <2>2. OncePerKey(rows)
    BY <1>2, <2>1, PostingOncePerKey DEF BookInv, rows
  <2>3. \A i \in 1..Len(b.entries) :
          ~(b.entries[i].type = f.type /\ b.entries[i].idempotencyKey = f.idempotencyKey)
    BY <1>2, <1>4, RowFields DEF CaptureFits, BookInv, Traceable, Traced
  <2>4. \A i \in 1..Len(rows) :
          ~(rows[i].type = f.type /\ rows[i].idempotencyKey = f.idempotencyKey)
    BY <1>2, <1>3, <1>4, <2>3, RowsAppend, RowFields DEF rows
  <2>5. OncePerKey(Append(rows, f))
    BY <1>2, <2>2, <2>4, PostingOncePerKey
  <2>6. QED
    BY <1>1, <2>2, <2>5
<1>14. Traceable(c)
  <2> DEFINE mid == [entries |-> rows, reservations |-> now]
             last == [entries |-> Append(rows, f), reservations |-> now]
  <2>1. /\ \A k : HasReservation(b, k) => HasReservation(mid, k)
        /\ \A k : HasReservation(mid, k) => HasReservation(last, k)
    BY <1>5, <1>6 DEF HasReservation
  <2>2. /\ mid.entries = Append(b.entries, e) /\ last.entries = Append(mid.entries, f)
        /\ mid.entries \in Seq(LedgerEntry)
        /\ Len(b.reservations) = m /\ Len(mid.reservations) = m /\ Len(last.reservations) = m
    BY <1>2, <1>5 DEF rows, m
  <2>3. /\ \A k : HasReservation(mid, k) <=> HasReservation(c, k)
        /\ Len(c.reservations) = m
        /\ c.entries = mid.entries \/ c.entries = last.entries
    BY <1>1, <1>5 DEF HasReservation
  <2> HIDE DEF mid, last
  <2>4. HasEntry(mid, "RESERVATION_CAPTURE", key) /\ HasEntry(last, "RESERVATION_CAPTURE", key)
    <3>1. HasEntry(mid, "RESERVATION_CAPTURE", key)
      BY <1>2, <1>3, <2>2, HasEntryAppend
    <3>2. QED
      BY <1>2, <2>2, <3>1, HasEntryAppend
  <2>5. Traced(mid, e)
    BY <1>2, <1>3, <1>5, <2>2 DEF Traced
  <2>6. Traced(last, f)
    <3>1. \A k \in Key : RemainderKey(k) = RemainderKey(key) => k = key
      BY DEF RemainderKey
    <3>2. QED
      BY <1>2, <1>4, <1>5, <2>2, <2>4, <3>1 DEF Traced
  <2>7. \A i \in DOMAIN b.entries : Traced(b, b.entries[i])
    BY DEF BookInv, Traceable
  <2>8. \A i \in DOMAIN mid.entries : Traced(mid, mid.entries[i])
    <3>1. /\ Len(b.reservations) \in Nat /\ Len(mid.reservations) \in Nat
          /\ Len(b.reservations) <= Len(mid.reservations)
      BY <1>5, <2>2
    <3>2. mid.entries = Append(b.entries, e) /\ e \in LedgerEntry /\ b.entries \in Seq(LedgerEntry)
      BY <1>2, <2>2
    <3>3. QED
      BY <2>1, <2>5, <2>7, <3>1, <3>2, PostingTraced
  <2>9. \A i \in DOMAIN last.entries : Traced(last, last.entries[i])
    <3>1. /\ Len(mid.reservations) \in Nat /\ Len(last.reservations) \in Nat
          /\ Len(mid.reservations) <= Len(last.reservations)
      BY <1>5, <2>2
    <3>2. last.entries = Append(mid.entries, f) /\ f \in LedgerEntry /\ mid.entries \in Seq(LedgerEntry)
      BY <1>2, <2>2
    <3>3. QED
      BY <2>1, <2>6, <2>8, <3>1, <3>2, PostingTraced
  <2>10. \A i \in DOMAIN c.entries : Traced(c, c.entries[i])
    <3>1. CASE c.entries = mid.entries
      BY <2>2, <2>3, <2>8, <3>1 DEF Traced, HasEntry
    <3>2. CASE c.entries = last.entries
      <4>1. \A k : HasReservation(last, k) <=> HasReservation(c, k)
        BY <1>1 DEF HasReservation, last
      <4>2. QED
        BY <2>2, <2>3, <2>9, <3>2, <4>1 DEF Traced, HasEntry
    <3>3. QED
      BY <2>3, <3>1, <3>2
  <2>11. ASSUME NEW k \in 1..m, now[k].status = "ACTIVE" PROVE now[k].capturedAmount = 0
    <3>1. k # id
      BY <1>6, <2>11
    <3>2. now[k] = b.reservations[k]
      BY <1>5, <3>1
    <3>3. QED
      BY <1>5, <2>11, <3>2 DEF Traceable, BookInv
  <2>12. QED
    BY <1>1, <1>5, <2>10, <2>11 DEF Traceable
<1>15. QED
  BY <1>9, <1>10, <1>11, <1>12, <1>13, <1>14 DEF BookInv, c

-----------------------------------------------------------------------------
(***************************************************************************)
(* The steps that move no credits: the TTL and the sweep's mark.           *)
(***************************************************************************)
LEMMA RelabelKeeps ==
  ASSUME NEW b \in Book, BookInv(b), NEW c \in Book,
         c.available = b.available, c.reserved = b.reserved,
         c.lifetimeConsumed = b.lifetimeConsumed, c.entries = b.entries,
         DOMAIN c.reservations = DOMAIN b.reservations,
         \A id \in DOMAIN b.reservations :
           /\ HeldAmount(c.reservations[id]) = HeldAmount(b.reservations[id])
           /\ c.reservations[id].capturedAmount = b.reservations[id].capturedAmount
           /\ c.reservations[id].idempotencyKey = b.reservations[id].idempotencyKey
           /\ c.reservations[id].status = "ACTIVE" => b.reservations[id].status = "ACTIVE"
  PROVE  BookInv(c)
<1>1. /\ HeldAmounts(c.reservations) = HeldAmounts(b.reservations)
      /\ CapturedAmounts(c.reservations) = CapturedAmounts(b.reservations)
  BY DEF HeldAmounts, CapturedAmounts
<1>2. Len(c.reservations) = Len(b.reservations)
  BY BookFields
<1>3. LeadsTo(c.entries, c.available, c.reserved) /\ OncePerKey(c.entries)
  BY DEF BookInv
<1>4. Backed(c)
  BY <1>1 DEF BookInv, Backed
<1>5. Conserved(c)
  BY <1>1 DEF BookInv, Conserved
<1>6. \A id \in DOMAIN c.reservations : Accounted(c, id)
  BY DEF BookInv, Accounted
<1>7. \A i \in DOMAIN c.entries : Traced(c, c.entries[i])
  BY <1>2 DEF BookInv, Traceable, Traced, HasReservation, HasEntry
<1>8. Traceable(c)
  BY <1>7 DEF BookInv, Traceable
<1>9. QED
  BY <1>3, <1>4, <1>5, <1>6, <1>8 DEF BookInv

\* The sweep's change from RELEASED to EXPIRED keeps the invariant of a book.
LEMMA MarkExpiredKeeps ==
  ASSUME NEW b \in Book, BookInv(b), NEW id \in DOMAIN b.reservations
  PROVE  BookInv(MarkExpired(b, id))
<1>1. CASE b.reservations[id].status # "RELEASED"
  BY <1>1 DEF MarkExpired
<1>2. CASE b.reservations[id].status = "RELEASED"
  <2> DEFINE c == MarkExpired(b, id)
             captured == b.reservations[id].capturedAmount
             now == Settle(b, id, "EXPIRED", captured)
  <2>1. c = [b EXCEPT !.reservations = now]
    BY <1>2 DEF MarkExpired
  <2>2. c \in Book
    BY MarkExpiredType
  <2>3. /\ c.available = b.available /\ c.reserved = b.reserved
        /\ c.lifetimeConsumed = b.lifetimeConsumed /\ c.entries = b.entries
        /\ c.reservations = now
    BY <2>1 DEF Book
  <2>4. /\ DOMAIN now = DOMAIN b.reservations
        /\ now[id] = Settled(b.reservations[id], "EXPIRED", captured)
        /\ \A k \in DOMAIN b.reservations : k # id => now[k] = b.reservations[k]
    BY DEF Settle
  <2> HIDE DEF c, now
  <2>5. ASSUME NEW k \in DOMAIN b.reservations
        PROVE  /\ HeldAmount(now[k]) = HeldAmount(b.reservations[k])
               /\ now[k].capturedAmount = b.reservations[k].capturedAmount
               /\ now[k].idempotencyKey = b.reservations[k].idempotencyKey
               /\ now[k].status = "ACTIVE" => b.reservations[k].status = "ACTIVE"
    <3>1. CASE k = id
      BY <1>2, <2>4, <3>1 DEF Settled, HeldAmount
    <3>2. CASE k # id
      BY <2>4, <3>2
    <3>3. QED
      BY <3>1, <3>2
  <2>6. BookInv(c)
    BY <2>2, <2>3, <2>4, <2>5, RelabelKeeps
  <2>7. QED
    BY <2>6 DEF c
<1>3. QED
  BY <1>1, <1>2

\* Overdue changes one flag of one reservation.
LEMMA OverdueFields ==
  ASSUME NEW b \in Book, NEW id \in DOMAIN b.reservations
  PROVE  LET c == Overdue(b, id)
         IN /\ c.available = b.available /\ c.reserved = b.reserved /\ c.version = b.version
            /\ c.lifetimeConsumed = b.lifetimeConsumed /\ c.entries = b.entries
            /\ DOMAIN c.reservations = DOMAIN b.reservations
            /\ \A k \in DOMAIN b.reservations :
                 /\ c.reservations[k].status = b.reservations[k].status
                 /\ c.reservations[k].amount = b.reservations[k].amount
                 /\ c.reservations[k].capturedAmount = b.reservations[k].capturedAmount
                 /\ c.reservations[k].idempotencyKey = b.reservations[k].idempotencyKey
<1> DEFINE late == [b.reservations[id] EXCEPT !.expired = TRUE]
           all == [b.reservations EXCEPT ![id] = late]
           c == Overdue(b, id)
<1>1. \A r \in Reservation : LET l == [r EXCEPT !.expired = TRUE]
                             IN /\ l.status = r.status /\ l.amount = r.amount
                                /\ l.capturedAmount = r.capturedAmount
                                /\ l.idempotencyKey = r.idempotencyKey
  BY DEF Reservation
<1>2. /\ late.status = b.reservations[id].status /\ late.amount = b.reservations[id].amount
      /\ late.capturedAmount = b.reservations[id].capturedAmount
      /\ late.idempotencyKey = b.reservations[id].idempotencyKey
  BY <1>1, ReservationFields
<1> HIDE DEF late
<1>3. /\ DOMAIN all = DOMAIN b.reservations /\ all[id] = late
      /\ \A k \in DOMAIN b.reservations : k # id => all[k] = b.reservations[k]
  OBVIOUS
<1>4. c = [b EXCEPT !.reservations = all]
  BY DEF Overdue, late
<1> HIDE DEF all, c
<1>5. /\ c.available = b.available /\ c.reserved = b.reserved /\ c.version = b.version
      /\ c.lifetimeConsumed = b.lifetimeConsumed /\ c.entries = b.entries
      /\ c.reservations = all
  BY <1>4 DEF Book
<1>6. QED
  BY <1>2, <1>3, <1>5 DEF c

\* The passing of an expiry time keeps the invariant of a book.
LEMMA OverdueKeeps ==
  ASSUME NEW b \in Book, BookInv(b), NEW id \in DOMAIN b.reservations
  PROVE  BookInv(Overdue(b, id))
<1>1. Overdue(b, id) \in Book
  BY OverdueType
<1> DEFINE c == Overdue(b, id)
<1>2. \A k \in DOMAIN b.reservations :
         HeldAmount(c.reservations[k]) = HeldAmount(b.reservations[k])
  BY OverdueFields DEF HeldAmount
<1> HIDE DEF c
<1>3. QED
  BY <1>1, <1>2, OverdueFields, RelabelKeeps DEF c

-----------------------------------------------------------------------------
(***************************************************************************)
(* What every transaction does to a book.                                  *)
(***************************************************************************)
\* Reservations other than ACTIVE ones keep what was charged.
StaysSettled(b, c) ==
  \A id \in DOMAIN b.reservations :
    b.reservations[id].status # "ACTIVE" =>
      /\ c.reservations[id].capturedAmount = b.reservations[id].capturedAmount
      /\ \/ c.reservations[id].status = b.reservations[id].status
         \/ b.reservations[id].status = "RELEASED" /\ c.reservations[id].status = "EXPIRED"

BookStep(b, c) ==
  /\ c \in Book
  /\ BookInv(c)
  /\ DOMAIN b.reservations \subseteq DOMAIN c.reservations
  /\ StaysSettled(b, c)
  /\ b.version <= c.version
  /\ b.version = c.version => b.available = c.available /\ b.reserved = c.reserved

\* A book that does not change takes a legal step.
LEMMA StutterStep ==
  ASSUME NEW b \in Book, BookInv(b)
  PROVE  BookStep(b, b)
  BY BookFields DEF BookStep, StaysSettled

\* mutate is a legal step of a book.
LEMMA MutateStep ==
  ASSUME NEW b \in Book, BookInv(b), NEW type \in Credits \union Debits, NEW key \in Key,
         NEW delta \in Int, type \in Credits => delta \in Nat,
         MutateOk(b, type, key, delta)
  PROVE  BookStep(b, Mutate(b, type, key, delta))
<1>1. Mutate(b, type, key, delta) \in Book /\ BookInv(Mutate(b, type, key, delta))
  BY MutateType, MutateKeeps DEF EntryKey
<1>2. /\ Mutate(b, type, key, delta).reservations = b.reservations
      /\ Mutate(b, type, key, delta).version = b.version + 1
  BY DEF Mutate, Updated
<1>3. QED
  BY <1>1, <1>2, BookFields DEF BookStep, StaysSettled

\* reserveCredits is a legal step of a book.
LEMMA ReserveStep ==
  ASSUME NEW b \in Book, BookInv(b), NEW key \in Key, NEW amount \in Nat \ {0},
         ReserveOk(b, key, amount)
  PROVE  BookStep(b, Reserve(b, key, amount))
<1> DEFINE c == Reserve(b, key, amount)
<1>1. c \in Book /\ BookInv(c)
  BY ReserveType, ReserveKeeps
<1>2. /\ c.reservations = Append(b.reservations, NewReservation(key, amount))
      /\ c.version = b.version + 1
  BY DEF Reserve, Updated
<1> HIDE DEF c
<1>3. /\ DOMAIN b.reservations \subseteq DOMAIN c.reservations
      /\ \A id \in DOMAIN b.reservations : c.reservations[id] = b.reservations[id]
  BY <1>2, BookFields
<1>4. BookStep(b, c)
  BY <1>1, <1>2, <1>3, BookFields DEF BookStep, StaysSettled
<1>5. QED
  BY <1>4 DEF c

\* Settling an ACTIVE reservation, and counting the version up.
LEMMA SettleStep ==
  ASSUME NEW b \in Book, NEW c \in Book, BookInv(c), NEW id \in DOMAIN b.reservations,
         NEW status, NEW captured, c.reservations = Settle(b, id, status, captured),
         b.reservations[id].status = "ACTIVE", c.version = b.version + 1
  PROVE  BookStep(b, c)
<1>1. /\ DOMAIN c.reservations = DOMAIN b.reservations
      /\ \A k \in DOMAIN b.reservations : k # id => c.reservations[k] = b.reservations[k]
  BY DEF Settle
<1>2. StaysSettled(b, c)
  BY <1>1 DEF StaysSettled
<1>3. QED
  BY <1>1, <1>2, BookFields DEF BookStep

\* captureReservation is a legal step of a book.
LEMMA CaptureStep ==
  ASSUME NEW b \in Book, BookInv(b), NEW key \in Key, NEW id \in DOMAIN b.reservations,
         NEW amount \in Nat, CaptureFits(b, key, id, amount)
  PROVE  BookStep(b, Capture(b, key, id, amount))
<1> DEFINE c == Capture(b, key, id, amount)
<1>1. c \in Book /\ BookInv(c)
  BY CaptureType, CaptureKeeps
<1>2. c.reservations = Settle(b, id, "CAPTURED", amount) /\ c.version = b.version + 1
  BY DEF Capture, Updated
<1>3. b.reservations[id].status = "ACTIVE"
  BY DEF CaptureFits, IsActive
<1> HIDE DEF c
<1>4. BookStep(b, c)
  BY <1>1, <1>2, <1>3, SettleStep
<1>5. QED
  BY <1>4 DEF c

\* releaseReservation is a legal step of a book.
LEMMA ReleaseStep ==
  ASSUME NEW b \in Book, BookInv(b), NEW key \in Key \union [expire : Nat],
         NEW id \in DOMAIN b.reservations, ReleaseOk(b, key, id)
  PROVE  BookStep(b, Release(b, key, id))
<1> DEFINE c == Release(b, key, id)
<1>1. c \in Book /\ BookInv(c)
  <2>1. key \in EntryKey
    BY DEF EntryKey
  <2>2. QED
    BY <2>1, ReleaseType, ReleaseKeeps
<1>2. /\ c.reservations = Settle(b, id, "RELEASED", b.reservations[id].capturedAmount)
      /\ c.version = b.version + 1
  BY DEF Release, Updated
<1>3. b.reservations[id].status = "ACTIVE"
  BY DEF ReleaseOk, IsActive
<1> HIDE DEF c
<1>4. BookStep(b, c)
  BY <1>1, <1>2, <1>3, SettleStep
<1>5. QED
  BY <1>4 DEF c

\* The sweep's change of status is a legal step of a book.
LEMMA MarkExpiredStep ==
  ASSUME NEW b \in Book, BookInv(b), NEW id \in DOMAIN b.reservations
  PROVE  BookStep(b, MarkExpired(b, id))
<1>1. CASE b.reservations[id].status # "RELEASED"
  BY <1>1, StutterStep DEF MarkExpired
<1>2. CASE b.reservations[id].status = "RELEASED"
  <2> DEFINE c == MarkExpired(b, id)
             now == Settle(b, id, "EXPIRED", b.reservations[id].capturedAmount)
  <2>1. c \in Book /\ BookInv(c)
    BY MarkExpiredType, MarkExpiredKeeps
  <2>2. c = [b EXCEPT !.reservations = now]
    BY <1>2 DEF MarkExpired
  <2>3. /\ DOMAIN now = DOMAIN b.reservations
        /\ now[id].status = "EXPIRED"
        /\ now[id].capturedAmount = b.reservations[id].capturedAmount
        /\ \A k \in DOMAIN b.reservations : k # id => now[k] = b.reservations[k]
    BY DEF Settle, Settled
  <2> HIDE DEF c, now
  <2>4. /\ c.available = b.available /\ c.reserved = b.reserved
        /\ c.version = b.version /\ c.reservations = now
    BY <2>2 DEF Book
  <2>5. StaysSettled(b, c)
    BY <1>2, <2>3, <2>4 DEF StaysSettled
  <2>6. BookStep(b, c)
    BY <2>1, <2>3, <2>4, <2>5, BookFields DEF BookStep
  <2>7. QED
    BY <2>6 DEF c
<1>3. QED
  BY <1>1, <1>2

\* The passing of an expiry time is a legal step of a book.
LEMMA OverdueStep ==
  ASSUME NEW b \in Book, BookInv(b), NEW id \in DOMAIN b.reservations
  PROVE  BookStep(b, Overdue(b, id))
<1> DEFINE c == Overdue(b, id)
<1>1. c \in Book /\ BookInv(c)
  BY OverdueType, OverdueKeeps
<1>2. StaysSettled(b, c)
  BY OverdueFields DEF StaysSettled
<1>3. /\ c.version = b.version /\ c.available = b.available /\ c.reserved = b.reserved
      /\ DOMAIN c.reservations = DOMAIN b.reservations
  BY OverdueFields
<1> HIDE DEF c
<1>4. BookStep(b, c)
  BY <1>1, <1>2, <1>3, BookFields DEF BookStep
<1>5. QED
  BY <1>4 DEF c

\* What is reserved covers every hold, so a release can fail only because it was made.
LEMMA HoldIsCovered ==
  ASSUME NEW b \in Book, Backed(b), NEW id, IsActive(b, id)
  PROVE  b.reserved >= b.reservations[id].amount
<1> DEFINE n == Len(b.reservations)
           h == HeldAmounts(b.reservations)
<1>1. /\ b.reservations \in Seq(Reservation) /\ n \in Nat
      /\ DOMAIN b.reservations = 1..n /\ id \in 1..n
  BY BookFields DEF IsActive
<1>2. h \in [1..n -> Int] /\ \A k \in 1..n : b.reservations[k].amount \in Nat
  BY <1>1, ReservationColumns
<1>3. \A k \in 1..n : h[k] \in Nat
  BY <1>1, <1>2 DEF HeldAmounts, HeldAmount
<1>4. h[id] = b.reservations[id].amount
  BY <1>1 DEF HeldAmounts, HeldAmount, IsActive
<1> HIDE DEF h, n
<1>5. Len(h) = n
  BY <1>1, <1>2, ColumnIsSeq
<1>6. SumOf(h) >= h[id]
  BY <1>1, <1>3, <1>5, TotalAtLeast DEF SumOf
<1>7. QED
  BY <1>4, <1>6 DEF Backed, h

-----------------------------------------------------------------------------
(***************************************************************************)
(* What rows with callers' keys tell of the reservations.  The caller of a *)
(* capture or a release knows its own reservation's key; BookOk says what  *)
(* it may conclude when the service answers that the row exists.           *)
(***************************************************************************)
KeysOnce(b) ==
  \A i, j \in DOMAIN b.reservations :
    b.reservations[i].idempotencyKey = b.reservations[j].idempotencyKey => i = j

\* A capture or a release with a caller's key was made for the reservation with that key.
RowsTell(b) ==
  \A k \in Key :
    /\ HasEntry(b, "RESERVATION_CAPTURE", k) =>
         \E id \in DOMAIN b.reservations :
           b.reservations[id].idempotencyKey = k /\ b.reservations[id].status = "CAPTURED"
    /\ HasEntry(b, "RESERVATION_RELEASE", k) =>
         \E id \in DOMAIN b.reservations :
           b.reservations[id].idempotencyKey = k /\ b.reservations[id].status # "ACTIVE"

PaidIfCaptured(b) ==
  \A id \in DOMAIN b.reservations :
    b.reservations[id].capturedAmount # 0 <=> b.reservations[id].status = "CAPTURED"

BookOk(b) ==
  /\ b.reservations \in Seq(Reservation)
  /\ \E S : b.entries \in Seq(S)
  /\ KeysOnce(b) /\ RowsTell(b) /\ PaidIfCaptured(b)

\* What no transaction takes back: a reservation keeps its key, and once settled what it cost.
Later(b, then) ==
  \A id \in DOMAIN b.reservations :
    LET r == b.reservations[id]
        s == then.reservations[id]
    IN /\ id \in DOMAIN then.reservations
       /\ s.idempotencyKey = r.idempotencyKey
       /\ r.status # "ACTIVE" =>
            /\ s.status # "ACTIVE" /\ s.capturedAmount = r.capturedAmount
            /\ s.status = "CAPTURED" <=> r.status = "CAPTURED"

\* A reservation's fields.
LEMMA ReservationRow ==
  ASSUME NEW b, b.reservations \in Seq(Reservation), NEW id \in DOMAIN b.reservations
  PROVE  /\ id \in Nat \ {0} /\ DOMAIN b.reservations = 1..Len(b.reservations)
         /\ b.reservations[id] \in Reservation /\ b.reservations[id].idempotencyKey \in Key
         /\ b.reservations[id].amount \in Nat \ {0}
         /\ b.reservations[id].capturedAmount \in Nat
<1>1. /\ Len(b.reservations) \in Nat /\ DOMAIN b.reservations = 1..Len(b.reservations)
      /\ b.reservations[id] \in Reservation
  OBVIOUS
<1> QED BY <1>1 DEF Reservation

\* One more row is an entry with its key, and no other.
LEMMA EntriesGrow ==
  ASSUME NEW b, NEW then, NEW e, \E S : b.entries \in Seq(S),
         then.entries = Append(b.entries, e)
  PROVE  /\ \E S : then.entries \in Seq(S)
         /\ \A t, k : HasEntry(then, t, k) <=>
              HasEntry(b, t, k) \/ (e.type = t /\ e.idempotencyKey = k)
<1>1. PICK S : b.entries \in Seq(S) OBVIOUS
<1> DEFINE R == S \union {e}
           rows == b.entries
<1>2. rows \in Seq(R)
  <2>1. rows \in [1..Len(rows) -> S] /\ Len(rows) \in Nat BY <1>1
  <2>2. rows \in [1..Len(rows) -> R] BY <2>1
  <2> QED BY <2>1, <2>2
<1>3. e \in R OBVIOUS
<1> HIDE DEF R
<1>4. /\ Append(rows, e) \in Seq(R) /\ Len(rows) \in Nat /\ DOMAIN rows = 1..Len(rows)
      /\ DOMAIN Append(rows, e) = 1..(Len(rows) + 1)
      /\ \A i \in 1..Len(rows) : Append(rows, e)[i] = rows[i]
      /\ Append(rows, e)[Len(rows) + 1] = e
  BY <1>2, <1>3
<1>5. ASSUME NEW t, NEW k
      PROVE  HasEntry(then, t, k) <=>
               HasEntry(b, t, k) \/ (e.type = t /\ e.idempotencyKey = k)
  <2>1. \A i : i \in 1..(Len(rows) + 1) <=> i \in 1..Len(rows) \/ i = Len(rows) + 1
    BY <1>4
  <2> QED BY <1>4, <2>1 DEF HasEntry
<1> QED BY <1>4, <1>5

\* Settling one reservation.
LEMMA SettleRow ==
  ASSUME NEW b, b.reservations \in Seq(Reservation), NEW id \in DOMAIN b.reservations,
         NEW status \in {"CAPTURED", "RELEASED", "EXPIRED"}, NEW n \in Nat
  PROVE  LET s == Settle(b, id, status, n)
         IN /\ s \in Seq(Reservation) /\ DOMAIN s = DOMAIN b.reservations
            /\ s[id].idempotencyKey = b.reservations[id].idempotencyKey
            /\ s[id].status = status /\ s[id].capturedAmount = n
            /\ \A j \in DOMAIN s : j # id => s[j] = b.reservations[j]
<1> DEFINE new == Settled(b.reservations[id], status, n)
           s == [b.reservations EXCEPT ![id] = new]
<1>1. /\ new \in Reservation /\ new.status = status /\ new.capturedAmount = n
      /\ new.idempotencyKey = b.reservations[id].idempotencyKey
  BY ReservationRow DEF Settled, Reservation
<1> HIDE DEF new
<1>2. s \in Seq(Reservation) /\ DOMAIN s = DOMAIN b.reservations BY <1>1
<1>3. s[id] = new /\ \A j \in DOMAIN s : j # id => s[j] = b.reservations[j] BY <1>2
<1>4. Settle(b, id, status, n) = s BY DEF Settle, new
<1> HIDE DEF s
<1> QED BY <1>1, <1>2, <1>3, <1>4

\* The rows of a transaction that settles a reservation have no caller's key but its own.
OwnRows(b, then, id, status) ==
  \A k \in Key :
    /\ HasEntry(then, "RESERVATION_CAPTURE", k) =>
         \/ HasEntry(b, "RESERVATION_CAPTURE", k)
         \/ k = b.reservations[id].idempotencyKey /\ status = "CAPTURED"
    /\ HasEntry(then, "RESERVATION_RELEASE", k) =>
         HasEntry(b, "RESERVATION_RELEASE", k) \/ k = b.reservations[id].idempotencyKey

\* A book in which one ACTIVE or RELEASED reservation is settled is a later book.
LEMMA SettledBook ==
  ASSUME NEW b, BookOk(b), NEW then, NEW id \in DOMAIN b.reservations,
         NEW status \in {"CAPTURED", "RELEASED", "EXPIRED"}, NEW n \in Nat,
         b.reservations[id].status \in {"ACTIVE", "RELEASED"},
         b.reservations[id].status = "RELEASED" => status # "CAPTURED",
         n # 0 <=> status = "CAPTURED",
         then.reservations = Settle(b, id, status, n),
         \E S : then.entries \in Seq(S), OwnRows(b, then, id, status)
  PROVE  /\ BookOk(then) /\ Later(b, then)
         /\ DOMAIN then.reservations = DOMAIN b.reservations
         /\ then.reservations[id].status = status
         /\ then.reservations[id].capturedAmount = n
         /\ \A j \in DOMAIN b.reservations : j # id =>
              then.reservations[j] = b.reservations[j]
<1> DEFINE r == b.reservations
           s == then.reservations
<1>1. /\ s \in Seq(Reservation) /\ DOMAIN s = DOMAIN r
      /\ s[id].idempotencyKey = r[id].idempotencyKey
      /\ s[id].status = status /\ s[id].capturedAmount = n
      /\ \A j \in DOMAIN s : j # id => s[j] = r[j]
  BY SettleRow DEF BookOk
<1>2. \A j \in DOMAIN r : s[j].idempotencyKey = r[j].idempotencyKey BY <1>1
<1>3. KeysOnce(then) BY <1>1, <1>2 DEF BookOk, KeysOnce
<1>4. PaidIfCaptured(then) BY <1>1 DEF BookOk, PaidIfCaptured
<1>5. r[id].capturedAmount = 0 BY DEF BookOk, PaidIfCaptured
<1>6. Later(b, then) BY <1>1, <1>2, <1>5 DEF Later
<1>7. RowsTell(then)
  <2> SUFFICES ASSUME NEW k \in Key
               PROVE  /\ HasEntry(then, "RESERVATION_CAPTURE", k) =>
                           \E i \in DOMAIN s : s[i].idempotencyKey = k /\ s[i].status = "CAPTURED"
                      /\ HasEntry(then, "RESERVATION_RELEASE", k) =>
                           \E i \in DOMAIN s : s[i].idempotencyKey = k /\ s[i].status # "ACTIVE"
    BY DEF RowsTell
  <2>1. ASSUME HasEntry(then, "RESERVATION_CAPTURE", k)
        PROVE  \E i \in DOMAIN s : s[i].idempotencyKey = k /\ s[i].status = "CAPTURED"
    <3>1. CASE HasEntry(b, "RESERVATION_CAPTURE", k)
      <4>1. PICK i \in DOMAIN r : r[i].idempotencyKey = k /\ r[i].status = "CAPTURED"
        BY <3>1 DEF BookOk, RowsTell
      <4> QED BY <4>1, <1>1, <1>2
    <3>2. CASE k = r[id].idempotencyKey /\ status = "CAPTURED" BY <3>2, <1>1
    <3> QED BY <2>1, <3>1, <3>2 DEF OwnRows
  <2>2. ASSUME HasEntry(then, "RESERVATION_RELEASE", k)
        PROVE  \E i \in DOMAIN s : s[i].idempotencyKey = k /\ s[i].status # "ACTIVE"
    <3>1. CASE HasEntry(b, "RESERVATION_RELEASE", k)
      <4>1. PICK i \in DOMAIN r : r[i].idempotencyKey = k /\ r[i].status # "ACTIVE"
        BY <3>1 DEF BookOk, RowsTell
      <4> QED BY <4>1, <1>1, <1>2
    <3>2. CASE k = r[id].idempotencyKey BY <3>2, <1>1
    <3> QED BY <2>2, <3>1, <3>2 DEF OwnRows
  <2> QED BY <2>1, <2>2
<1> QED BY <1>1, <1>3, <1>4, <1>6, <1>7 DEF BookOk

\* A reservation is added ACTIVE with a key of its own.
LEMMA ReserveBook ==
  ASSUME NEW b, BookOk(b), NEW key \in Key, NEW amount \in Nat \ {0},
         ReserveOk(b, key, amount)
  PROVE  LET then == Reserve(b, key, amount)
             new == Len(b.reservations) + 1
         IN /\ BookOk(then) /\ Later(b, then)
            /\ new \in Nat \ {0} /\ DOMAIN then.reservations = DOMAIN b.reservations \union {new}
            /\ then.reservations[new].idempotencyKey = key
            /\ then.reservations[new].status = "ACTIVE"
            /\ \A j \in DOMAIN b.reservations :
                 j # new /\ then.reservations[j] = b.reservations[j]
<1> DEFINE then == Reserve(b, key, amount)
           r == b.reservations
           row == NewReservation(key, amount)
           new == Len(r) + 1
           s == Append(r, row)
<1>1. /\ row \in Reservation /\ row.idempotencyKey = key /\ row.status = "ACTIVE"
      /\ row.capturedAmount = 0
  BY DEF NewReservation, Reservation
<1>2. r \in Seq(Reservation) BY DEF BookOk
<1>3. then.reservations = s /\ then.entries = Append(b.entries, ReserveEntry(b, key, amount))
  BY DEF Reserve, Updated
<1> HIDE DEF row, then
<1>4. /\ s \in Seq(Reservation) /\ new \in Nat \ {0} /\ DOMAIN s = DOMAIN r \union {new}
      /\ s[new] = row /\ \A j \in DOMAIN r : j # new /\ s[j] = r[j]
  BY <1>1, <1>2
<1> HIDE DEF s, new
<1>5. /\ \E S : then.entries \in Seq(S)
      /\ \A t, k : HasEntry(then, t, k) <=>
           \/ HasEntry(b, t, k)
           \/ ReserveEntry(b, key, amount).type = t
                /\ ReserveEntry(b, key, amount).idempotencyKey = k
  <2>1. \E S : b.entries \in Seq(S) BY DEF BookOk
  <2> QED BY <1>3, <2>1, EntriesGrow
<1>6. ReserveEntry(b, key, amount).type = "RESERVATION" BY DEF ReserveEntry, Entry
<1>7. \A k : /\ HasEntry(then, "RESERVATION_CAPTURE", k) => HasEntry(b, "RESERVATION_CAPTURE", k)
             /\ HasEntry(then, "RESERVATION_RELEASE", k) => HasEntry(b, "RESERVATION_RELEASE", k)
  BY <1>5, <1>6
<1>8. Later(b, then) BY <1>3, <1>4 DEF Later
<1>9. KeysOnce(then)
  <2>1. \A j \in DOMAIN r : r[j].idempotencyKey # key BY DEF ReserveOk, HasReservation
  <2> QED BY <1>1, <1>3, <1>4, <2>1 DEF BookOk, KeysOnce
<1>10. PaidIfCaptured(then) BY <1>1, <1>3, <1>4 DEF BookOk, PaidIfCaptured
<1>11. RowsTell(then)
  <2>1. RowsTell(b) BY DEF BookOk
  <2>2. \A j \in DOMAIN r : j \in DOMAIN s /\ s[j] = r[j] BY <1>4
  <2> QED BY <1>3, <1>7, <2>1, <2>2 DEF RowsTell
<1>12. BookOk(then) BY <1>3, <1>4, <1>5, <1>9, <1>10, <1>11 DEF BookOk
<1> QED BY <1>1, <1>3, <1>4, <1>8, <1>12 DEF then, new

\* A capture settles the hold with what was captured.
LEMMA CaptureBook ==
  ASSUME NEW b, BookOk(b), NEW key \in Key, NEW id, NEW amount \in Nat \ {0},
         CaptureFits(b, key, id, amount), b.reservations[id].idempotencyKey = key
  PROVE  LET then == Capture(b, key, id, amount)
         IN /\ BookOk(then) /\ Later(b, then)
            /\ id \in DOMAIN b.reservations /\ b.reservations[id].status = "ACTIVE"
            /\ DOMAIN then.reservations = DOMAIN b.reservations
            /\ then.reservations[id].status = "CAPTURED"
            /\ then.reservations[id].capturedAmount = amount
            /\ \A j \in DOMAIN b.reservations : j # id =>
                 then.reservations[j] = b.reservations[j]
<1> DEFINE then == Capture(b, key, id, amount)
           e == CaptureEntry(b, key, id, amount)
           rest == RemainderEntry(b, key, id, amount)
           middle == [entries |-> Append(b.entries, e)]
<1>1. id \in DOMAIN b.reservations /\ b.reservations[id].status = "ACTIVE"
  BY DEF CaptureFits, IsActive
<1>2. /\ then.reservations = Settle(b, id, "CAPTURED", amount)
      /\ then.entries = IF Unused(b, id, amount) > 0 THEN Append(middle.entries, rest)
                        ELSE middle.entries
  BY DEF Capture, Updated, CaptureRows
<1>3. /\ e.type = "RESERVATION_CAPTURE" /\ e.idempotencyKey = key
      /\ rest.type = "RESERVATION_RELEASE" /\ rest.idempotencyKey = RemainderKey(key)
  BY DEF CaptureEntry, RemainderEntry, Entry
<1>4. middle.entries = Append(b.entries, e) OBVIOUS
<1> HIDE DEF then, e, rest, middle
<1>5. /\ \E S : middle.entries \in Seq(S)
      /\ \A t, k : HasEntry(middle, t, k) <=>
           HasEntry(b, t, k) \/ (e.type = t /\ e.idempotencyKey = k)
  <2>1. \E S : b.entries \in Seq(S) BY DEF BookOk
  <2> QED BY <1>4, <2>1, EntriesGrow
<1>6. /\ \E S : then.entries \in Seq(S)
      /\ \A t, k : HasEntry(then, t, k) =>
           HasEntry(middle, t, k) \/ (rest.type = t /\ rest.idempotencyKey = k)
  <2>1. CASE Unused(b, id, amount) > 0
    <3>1. then.entries = Append(middle.entries, rest) BY <1>2, <2>1
    <3>2. \E S : middle.entries \in Seq(S) BY <1>5
    <3>3. /\ \E S : then.entries \in Seq(S)
          /\ \A t, k : HasEntry(then, t, k) <=>
               HasEntry(middle, t, k) \/ (rest.type = t /\ rest.idempotencyKey = k)
      BY <3>1, <3>2, EntriesGrow
    <3> QED BY <3>3
  <2>2. CASE ~(Unused(b, id, amount) > 0)
    BY <1>2, <1>5, <2>2 DEF HasEntry
  <2> QED BY <2>1, <2>2
<1>7. ASSUME NEW k \in Key PROVE RemainderKey(key) # k
  <2>1. RemainderKey(key) \in [remainder : Key] BY DEF RemainderKey
  <2> QED BY <2>1, KeyAssumption
<1>8. OwnRows(b, then, id, "CAPTURED") BY <1>3, <1>5, <1>6, <1>7 DEF OwnRows
<1>9. amount \in Nat /\ amount # 0 OBVIOUS
<1>10. /\ BookOk(then) /\ Later(b, then)
       /\ DOMAIN then.reservations = DOMAIN b.reservations
       /\ then.reservations[id].status = "CAPTURED"
       /\ then.reservations[id].capturedAmount = amount
       /\ \A j \in DOMAIN b.reservations : j # id =>
            then.reservations[j] = b.reservations[j]
  BY <1>1, <1>2, <1>6, <1>8, <1>9, SettledBook
<1> QED BY <1>1, <1>10 DEF then

\* A release with the hold's key, or with one no caller sends, settles it.
LEMMA ReleaseBook ==
  ASSUME NEW b, BookOk(b), NEW key, NEW id, ReleaseOk(b, key, id),
         key \in Key => b.reservations[id].idempotencyKey = key
  PROVE  LET then == Release(b, key, id)
         IN /\ BookOk(then) /\ Later(b, then)
            /\ id \in DOMAIN b.reservations /\ b.reservations[id].status = "ACTIVE"
            /\ DOMAIN then.reservations = DOMAIN b.reservations
            /\ then.reservations[id].status = "RELEASED"
            /\ \A j \in DOMAIN b.reservations : j # id =>
                 then.reservations[j] = b.reservations[j]
<1> DEFINE then == Release(b, key, id)
           e == ReleaseEntry(b, key, id)
<1>1. id \in DOMAIN b.reservations /\ b.reservations[id].status = "ACTIVE"
  BY DEF ReleaseOk, IsActive
<1>2. b.reservations[id].capturedAmount = 0 BY <1>1 DEF BookOk, PaidIfCaptured
<1>3. then.reservations = Settle(b, id, "RELEASED", 0) /\ then.entries = Append(b.entries, e)
  BY <1>2 DEF Release, Updated
<1>4. e.type = "RESERVATION_RELEASE" /\ e.idempotencyKey = key BY DEF ReleaseEntry, Entry
<1> HIDE DEF then, e
<1>5. /\ \E S : then.entries \in Seq(S)
      /\ \A t, k : HasEntry(then, t, k) <=>
           HasEntry(b, t, k) \/ (e.type = t /\ e.idempotencyKey = k)
  <2>1. \E S : b.entries \in Seq(S) BY DEF BookOk
  <2> QED BY ZenonT(90), <1>3, <2>1, EntriesGrow
<1>6. OwnRows(b, then, id, "RELEASED") BY <1>4, <1>5 DEF OwnRows
<1>7. /\ BookOk(then) /\ Later(b, then)
      /\ DOMAIN then.reservations = DOMAIN b.reservations
      /\ then.reservations[id].status = "RELEASED"
      /\ \A j \in DOMAIN b.reservations : j # id =>
           then.reservations[j] = b.reservations[j]
  BY ZenonT(90), <1>1, <1>3, <1>5, <1>6, SettledBook
<1> QED BY <1>1, <1>7 DEF then

\* The sweep settles a hold as EXPIRED.
LEMMA SweepBook ==
  ASSUME NEW b, BookOk(b), NEW id, ReleaseOk(b, ExpireKey(id), id)
  PROVE  LET then == MarkExpired(Release(b, ExpireKey(id), id), id)
         IN /\ BookOk(then) /\ Later(b, then)
            /\ id \in DOMAIN b.reservations
            /\ DOMAIN then.reservations = DOMAIN b.reservations
            /\ then.reservations[id].status = "EXPIRED"
            /\ \A j \in DOMAIN b.reservations : j # id =>
                 then.reservations[j] = b.reservations[j]
<1> DEFINE m == Release(b, ExpireKey(id), id)
           then == MarkExpired(m, id)
<1>1. id \in DOMAIN b.reservations BY DEF ReleaseOk, IsActive
<1>2. ExpireKey(id) \notin Key
  <2>1. id \in Nat BY <1>1, ReservationRow DEF BookOk
  <2>2. ExpireKey(id) \in [expire : Nat] BY <2>1 DEF ExpireKey
  <2> QED BY <2>2, KeyAssumption
<1>3. /\ BookOk(m) /\ Later(b, m)
      /\ DOMAIN m.reservations = DOMAIN b.reservations
      /\ m.reservations[id].status = "RELEASED"
      /\ \A j \in DOMAIN b.reservations : j # id => m.reservations[j] = b.reservations[j]
  BY <1>2, ReleaseBook
<1>4. m.reservations[id].capturedAmount = 0 BY <1>1, <1>3 DEF BookOk, PaidIfCaptured
<1>5. then.reservations = Settle(m, id, "EXPIRED", 0) /\ then.entries = m.entries
  <2>1. then = [m EXCEPT !.reservations = Settle(m, id, "EXPIRED", 0)]
    BY <1>3, <1>4 DEF MarkExpired
  <2>2. "reservations" \in DOMAIN m /\ "entries" \in DOMAIN m BY DEF Release, Updated
  <2> QED BY <2>1, <2>2
<1> HIDE DEF m, then
<1>6. \A t, k : HasEntry(then, t, k) <=> HasEntry(m, t, k) BY <1>5 DEF HasEntry
<1>7. /\ BookOk(then) /\ Later(m, then) /\ DOMAIN then.reservations = DOMAIN m.reservations
      /\ then.reservations[id].status = "EXPIRED"
      /\ \A j \in DOMAIN m.reservations : j # id => then.reservations[j] = m.reservations[j]
  <2>1. /\ \E S : then.entries \in Seq(S)
        /\ id \in DOMAIN m.reservations /\ m.reservations[id].status = "RELEASED"
        /\ then.reservations = Settle(m, id, "EXPIRED", 0)
    BY <1>1, <1>3, <1>5 DEF BookOk
  <2>2. OwnRows(m, then, id, "EXPIRED") BY <1>6 DEF OwnRows
  <2> QED BY <1>3, <2>1, <2>2, SettledBook
<1>8. Later(b, then) BY <1>3, <1>7 DEF Later
<1> QED BY <1>1, <1>3, <1>7, <1>8 DEF then, m

\* The passing of an expiry time settles nothing.
LEMMA OverdueBook ==
  ASSUME NEW b, BookOk(b), NEW id \in DOMAIN b.reservations, "reservations" \in DOMAIN b,
         "entries" \in DOMAIN b
  PROVE  LET then == Overdue(b, id)
         IN /\ BookOk(then) /\ Later(b, then)
            /\ DOMAIN then.reservations = DOMAIN b.reservations
            /\ \A j \in DOMAIN b.reservations :
                 then.reservations[j].status = b.reservations[j].status
<1> DEFINE then == Overdue(b, id)
           r == b.reservations
           late == [r[id] EXCEPT !.expired = TRUE]
           s == [r EXCEPT ![id] = late]
<1>1. r \in Seq(Reservation) /\ r[id] \in Reservation BY ReservationRow DEF BookOk
<1>2. /\ late \in Reservation /\ late.status = r[id].status
      /\ late.idempotencyKey = r[id].idempotencyKey /\ late.capturedAmount = r[id].capturedAmount
  BY <1>1 DEF Reservation
<1>3. then.reservations = s /\ then.entries = b.entries BY DEF Overdue
<1> HIDE DEF late, then
<1>4. /\ s \in Seq(Reservation) /\ DOMAIN s = DOMAIN r
      /\ \A j \in DOMAIN r : s[j].status = r[j].status
           /\ s[j].idempotencyKey = r[j].idempotencyKey /\ s[j].capturedAmount = r[j].capturedAmount
  BY <1>1, <1>2
<1> HIDE DEF s
<1>5. \A t, k : HasEntry(then, t, k) <=> HasEntry(b, t, k) BY <1>3 DEF HasEntry
<1>6. Later(b, then) BY <1>3, <1>4 DEF Later
<1>7. KeysOnce(then) BY <1>3, <1>4 DEF BookOk, KeysOnce
<1>8. PaidIfCaptured(then) BY <1>3, <1>4 DEF BookOk, PaidIfCaptured
<1>9. RowsTell(then) BY SMTT(30), <1>3, <1>4, <1>5 DEF BookOk, RowsTell
<1> QED BY <1>3, <1>4, <1>6, <1>7, <1>8, <1>9 DEF BookOk, then
=================================================================================
