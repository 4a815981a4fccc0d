------------------------------ MODULE BillingProofs ------------------------------
(***************************************************************************)
(* The safety of Lands and of Subscriptions for any number of lands, keys, *)
(* saves in flight, sizes, plans and retained revisions, and of orders,    *)
(* payments, events, handlers, days and crashes.                           *)
(*                                                                         *)
(* The quota is the hard part: a save is admitted for what it has read it  *)
(* will free, which may be stale when it writes.  The invariant follows    *)
(* every set of admitted saves that may still write, and the save that     *)
(* read last: nobody can have made that one stale.  Subscriptions that are *)
(* ACTIVE at once are told apart by the handlers that answer for them.     *)
(***************************************************************************)
EXTENDS Lands, Subscriptions, SumTheorems, SequenceTheorems

-----------------------------------------------------------------------------
(***************************************************************************)
(* The inductive invariant.                                                *)
(***************************************************************************)
Most == Max(Size)

\* The most that is stored while n saves more than one overlap.
Slack(n) == n * Most
Ceiling == highest + Slack(Cardinality(Caller) - 1)

Row == [land : Land, revision : Nat, key : Key, size : Size]

Calls ==
  {Idle}
    \union [pc : {"begun"}, land : Land, size : Size]
    \union [pc : {"read"}, land : Land, size : Size, frees : 0..Most]
    \union [pc : {"put"}, land : Land, size : Size, key : Key]
    \union [pc : {"clean"}, keys : SUBSET Key]

TypeInv ==
  /\ land \in [Land -> {"none", "live", "deleted"}]
  /\ revisions \in SUBSET Row /\ IsFiniteSet(revisions)
  /\ current \in [Land -> Key \union {"none"}]
  /\ limit \in Limit /\ highest \in Limit /\ limit <= highest
  /\ call \in [Caller -> Calls]

\* Rows and saves are of lands that were created.
Placed ==
  /\ \A r \in revisions : land[r.land] # "none"
  /\ \A c \in Caller :
       At(c, "begun") \/ At(c, "read") \/ At(c, "put") => land[call[c].land] # "none"

\* A key is drawn once: it belongs to one row, to one save that still has to write its row, or to
\* saves that still have to delete its object.
KeysInv ==
  /\ \A r \in revisions : r.key \in stored \cap drawn
  /\ \A r, s \in revisions : r.key = s.key => r = s
  /\ \A c \in Caller : At(c, "put") =>
       /\ call[c].key \in stored \cap drawn
       /\ \A r \in revisions : r.key # call[c].key
       /\ \A d \in Caller : At(d, "put") /\ call[d].key = call[c].key => d = c
  /\ \A c \in Caller : At(c, "clean") =>
       /\ call[c].keys \subseteq drawn
       /\ \A r \in revisions : r.key \notin call[c].keys
       /\ \A d \in Caller : At(d, "put") => call[d].key \notin call[c].keys

\* Each land keeps the newest Keep revisions and shows the newest one.
Retained(l) ==
  /\ Cardinality(RowsOf(l)) <= Keep
  /\ \A r, s \in RowsOf(l) : r.revision = s.revision => r = s
  /\ RowsOf(l) # {} =>
       \E r \in RowsOf(l) : r.key = current[l] /\ r.revision = Newest(RowsOf(l))

\* The rows the next save of a land drops.
Oldest(l) == Beyond(l, Keep - 1)

LiveRows == {r \in revisions : land[r.land] = "live"}

\* The saves that were admitted and can still write their row.
Admitted == {c \in Caller : At(c, "put") /\ land[call[c].land] = "live"}

\* The rows counted once the saves G have written theirs.
Left(G) == {r \in LiveRows : \A c \in G : r \notin Oldest(call[c].land)}

\* Whichever of the admitted saves write their row, the bytes stay below the ceiling.
Room(G) ==
  /\ G = {} => Bytes(Left(G)) <= Ceiling
  /\ G # {} => \E c \in G :
       Bytes(Left(G)) + call[c].size + Slack(Cardinality(G) - 1) <= Ceiling

\* What this save has read of its land is still so, or what it was admitted for still fits.
Fresh(c) ==
  /\ At(c, "read") \/ At(c, "put")
  /\ At(c, "read") /\ land[call[c].land] = "live" =>
       call[c].frees = Bytes(Oldest(call[c].land))
  /\ At(c, "put") /\ land[call[c].land] = "live" =>
       Bytes(LiveRows \ Oldest(call[c].land)) + call[c].size <= highest

\* When every caller is between its read and its write, the last one to read is fresh.
QuotaInv ==
  /\ \A G \in SUBSET Admitted : Room(G)
  /\ (\A c \in Caller : At(c, "read") \/ At(c, "put")) => \E c \in Caller : Fresh(c)

Inv ==
  /\ TypeInv
  /\ Placed
  /\ KeysInv
  /\ \A l \in Land : Retained(l)
  /\ ObjectsAccounted
  /\ QuotaInv

-----------------------------------------------------------------------------
(***************************************************************************)
(* Maxima, sums of sizes and the rows of a land.                           *)
(***************************************************************************)
\* A finite set of naturals that is not empty has a greatest element.
LEMMA MaxIsGreatest ==
  ASSUME NEW S, S \subseteq Nat, IsFiniteSet(S), S # {}
  PROVE  Max(S) \in S /\ \A y \in S : Max(S) >= y
<1> DEFINE above(x) == {y \in S : y > x}
           T == {n \in Nat : \E x \in S : n = Cardinality(above(x))}
<1>1. \A x \in S : IsFiniteSet(above(x)) /\ Cardinality(above(x)) \in Nat
  BY FS_Subset, FS_CardinalityType
<1>2. T # {} BY <1>1
<1>3. PICK n \in T : \A k \in T : ~(k < n) BY <1>2, NoLeastMember
<1>4. PICK x \in S : n = Cardinality(above(x)) OBVIOUS
<1>5. ASSUME NEW y \in S, y > x PROVE FALSE
  <2>1. above(y) \subseteq above(x) \ {y}
    <3>1. x \in Nat /\ y \in Nat /\ \A z \in S : z \in Nat OBVIOUS
    <3>2. ASSUME NEW z \in S, z > y PROVE z > x /\ z # y BY <1>5, <3>1, <3>2
    <3> QED BY <3>2
  <2>2. y \in above(x) BY <1>5
  <2>3. /\ IsFiniteSet(above(x) \ {y})
        /\ Cardinality(above(x) \ {y}) = Cardinality(above(x)) - 1
    BY <1>1, <2>2, FS_RemoveElement
  <2>4. Cardinality(above(y)) <= Cardinality(above(x) \ {y}) BY <2>1, <2>3, FS_Subset
  <2>5. Cardinality(above(y)) < n BY <1>1, <1>4, <2>3, <2>4
  <2> QED BY <1>1, <1>3, <2>5
<1>6. \A y \in S : x >= y BY <1>5
<1> QED BY <1>6 DEF Max

\* Most bounds the sizes.
LEMMA MostBounds == Most \in Nat /\ \A n \in Size : n \in Nat /\ n <= Most
BY SizesAssumption, MaxIsGreatest DEF Most

\* One save more makes Most bytes more.
LEMMA SlackSteps ==
  /\ \A n \in Int : Slack(n) \in Int /\ Slack(n + 1) = Slack(n) + Most
  /\ Slack(0) = 0
  /\ \A n \in Nat : Slack(n) >= 0
  /\ \A m, n \in Int : m <= n => Slack(m) <= Slack(n)
<1>1. Most \in Nat BY MostBounds
<1>2. \A n \in Int : n * Most \in Int /\ (n + 1) * Most = n * Most + Most BY <1>1
<1>3. \A n \in Nat : n * Most >= 0 BY <1>1
<1>4. \A m, n \in Int : m <= n => m * Most <= n * Most
  <2> SUFFICES ASSUME NEW m \in Int, NEW n \in Int, m <= n PROVE m * Most <= n * Most
    OBVIOUS
  <2>1. n - m \in Nat OBVIOUS
  <2>2. (n - m) * Most >= 0 BY <1>3, <2>1
  <2>3. (n - m) * Most = n * Most - m * Most BY <1>1
  <2> QED BY <1>2, <2>2, <2>3
<1> QED BY <1>1, <1>2, <1>3, <1>4 DEF Slack

Sized(rows) == IsFiniteSet(rows) /\ \A r \in rows : r.size \in Nat

\* The bytes of the rows but for one, and of no rows.
LEMMA BytesOfOne ==
  ASSUME NEW rows, Sized(rows)
  PROVE  /\ Bytes({}) = 0
         /\ Bytes(rows) \in Int
         /\ \A x \in rows : Bytes(rows) = x.size + Bytes(rows \ {x})
<1> DEFINE f == [r \in rows |-> r.size]
<1>1. \A r \in rows : f[r] = r.size /\ f[r] \in Int BY DEF Sized
<1>2. Bytes(rows) = SumFunctionOnSet(f, rows) BY DEF Bytes
<1>3. Bytes({}) = 0 BY SumEmpty DEF Bytes
<1>4. IsFiniteSet(rows) BY DEF Sized
<1> HIDE DEF f
<1>5. ASSUME NEW x \in rows PROVE Bytes(rows) = x.size + Bytes(rows \ {x})
  <2> DEFINE h == [r \in rows \ {x} |-> r.size]
  <2>1. \A r \in rows \ {x} : f[r] = h[r] BY <1>1
  <2>2. Bytes(rows \ {x}) = SumFunctionOnSet(h, rows \ {x}) BY DEF Bytes
  <2> HIDE DEF h
  <2>3. SumFunctionOnSet(f, rows \ {x}) = SumFunctionOnSet(h, rows \ {x}) BY <2>1, SumEqual
  <2>4. SumFunctionOnSet(f, rows) = f[x] + SumFunctionOnSet(f, rows \ {x})
    BY <1>1, <1>4, SumRemove
  <2> QED BY <1>1, <1>2, <2>2, <2>3, <2>4
<1>6. Bytes(rows) \in Int BY <1>1, <1>2, <1>4, SumRemove
<1> QED BY <1>3, <1>5, <1>6

\* A number of bytes is a natural number.
LEMMA BytesType == ASSUME NEW rows, Sized(rows) PROVE Bytes(rows) \in Nat
<1> DEFINE T == {s \in SUBSET rows : Bytes(s) \notin Nat}
<1>1. \A s \in SUBSET rows : Sized(s) BY FS_Subset DEF Sized
<1>2. \A s \in T : IsFiniteSet(s) BY <1>1 DEF Sized
<1>3. ASSUME NEW s \in T PROVE \E r \in T : Cardinality(r) < Cardinality(s)
  <2>1. Sized(s) /\ s \in SUBSET rows BY <1>1
  <2>2. s # {} BY <2>1, BytesOfOne
  <2>3. PICK x \in s : TRUE BY <2>2
  <2>4. Bytes(s) = x.size + Bytes(s \ {x}) /\ x.size \in Nat BY <2>1, BytesOfOne DEF Sized
  <2>5. s \ {x} \in T BY <2>1, <2>4
  <2> QED BY <1>2, <2>5, Fewer
<1>4. T = {} BY <1>2, <1>3, NoSmallestSet
<1> QED BY <1>4

\* The bytes of two parts add up.
LEMMA BytesOfUnion ==
  ASSUME NEW R, NEW D, Sized(R), Sized(D), R \cap D = {}
  PROVE  Bytes(R \union D) = Bytes(R) + Bytes(D)
<1> DEFINE T == {s \in SUBSET D : Bytes(R \union s) # Bytes(R) + Bytes(s)}
<1>1. \A s \in SUBSET D : Sized(s) /\ Sized(R \union s)
  <2>1. \A s \in SUBSET D : IsFiniteSet(s) /\ IsFiniteSet(R \union s)
    BY FS_Subset, FS_Union DEF Sized
  <2> QED BY <2>1 DEF Sized
<1>2. \A s \in T : IsFiniteSet(s) BY <1>1 DEF Sized
<1>3. ASSUME NEW s \in T PROVE \E r \in T : Cardinality(r) < Cardinality(s)
  <2>1. Sized(s) /\ Sized(R \union s) /\ s \in SUBSET D BY <1>1
  <2>2. s # {}
    <3>1. Bytes(R) \in Int /\ Bytes({}) = 0 BY BytesOfOne
    <3>2. R \union {} = R OBVIOUS
    <3>3. Bytes(R \union {}) = Bytes(R) BY <3>2, Zenon
    <3> QED BY <3>1, <3>3
  <2>3. PICK x \in s : TRUE BY <2>2
  <2>4. Bytes(s) = x.size + Bytes(s \ {x}) BY <2>1, BytesOfOne
  <2>5. Bytes(R \union s) = x.size + Bytes((R \union s) \ {x})
    <3>1. x \in R \union s OBVIOUS
    <3> QED BY <2>1, <3>1, BytesOfOne
  <2>6. (R \union s) \ {x} = R \union (s \ {x}) BY <2>1
  <2>7. Bytes((R \union s) \ {x}) = Bytes(R \union (s \ {x})) BY <2>6, Zenon
  <2>8. /\ s \ {x} \in SUBSET D
        /\ Bytes(s \ {x}) \in Nat /\ Bytes(R) \in Nat /\ Bytes(R \union (s \ {x})) \in Nat
        /\ x.size \in Nat
    BY <1>1, <2>1, BytesType DEF Sized
  <2>9. s \ {x} \in T BY <2>4, <2>5, <2>7, <2>8
  <2> QED BY <1>2, <2>9, Fewer
<1>4. T = {} BY <1>2, <1>3, NoSmallestSet
<1> QED BY <1>4

\* Fewer rows, fewer bytes; what is taken away is the difference.
LEMMA BytesOfPart ==
  ASSUME NEW R, NEW D, Sized(R), D \subseteq R
  PROVE  /\ Sized(D) /\ Sized(R \ D)
         /\ Bytes(D) \in Nat /\ Bytes(R) \in Nat /\ Bytes(R \ D) \in Nat
         /\ Bytes(R \ D) = Bytes(R) - Bytes(D)
         /\ Bytes(D) <= Bytes(R)
<1>1. Sized(D) /\ Sized(R \ D) BY FS_Subset DEF Sized
<1>2. Bytes(D) \in Nat /\ Bytes(R) \in Nat /\ Bytes(R \ D) \in Nat BY <1>1, BytesType
<1>3. D \cap (R \ D) = {} /\ D \union (R \ D) = R OBVIOUS
<1>4. Bytes(D \union (R \ D)) = Bytes(D) + Bytes(R \ D) BY <1>1, <1>3, BytesOfUnion
<1>5. Bytes(D \union (R \ D)) = Bytes(R) BY <1>3, Zenon
<1> QED BY <1>1, <1>2, <1>4, <1>5

\* Of the rows of a land that keeps Keep at most, the next save drops one at most, and leaves
\* room for its own.
LEMMA OneDropped ==
  ASSUME NEW R, IsFiniteSet(R), \A r \in R : r.revision \in Nat,
         \A r, s \in R : r.revision = s.revision => r = s,
         Cardinality(R) <= Keep,
         NEW D, D = {r \in R : Cardinality({s \in R : s.revision > r.revision}) >= Keep - 1}
  PROVE  /\ \A r, s \in D : r = s
         /\ Cardinality(R \ D) <= Keep - 1
<1> DEFINE newer(r) == {s \in R : s.revision > r.revision}
<1>1. \A r \in R : IsFiniteSet(newer(r)) /\ Cardinality(newer(r)) \in Nat
  BY FS_Subset, FS_CardinalityType
<1>2. Cardinality(R) \in Nat /\ Keep \in Nat \ {0} BY FS_CardinalityType, KeepAssumption
<1>3. ASSUME NEW r \in D, NEW s \in D, r.revision < s.revision PROVE FALSE
  <2>1. newer(s) \subseteq (R \ {r}) \ {s} BY <1>3
  <2>2. s \in R \ {r} /\ r \in R BY <1>3
  <2>3. /\ IsFiniteSet((R \ {r}) \ {s})
        /\ Cardinality((R \ {r}) \ {s}) = Cardinality(R) - 2
    <3>1. IsFiniteSet(R \ {r}) /\ Cardinality(R \ {r}) = Cardinality(R) - 1
      BY <2>2, FS_RemoveElement
    <3>2. /\ IsFiniteSet((R \ {r}) \ {s})
          /\ Cardinality((R \ {r}) \ {s}) = Cardinality(R \ {r}) - 1
      BY <2>2, <3>1, FS_RemoveElement
    <3> QED BY <1>2, <3>1, <3>2
  <2>4. Cardinality(newer(s)) <= Cardinality(R) - 2 BY <2>1, <2>3, FS_Subset
  <2>5. Cardinality(newer(s)) >= Keep - 1 /\ s \in R OBVIOUS
  <2>6. Cardinality(newer(s)) \in Nat BY <1>1, <2>5
  <2> HIDE DEF newer
  <2> QED BY <1>2, <2>4, <2>5, <2>6
<1>4. \A r, s \in D : r = s
  <2> SUFFICES ASSUME NEW r \in D, NEW s \in D PROVE r = s OBVIOUS
  <2>1. r \in R /\ s \in R /\ r.revision \in Nat /\ s.revision \in Nat OBVIOUS
  <2>2. ~(r.revision < s.revision) /\ ~(s.revision < r.revision) BY <1>3
  <2>3. r.revision = s.revision BY <2>1, <2>2
  <2> QED BY <2>1, <2>3
<1>5. IsFiniteSet(R \ D) /\ Cardinality(R \ D) \in Nat /\ Cardinality(R \ D) <= Cardinality(R)
  BY FS_Subset, FS_CardinalityType
<1>6. Cardinality(R) <= Keep - 1 => Cardinality(R \ D) <= Keep - 1
  BY <1>2, <1>5
<1>7. ASSUME Cardinality(R) = Keep PROVE Cardinality(R \ D) <= Keep - 1
  <2>1. R # {} BY <1>2, <1>7, FS_EmptySet
  <2> DEFINE T == {n \in Nat : \E r \in R : r.revision = n}
  <2>2. T # {} /\ T \subseteq Nat BY <2>1
  <2>3. PICK n \in T : \A k \in T : ~(k < n) BY <2>2, NoLeastMember
  <2>4. PICK o \in R : o.revision = n OBVIOUS
  <2>5. R \ {o} = newer(o)
    <3>1. ASSUME NEW s \in R, s # o PROVE s.revision > o.revision
      <4>1. s.revision \in T /\ s.revision \in Nat /\ o.revision \in Nat OBVIOUS
      <4>2. s.revision # o.revision BY <3>1, <2>4
      <4> QED BY <2>3, <2>4, <4>1, <4>2
    <3> QED BY <3>1
  <2>6. Cardinality(R \ {o}) = Keep - 1 BY <1>7, FS_RemoveElement
  <2>7. Cardinality(newer(o)) = Keep - 1 BY <2>5, <2>6, Zenon
  <2>8. o \in D BY <1>2, <2>7
  <2>9. R \ D \subseteq R \ {o} /\ IsFiniteSet(R \ {o}) BY <2>8, FS_RemoveElement
  <2>10. Cardinality(R \ D) <= Cardinality(R \ {o}) BY <2>9, FS_Subset
  <2>11. Cardinality(R \ D) <= Keep - 1 BY <1>2, <1>5, <2>6, <2>10
  <2> QED BY <2>11
<1> QED BY <1>2, <1>4, <1>6, <1>7

-----------------------------------------------------------------------------
(***************************************************************************)
(* Types.                                                                  *)
(***************************************************************************)
\* What a caller holds depends on how far it is.
LEMMA CallFacts ==
  ASSUME NEW x \in Calls
  PROVE  /\ x.pc \in {"idle", "begun", "read", "put", "clean"}
         /\ x.pc \in {"begun", "read", "put"} => x.land \in Land /\ x.size \in Size
         /\ x.pc = "read" => x.frees \in 0..Most
         /\ x.pc = "put" => x.key \in Key
         /\ x.pc = "clean" => x.keys \in SUBSET Key
BY DEF Calls, Idle

\* A caller that moves on stays of its type, and the others stay where they are.
LEMMA CallMoves ==
  ASSUME TypeInv, NEW c \in Caller, NEW new \in Calls, Go(c, new)
  PROVE  /\ call' \in [Caller -> Calls]
         /\ call'[c] = new
         /\ \A d \in Caller \ {c} : call'[d] = call[d]
BY DEF TypeInv, Go

\* The next save of a land that keeps Keep rows at most drops one of Most bytes at most.
LEMMA OldestFits ==
  ASSUME TypeInv, NEW l \in Land, Retained(l)
  PROVE  /\ Oldest(l) \subseteq revisions /\ Sized(revisions)
         /\ Bytes(Oldest(l)) \in 0..Most
         /\ Cardinality(RowsOf(l) \ Oldest(l)) <= Keep - 1
<1>1. revisions \in SUBSET Row /\ IsFiniteSet(revisions) BY DEF TypeInv
<1>2. \A r \in revisions : r.size \in Size /\ r.revision \in Nat BY <1>1 DEF Row
<1>3. Sized(revisions) BY <1>1, <1>2, MostBounds DEF Sized
<1> DEFINE R == RowsOf(l)
           D == Oldest(l)
<1>4. R \subseteq revisions /\ D \subseteq R BY DEF RowsOf, Oldest, Beyond
<1>5. IsFiniteSet(R) BY <1>1, <1>4, FS_Subset
<1>6. D = {r \in R : Cardinality({s \in R : s.revision > r.revision}) >= Keep - 1}
  BY DEF Oldest, Beyond
<1>7. Cardinality(R) <= Keep /\ \A r, s \in R : r.revision = s.revision => r = s
  BY DEF Retained
<1> HIDE DEF R, D
<1>8. (\A r, s \in D : r = s) /\ Cardinality(R \ D) <= Keep - 1
  BY ZenonT(90), <1>2, <1>4, <1>5, <1>6, <1>7, OneDropped
<1>9. Bytes(D) \in 0..Most
  <2>1. CASE D = {}
    <3>1. Bytes({}) = 0 BY <1>3, BytesOfOne
    <3> QED BY <2>1, <3>1, MostBounds
  <2>2. CASE D # {}
    <3>1. PICK r \in D : TRUE BY <2>2
    <3>2. D \ {r} = {} BY <1>8
    <3>3. Sized(D) BY <1>3, <1>4, BytesOfPart
    <3>4. Bytes(D) = r.size + Bytes(D \ {r}) BY <3>3, BytesOfOne
    <3>5. Bytes(D \ {r}) = Bytes({}) BY <3>2, Zenon
    <3>6. Bytes({}) = 0 BY <1>3, BytesOfOne
    <3>7. r.size \in Size BY <1>2, <1>4
    <3> QED BY <3>4, <3>5, <3>6, <3>7, MostBounds
  <2> QED BY <2>1, <2>2
<1> QED BY <1>3, <1>4, <1>8, <1>9 DEF R, D

\* Newest is the greatest revision number of a land's rows, or 0.
LEMMA NewestOfLand ==
  ASSUME TypeInv, NEW l \in Land
  PROVE  /\ Newest(RowsOf(l)) \in Nat
         /\ \A r \in RowsOf(l) : r.revision <= Newest(RowsOf(l))
<1> DEFINE R == RowsOf(l)
           T == {r.revision : r \in R}
<1>1. IsFiniteSet(R) /\ \A r \in R : r.revision \in Nat
  <2>1. R \subseteq revisions BY DEF RowsOf
  <2>2. revisions \in SUBSET Row /\ IsFiniteSet(revisions) BY DEF TypeInv
  <2> QED BY <2>1, <2>2, FS_Subset DEF Row
<1> HIDE DEF R
<1>2. IsFiniteSet(T)
  <2> DEFINE f == [r \in R |-> r.revision]
  <2>1. f \in Surjection(R, T) BY DEF Surjection
  <2> HIDE DEF f
  <2> QED BY <1>1, <2>1, FS_Surjection
<1>3. T \subseteq Nat BY <1>1
<1>4. T \union {0} \subseteq Nat /\ IsFiniteSet(T \union {0}) /\ T \union {0} # {}
  BY <1>2, <1>3, FS_AddElement
<1>5. /\ Max(T \union {0}) \in T \union {0}
      /\ \A y \in T \union {0} : Max(T \union {0}) >= y
  BY <1>4, MaxIsGreatest
<1>6. Newest(R) = Max(T \union {0}) BY DEF Newest
<1>7. \A r \in R : r.revision \in T \union {0} OBVIOUS
<1>8. Newest(R) \in Nat /\ \A r \in R : Newest(R) >= r.revision BY <1>4, <1>5, <1>6, <1>7
<1> QED BY <1>1, <1>8 DEF R

-----------------------------------------------------------------------------
(***************************************************************************)
(* What the steps have in common: a step happens elsewhere, or a caller    *)
(* moves aside (it begins, reads, gives up or is done), stores its object, *)
(* or writes its row.                                                      *)
(***************************************************************************)
\* A land is created and then deleted.
LandMoves ==
  /\ land' \in [Land -> {"none", "live", "deleted"}]
  /\ \A l \in Land : land'[l] # land[l] =>
       \/ land[l] = "none" /\ land'[l] = "live"
       \/ land[l] = "live" /\ land'[l] = "deleted"

Elsewhere ==
  /\ LandMoves
  /\ limit' \in Limit /\ highest' \in Limit /\ limit' <= highest' /\ highest <= highest'
  /\ UNCHANGED <<revisions, current, stored, drawn, call, abandoned>>

Holds(c, k) ==
  \/ At(c, "put") /\ call[c].key = k
  \/ At(c, "clean") /\ k \in call[c].keys

Aside(c, new) ==
  /\ Go(c, new)
  /\ new.pc \in {"idle", "begun", "read"}
  /\ new.pc # "idle" => land'[new.land] # "none"
  /\ new.pc = "read" => new.frees = Bytes(Oldest(new.land))
  /\ LandMoves
  /\ stored' \subseteq stored /\ abandoned \subseteq abandoned'
  /\ \A k \in stored : ~Holds(c, k) => k \in stored'
  /\ \A k \in stored' : Holds(c, k) => k \in abandoned'
  /\ UNCHANGED <<revisions, current, drawn, limit, highest>>

\* Nothing but Create, Remove and ChangePlan happens elsewhere.
LEMMA ElsewhereStep ==
  ASSUME TypeInv,
         \/ UNCHANGED vars
         \/ \E l \in Land : Create(l) \/ Remove(l)
         \/ \E bytes \in Limit : ChangePlan(bytes)
  PROVE  Elsewhere
<1>1. highest \in Nat /\ \A n \in Limit : n \in Nat BY SizesAssumption DEF TypeInv
<1>2. CASE UNCHANGED vars
  BY <1>1, <1>2 DEF TypeInv, vars, Elsewhere, LandMoves
<1>3. ASSUME NEW l \in Land, Create(l) \/ Remove(l) PROVE Elsewhere
  <2>1. LandMoves BY <1>3 DEF Create, Remove, TypeInv, LandMoves
  <2>2. UNCHANGED <<revisions, current, stored, drawn, limit, highest, call, abandoned>>
    BY <1>3 DEF Create, Remove
  <2> QED BY <1>1, <2>1, <2>2 DEF TypeInv, Elsewhere
<1>4. ASSUME NEW bytes \in Limit, ChangePlan(bytes) PROVE Elsewhere
  <2>1. limit \in Limit /\ limit <= highest BY DEF TypeInv
  <2>2. {highest, bytes} \subseteq Nat /\ IsFiniteSet({highest, bytes})
    <3>1. {highest, bytes} = {highest} \union {bytes} OBVIOUS
    <3>2. IsFiniteSet({highest} \union {bytes}) BY FS_Singleton, FS_AddElement
    <3> QED BY <1>1, <3>1, <3>2
  <2>3. /\ Max({highest, bytes}) \in {highest, bytes}
        /\ \A y \in {highest, bytes} : Max({highest, bytes}) >= y
    BY <2>2, MaxIsGreatest
  <2>4. highest' = Max({highest, bytes}) /\ limit' = bytes BY <1>4 DEF ChangePlan
  <2>5. /\ highest' \in {highest, bytes}
        /\ \A y \in {highest, bytes} : highest' >= y
    BY <2>3, <2>4
  <2>6. highest' \in Limit BY <2>5 DEF TypeInv
  <2>7. highest' >= bytes /\ highest' >= highest BY <2>5
  <2>8. UNCHANGED <<land, revisions, current, stored, drawn, call, abandoned>>
    BY <1>4 DEF ChangePlan
  <2>9. LandMoves BY <2>8 DEF TypeInv, LandMoves
  <2> QED BY <1>1, <2>4, <2>6, <2>7, <2>8, <2>9 DEF Elsewhere
<1> QED BY <1>2, <1>3, <1>4

\* A caller that begins, reads, gives up or is done moves aside.
LEMMA AsideStep ==
  ASSUME Inv, NEW c \in Caller,
         \/ \E l \in Land, n \in Size : CreateWith(c, l, n) \/ Save(c, l, n)
         \/ \E l \in Land, r \in revisions : Restore(c, l, r)
         \/ SaveRead(c) \/ SaveUndo(c) \/ SaveClean(c) \/ SaveRefused(c) \/ Crash(c)
  PROVE  \E new \in Calls : Aside(c, new)
<1>1. TypeInv /\ call[c] \in Calls BY DEF Inv, TypeInv
<1>2. UNCHANGED land => LandMoves BY <1>1 DEF TypeInv, LandMoves
<1>3. \A k : At(c, "idle") \/ At(c, "begun") => ~Holds(c, k) BY DEF At, Holds
<1>4. ASSUME NEW l \in Land, NEW n \in Size, CreateWith(c, l, n) \/ Save(c, l, n)
      PROVE  \E new \in Calls : Aside(c, new)
  <2> DEFINE new == [pc |-> "begun", land |-> l, size |-> n]
  <2>1. new \in Calls BY DEF Calls
  <2>2. new.pc = "begun" /\ new.land = l OBVIOUS
  <2>3. /\ Go(c, new) /\ At(c, "idle")
        /\ UNCHANGED <<revisions, current, stored, drawn, limit, highest, abandoned>>
    BY <1>4 DEF CreateWith, Save
  <2>4. LandMoves /\ land'[l] # "none"
    <3>1. CASE CreateWith(c, l, n) BY <1>1, <3>1 DEF CreateWith, TypeInv, LandMoves
    <3>2. CASE Save(c, l, n) BY <1>2, <3>2 DEF Save
    <3> QED BY <1>4, <3>1, <3>2
  <2> HIDE DEF new
  <2>5. Aside(c, new) BY <1>3, <2>2, <2>3, <2>4 DEF Aside
  <2> QED BY <2>1, <2>5
<1>5. ASSUME NEW l \in Land, NEW r \in revisions, Restore(c, l, r)
      PROVE  \E new \in Calls : Aside(c, new)
  <2> DEFINE new == [pc |-> "begun", land |-> l, size |-> r.size]
  <2>1. r \in Row BY <1>1 DEF TypeInv
  <2>2. new \in Calls BY <2>1 DEF Calls, Row
  <2>3. new.pc = "begun" /\ new.land = l OBVIOUS
  <2>4. /\ Go(c, new) /\ At(c, "idle") /\ land[l] = "live"
        /\ UNCHANGED <<land, revisions, current, stored, drawn, limit, highest, abandoned>>
    BY <1>5 DEF Restore
  <2> HIDE DEF new
  <2>5. Aside(c, new) BY <1>2, <1>3, <2>3, <2>4 DEF Aside
  <2> QED BY <2>2, <2>5
<1>6. ASSUME SaveRead(c) PROVE \E new \in Calls : Aside(c, new)
  <2> DEFINE l == call[c].land
             new == [pc |-> "read", land |-> l, size |-> call[c].size,
                     frees |-> Bytes(Oldest(l))]
  <2>1. /\ Go(c, new) /\ At(c, "begun") /\ land[l] = "live"
        /\ UNCHANGED <<land, revisions, current, stored, drawn, limit, highest, abandoned>>
    BY <1>6 DEF SaveRead, Oldest
  <2>2. l \in Land /\ call[c].size \in Size BY <1>1, <2>1, CallFacts DEF At
  <2>3. Retained(l) BY <2>2 DEF Inv
  <2>4. Bytes(Oldest(l)) \in 0..Most BY <1>1, <2>2, <2>3, OldestFits
  <2>5. new \in Calls BY <2>2, <2>4 DEF Calls
  <2>6. new.pc = "read" /\ new.land = l /\ new.frees = Bytes(Oldest(l)) OBVIOUS
  <2> HIDE DEF new
  <2>7. new.frees = Bytes(Oldest(new.land)) BY <2>6
  <2>8. land'[new.land] # "none" BY <2>1, <2>6
  <2>9. Aside(c, new) BY <1>2, <1>3, <2>1, <2>6, <2>7, <2>8 DEF Aside
  <2> QED BY <2>5, <2>9
<1>7. ASSUME SaveUndo(c) \/ SaveClean(c) \/ SaveRefused(c) \/ Crash(c)
      PROVE  \E new \in Calls : Aside(c, new)
  <2>1. Go(c, Idle) /\ UNCHANGED <<land, revisions, current, drawn, limit, highest>>
    BY <1>7 DEF SaveUndo, SaveClean, SaveRefused, Crash
  <2>2. Idle \in Calls /\ Idle.pc = "idle" BY DEF Calls, Idle
  <2>3. /\ stored' \subseteq stored /\ abandoned \subseteq abandoned'
        /\ \A k \in stored : ~Holds(c, k) => k \in stored'
        /\ \A k \in stored' : Holds(c, k) => k \in abandoned'
    <3>1. CASE SaveUndo(c) BY <3>1 DEF SaveUndo, Holds, At
    <3>2. CASE SaveClean(c) BY <3>2 DEF SaveClean, Holds, At
    <3>3. CASE SaveRefused(c) BY <3>3 DEF SaveRefused, Holds, At
    <3>4. CASE Crash(c) BY <3>4 DEF Crash, Holds, At
    <3> QED BY <1>7, <3>1, <3>2, <3>3, <3>4
  <2>4. Aside(c, Idle) BY <1>2, <2>1, <2>2, <2>3 DEF Aside
  <2> QED BY <2>2, <2>4
<1> QED BY <1>4, <1>5, <1>6, <1>7

\* There are no other steps.
LEMMA StepKinds ==
  ASSUME Inv, [Next]_vars
  PROVE  \/ Elsewhere
         \/ \E c \in Caller : \/ \E new \in Calls : Aside(c, new)
                              \/ \E k \in Key : SavePut(c, k)
                              \/ SaveWrite(c)
<1>1. TypeInv BY DEF Inv
<1> QED BY <1>1, ElsewhereStep, AsideStep DEF Next

\* The object of a save is stored: what that changes.
LEMMA PutMoves ==
  ASSUME TypeInv, NEW c \in Caller, NEW k \in Key, SavePut(c, k)
  PROVE  \E new \in Calls :
           /\ new.pc = "put" /\ new.key = k
           /\ new.land = call[c].land /\ new.size = call[c].size
           /\ Go(c, new)
<1> DEFINE new == [pc |-> "put", land |-> call[c].land, size |-> call[c].size, key |-> k]
<1>1. Go(c, new) BY DEF SavePut
<1>2. call[c].land \in Land /\ call[c].size \in Size
  <2>1. call[c] \in Calls BY DEF TypeInv
  <2> QED BY <2>1, CallFacts DEF SavePut, At
<1>3. new \in Calls BY <1>2 DEF Calls
<1> QED BY <1>1, <1>3

\* A row is written: what that changes.
LEMMA WriteMoves ==
  ASSUME TypeInv, NEW c \in Caller, SaveWrite(c)
  PROVE  \E l \in Land, row \in Row, new \in Calls :
           /\ At(c, "put") /\ l = call[c].land /\ land[l] = "live"
           /\ row.land = l /\ row.revision = Newest(RowsOf(l)) + 1
           /\ row.key = call[c].key /\ row.size = call[c].size
           /\ new.pc = "clean" /\ new.keys = {r.key : r \in Oldest(l)}
           /\ revisions' = (revisions \ Oldest(l)) \union {row}
           /\ current' = [current EXCEPT ![l] = row.key]
           /\ Go(c, new)
           /\ UNCHANGED <<land, stored, drawn, limit, highest, abandoned>>
<1> DEFINE l == call[c].land
           row == [land |-> l, revision |-> Newest(RowsOf(l)) + 1,
                   key |-> call[c].key, size |-> call[c].size]
           keys == {r.key : r \in Oldest(l)}
           new == [pc |-> "clean", keys |-> keys]
<1>1. /\ At(c, "put") /\ land[l] = "live"
      /\ revisions' = (revisions \ Oldest(l)) \union {row}
      /\ current' = [current EXCEPT ![l] = row.key]
      /\ Go(c, new)
      /\ UNCHANGED <<land, stored, drawn, limit, highest, abandoned>>
  BY DEF SaveWrite, Oldest
<1>2. l \in Land /\ call[c].size \in Size /\ call[c].key \in Key
  <2>1. call[c] \in Calls BY DEF TypeInv
  <2> QED BY <1>1, <2>1, CallFacts DEF At
<1>3. Newest(RowsOf(l)) \in Nat BY <1>2, NewestOfLand
<1>4. row \in Row BY <1>2, <1>3 DEF Row
<1>5. keys \in SUBSET Key BY ZenonT(90) DEF TypeInv, Row, Oldest, Beyond, RowsOf
<1>6. new \in Calls BY <1>5 DEF Calls
<1>7. /\ row.land = l /\ row.revision = Newest(RowsOf(l)) + 1
      /\ row.key = call[c].key /\ row.size = call[c].size
      /\ new.pc = "clean" /\ new.keys = keys
  OBVIOUS
<1> HIDE DEF row, new
<1> QED BY <1>1, <1>2, <1>4, <1>6, <1>7

-----------------------------------------------------------------------------
(***************************************************************************)
(* The steps.                                                              *)
(***************************************************************************)
\* Every step keeps the types.
LEMMA TypeStep == ASSUME Inv, [Next]_vars PROVE TypeInv'
<1>0. TypeInv BY DEF Inv
<1>1. CASE Elsewhere BY <1>0, <1>1 DEF Elsewhere, LandMoves, TypeInv
<1>2. ASSUME NEW c \in Caller, NEW new \in Calls, Aside(c, new) PROVE TypeInv'
  <2>1. call' \in [Caller -> Calls] BY <1>0, <1>2, CallMoves DEF Aside
  <2> QED BY <1>0, <1>2, <2>1 DEF Aside, LandMoves, TypeInv
<1>3. ASSUME NEW c \in Caller, NEW k \in Key, SavePut(c, k) PROVE TypeInv'
  <2>1. call' \in [Caller -> Calls] BY <1>0, <1>3, PutMoves, CallMoves
  <2> QED BY <1>0, <1>3, <2>1 DEF SavePut, TypeInv
<1>4. ASSUME NEW c \in Caller, SaveWrite(c) PROVE TypeInv'
  <2>1. PICK l \in Land, row \in Row, new \in Calls :
          /\ row.key = call[c].key
          /\ revisions' = (revisions \ Oldest(l)) \union {row}
          /\ current' = [current EXCEPT ![l] = row.key]
          /\ Go(c, new)
          /\ UNCHANGED <<land, limit, highest>>
    BY <1>0, <1>4, WriteMoves
  <2>2. call' \in [Caller -> Calls] BY <1>0, <2>1, CallMoves
  <2>3. revisions \in SUBSET Row /\ IsFiniteSet(revisions) BY <1>0 DEF TypeInv
  <2>4. IsFiniteSet(revisions \ Oldest(l)) BY <2>3, FS_Subset
  <2>5. IsFiniteSet(revisions') /\ revisions' \in SUBSET Row
    BY <2>1, <2>3, <2>4, FS_AddElement
  <2>6. current' \in [Land -> Key \union {"none"}] BY <1>0, <2>1 DEF TypeInv, Row
  <2> QED BY <1>0, <2>1, <2>2, <2>5, <2>6 DEF TypeInv
<1> QED BY <1>1, <1>2, <1>3, <1>4, StepKinds

\* Rows and saves stay with lands that were created.
LEMMA PlacedStep == ASSUME Inv, [Next]_vars PROVE Placed'
<1>0. TypeInv /\ Placed BY DEF Inv
<1>a. \A r \in revisions : r.land \in Land BY <1>0 DEF TypeInv, Row
<1>b. \A c \in Caller : At(c, "begun") \/ At(c, "read") \/ At(c, "put") => call[c].land \in Land
  <2>1. \A c \in Caller : call[c] \in Calls BY <1>0 DEF TypeInv
  <2> QED BY <2>1, CallFacts DEF At
<1>1. CASE Elsewhere
  BY <1>0, <1>1, <1>a, <1>b DEF Elsewhere, LandMoves, Placed, At
<1>2. ASSUME NEW c \in Caller, NEW new \in Calls, Go(c, new), UNCHANGED revisions, LandMoves,
             new.pc \in {"begun", "read", "put"} => land'[new.land] # "none"
      PROVE  Placed'
  <2>1. call'[c] = new /\ \A d \in Caller \ {c} : call'[d] = call[d] BY <1>0, <1>2, CallMoves
  <2>2. \A l \in Land : land[l] # "none" => land'[l] # "none" BY <1>2 DEF LandMoves
  <2>3. \A r \in revisions' : land'[r.land] # "none" BY <1>0, <1>2, <1>a, <2>2 DEF Placed
  <2>4. ASSUME NEW d \in Caller, call'[d].pc \in {"begun", "read", "put"}
        PROVE  land'[call'[d].land] # "none"
    <3>1. CASE d = c BY <1>2, <2>1, <2>4, <3>1
    <3>2. CASE d # c
      <4>1. call[d].pc \in {"begun", "read", "put"} /\ call'[d] = call[d] BY <2>1, <2>4, <3>2
      <4>2. land[call[d].land] # "none" /\ call[d].land \in Land
        BY <1>0, <1>b, <4>1 DEF Placed, At
      <4> QED BY <2>2, <4>1, <4>2
    <3> QED BY <3>1, <3>2
  <2> QED BY <2>3, <2>4 DEF Placed, At
<1>3. ASSUME NEW c \in Caller, NEW new \in Calls, Aside(c, new) PROVE Placed'
  <2>1. /\ Go(c, new) /\ UNCHANGED revisions /\ LandMoves
        /\ new.pc # "idle" => land'[new.land] # "none"
    BY <1>3 DEF Aside
  <2> QED BY <1>2, <2>1
<1>4. ASSUME NEW c \in Caller, NEW k \in Key, SavePut(c, k) PROVE Placed'
  <2>1. PICK new \in Calls : new.land = call[c].land /\ Go(c, new) BY <1>0, <1>4, PutMoves
  <2>2. At(c, "read") /\ UNCHANGED <<land, revisions>> BY <1>4 DEF SavePut
  <2>3. land[new.land] # "none" BY <1>0, <2>1, <2>2 DEF Placed
  <2>4. LandMoves BY <1>0, <2>2 DEF TypeInv, LandMoves
  <2> QED BY <1>2, <2>1, <2>2, <2>3, <2>4
<1>5. ASSUME NEW c \in Caller, SaveWrite(c) PROVE Placed'
  <2>1. PICK l \in Land, row \in Row, new \in Calls :
          /\ land[l] = "live" /\ row.land = l /\ new.pc = "clean"
          /\ revisions' = (revisions \ Oldest(l)) \union {row}
          /\ Go(c, new) /\ UNCHANGED land
    BY <1>0, <1>5, WriteMoves
  <2>2. call'[c] = new /\ \A d \in Caller \ {c} : call'[d] = call[d] BY <1>0, <2>1, CallMoves
  <2>3. \A r \in revisions' : land'[r.land] # "none" BY <1>0, <2>1 DEF Placed
  <2>4. ASSUME NEW d \in Caller, call'[d].pc \in {"begun", "read", "put"}
        PROVE  land'[call'[d].land] # "none"
    <3>1. d # c BY <2>1, <2>2, <2>4
    <3> QED BY <1>0, <2>1, <2>2, <2>4, <3>1 DEF Placed, At
  <2> QED BY <2>3, <2>4 DEF Placed, At
<1> QED BY <1>1, <1>3, <1>4, <1>5, StepKinds

\* No key is shared, whoever stores, writes or deletes.
LEMMA KeysStep == ASSUME Inv, [Next]_vars PROVE KeysInv'
<1>0. TypeInv /\ KeysInv BY DEF Inv
<1>1. CASE Elsewhere BY <1>0, <1>1 DEF Elsewhere, KeysInv, At
<1>2. ASSUME NEW c \in Caller, NEW new \in Calls, Aside(c, new) PROVE KeysInv'
  <2>1. call'[c] = new /\ \A d \in Caller \ {c} : call'[d] = call[d]
    BY <1>0, <1>2, CallMoves DEF Aside
  <2>2. new.pc \notin {"put", "clean"} /\ UNCHANGED <<revisions, drawn>>
        /\ \A k \in stored : ~Holds(c, k) => k \in stored'
    BY <1>2 DEF Aside
  <2>3. \A d \in Caller : call'[d].pc \in {"put", "clean"} => d # c /\ call'[d] = call[d]
    BY <2>1, <2>2
  <2>4. \A r \in revisions : r.key \in stored' \cap drawn
    BY <1>0, <2>2 DEF KeysInv, Holds
  <2>5. ASSUME NEW d \in Caller, call'[d].pc = "put" PROVE call[d].key \in stored' \cap drawn
    <3>1. d # c /\ At(d, "put") BY <2>3, <2>5 DEF At
    <3>2. call[d].key \in stored \cap drawn BY <1>0, <3>1 DEF KeysInv
    <3>3. ~Holds(c, call[d].key) BY <1>0, <3>1 DEF KeysInv, Holds
    <3> QED BY <2>2, <3>2, <3>3
  <2> QED BY <1>0, <2>2, <2>3, <2>4, <2>5 DEF KeysInv, At
<1>3. ASSUME NEW c \in Caller, NEW k \in Key, SavePut(c, k) PROVE KeysInv'
  <2>1. PICK new \in Calls : new.pc = "put" /\ new.key = k /\ Go(c, new)
    BY <1>0, <1>3, PutMoves
  <2>2. call'[c] = new /\ \A d \in Caller \ {c} : call'[d] = call[d] BY <1>0, <2>1, CallMoves
  <2>3. /\ k \notin drawn /\ stored' = stored \union {k} /\ drawn' = drawn \union {k}
        /\ UNCHANGED revisions
    BY <1>3 DEF SavePut
  <2>4. \A r \in revisions : r.key # k BY <1>0, <2>3 DEF KeysInv
  <2>5. \A d \in Caller : call[d].pc = "put" => call[d].key # k BY <1>0, <2>3 DEF KeysInv, At
  <2>6. \A d \in Caller : call[d].pc = "clean" => k \notin call[d].keys
    BY <1>0, <2>3 DEF KeysInv, At
  <2>7. ASSUME NEW d \in Caller, call'[d].pc = "put"
        PROVE  /\ call'[d].key \in stored' \cap drawn'
               /\ \A r \in revisions' : r.key # call'[d].key
               /\ \A e \in Caller : call'[e].pc = "put" /\ call'[e].key = call'[d].key => e = d
    <3>1. CASE d = c BY <2>1, <2>2, <2>3, <2>4, <2>5, <3>1
    <3>2. CASE d # c BY <1>0, <2>1, <2>2, <2>3, <2>5, <2>7, <3>2 DEF KeysInv, At
    <3> QED BY <3>1, <3>2
  <2>8. ASSUME NEW d \in Caller, call'[d].pc = "clean"
        PROVE  /\ call'[d].keys \subseteq drawn'
               /\ \A r \in revisions' : r.key \notin call'[d].keys
               /\ \A e \in Caller : call'[e].pc = "put" => call'[e].key \notin call'[d].keys
    <3>1. d # c /\ call'[d] = call[d] BY <2>1, <2>2, <2>8
    <3>2. k \notin call[d].keys BY <2>6, <2>8, <3>1
    <3> QED BY <1>0, <2>1, <2>2, <2>3, <2>8, <3>1, <3>2 DEF KeysInv, At
  <2>9. /\ \A r \in revisions' : r.key \in stored' \cap drawn'
        /\ \A r, s \in revisions' : r.key = s.key => r = s
    BY <1>0, <2>3 DEF KeysInv
  <2> QED BY <2>7, <2>8, <2>9 DEF KeysInv, At
<1>4. ASSUME NEW c \in Caller, SaveWrite(c) PROVE KeysInv'
  <2>1. PICK l \in Land, row \in Row, new \in Calls :
          /\ At(c, "put") /\ row.key = call[c].key
          /\ new.pc = "clean" /\ new.keys = {r.key : r \in Oldest(l)}
          /\ revisions' = (revisions \ Oldest(l)) \union {row}
          /\ Go(c, new) /\ UNCHANGED <<stored, drawn>>
    BY <1>0, <1>4, WriteMoves
  <2>2. call'[c] = new /\ \A d \in Caller \ {c} : call'[d] = call[d] BY <1>0, <2>1, CallMoves
  <2>3. Oldest(l) \subseteq revisions BY DEF Oldest, Beyond, RowsOf
  <2>4. /\ row.key \in stored \cap drawn
        /\ \A r \in revisions : r.key # row.key
        /\ \A d \in Caller : call[d].pc = "put" /\ call[d].key = row.key => d = c
        /\ \A d \in Caller : call[d].pc = "clean" => row.key \notin call[d].keys
    BY <1>0, <2>1 DEF KeysInv, At
  <2>5. /\ \A r \in revisions' : r.key \in stored' \cap drawn'
        /\ \A r, s \in revisions' : r.key = s.key => r = s
    BY <1>0, <2>1, <2>4 DEF KeysInv
  <2>6. ASSUME NEW d \in Caller, call'[d].pc = "put"
        PROVE  /\ call'[d].key \in stored' \cap drawn'
               /\ \A r \in revisions' : r.key # call'[d].key
               /\ \A e \in Caller : call'[e].pc = "put" /\ call'[e].key = call'[d].key => e = d
    <3>1. d # c /\ call'[d] = call[d] BY <2>1, <2>2, <2>6
    <3>2. call[d].key # row.key BY <2>4, <2>6, <3>1
    <3> QED BY <1>0, <2>1, <2>2, <2>6, <3>1, <3>2 DEF KeysInv, At
  <2>7. new.keys \subseteq drawn BY <1>0, <2>1, <2>3 DEF KeysInv
  <2>8. \A r \in revisions' : r.key \notin new.keys
    <3>1. \A r \in revisions \ Oldest(l) : r.key \notin new.keys
      BY <1>0, <2>1, <2>3 DEF KeysInv
    <3>2. row.key \notin new.keys BY <2>1, <2>3, <2>4
    <3> QED BY <2>1, <3>1, <3>2
  <2>9. \A e \in Caller : call[e].pc = "put" => call[e].key \notin new.keys
    BY <1>0, <2>1, <2>3 DEF KeysInv, At
  <2>10. ASSUME NEW d \in Caller, call'[d].pc = "clean"
         PROVE  /\ call'[d].keys \subseteq drawn'
                /\ \A r \in revisions' : r.key \notin call'[d].keys
                /\ \A e \in Caller : call'[e].pc = "put" => call'[e].key \notin call'[d].keys
    <3>1. \A e \in Caller : call'[e].pc = "put" => e # c /\ call'[e] = call[e] BY <2>1, <2>2
    <3>2. CASE d = c BY <2>1, <2>2, <2>7, <2>8, <2>9, <3>1, <3>2
    <3>3. CASE d # c BY <1>0, <2>1, <2>2, <2>4, <2>10, <3>1, <3>3 DEF KeysInv, At
    <3> QED BY <3>2, <3>3
  <2> QED BY <2>5, <2>6, <2>10 DEF KeysInv, At
<1> QED BY <1>1, <1>2, <1>3, <1>4, StepKinds

\* A land keeps Keep revisions and shows the newest one.
LEMMA RetainedStep == ASSUME Inv, [Next]_vars, NEW m \in Land PROVE Retained(m)'
<1>0. TypeInv /\ Retained(m) BY DEF Inv
<1>1. ASSUME UNCHANGED <<revisions, current>> PROVE Retained(m)'
  BY <1>0, <1>1 DEF Retained, RowsOf
<1>2. ASSUME NEW c \in Caller, SaveWrite(c) PROVE Retained(m)'
  <2>1. PICK l \in Land, row \in Row :
          /\ row.land = l /\ row.revision = Newest(RowsOf(l)) + 1
          /\ revisions' = (revisions \ Oldest(l)) \union {row}
          /\ current' = [current EXCEPT ![l] = row.key]
    BY <1>0, <1>2, WriteMoves
  <2>2. Oldest(l) \subseteq RowsOf(l) BY DEF Oldest, Beyond
  <2>3. CASE m # l
    <3>1. RowsOf(m)' = RowsOf(m) BY <2>1, <2>2, <2>3 DEF RowsOf
    <3>2. current'[m] = current[m] BY <1>0, <2>1, <2>3 DEF TypeInv
    <3> QED BY <1>0, <3>1, <3>2 DEF Retained
  <2>4. CASE m = l
    <3> DEFINE R == RowsOf(l)
               K == R \ Oldest(l)
               Q == RowsOf(l)'
    <3>1. Q = K \union {row} BY <2>1, <2>2 DEF RowsOf
    <3>2. Retained(l) BY <1>0, <2>4
    <3>3. Cardinality(K) <= Keep - 1 BY <1>0, <3>2, OldestFits
    <3>4. IsFiniteSet(K) /\ K \subseteq R
      <4>1. IsFiniteSet(revisions) /\ K \subseteq revisions BY <1>0 DEF TypeInv, RowsOf
      <4> QED BY <4>1, FS_Subset
    <3>5. Newest(R) \in Nat /\ \A r \in R : r.revision <= Newest(R) BY <1>0, NewestOfLand
    <3>6. \A r \in R : r.revision \in Nat BY <1>0 DEF TypeInv, RowsOf, Row
    <3>7. \A r, s \in R : r.revision = s.revision => r = s BY <3>2 DEF Retained
    <3>7a. \A r \in R : r.revision < row.revision
      <4>1. row.revision = Newest(R) + 1 BY <2>1
      <4> HIDE DEF R
      <4> QED BY <3>5, <3>6, <4>1
    <3>7b. row.revision \in Nat BY DEF Row
    <3>8. \A r \in Q : r.revision \in Nat /\ r.revision <= row.revision
      <4> HIDE DEF R, K, Q
      <4>1. \A r \in R : r.revision <= row.revision BY <3>6, <3>7a, <3>7b
      <4> QED BY <3>1, <3>4, <3>6, <3>7b, <4>1
    <3>9. \A r, s \in Q : r.revision = s.revision => r = s
      <4> HIDE DEF R, K, Q
      <4>1. \A r \in R : r.revision # row.revision BY <3>6, <3>7a, <3>7b
      <4> QED BY <3>1, <3>4, <3>7, <4>1
    <3>10. Cardinality(Q) <= Keep
      <4>1. Cardinality(K) \in Nat /\ Keep \in Nat BY <3>4, FS_CardinalityType, KeepAssumption
      <4>2. Cardinality(K \union {row}) <= Cardinality(K) + 1
        <5> HIDE DEF K
        <5>1. Cardinality(K \union {row})
                = IF row \in K THEN Cardinality(K) ELSE Cardinality(K) + 1
          BY <3>4, FS_AddElement
        <5> QED BY <4>1, <5>1
      <4>3. Cardinality(Q) = Cardinality(K \union {row}) BY <3>1, Zenon
      <4>4. Cardinality(K \union {row}) \in Nat BY <3>4, FS_AddElement, FS_CardinalityType
      <4> QED BY <3>3, <4>1, <4>2, <4>3, <4>4
    <3>11. Newest(Q) = row.revision
      <4> DEFINE T == {r.revision : r \in Q} \union {0}
      <4>1. T \subseteq Nat /\ row.revision \in T BY <3>1, <3>8
      <4>2. \A n \in T : n <= row.revision BY <3>8, <4>1
      <4>3. \A n \in T : row.revision >= n BY <4>1, <4>2
      <4>4. Max(T) \in T /\ \A n \in T : Max(T) >= n BY <4>1, <4>3 DEF Max
      <4>5. Max(T) = row.revision
        <5> HIDE DEF T
        <5>1. Max(T) \in Nat /\ Max(T) <= row.revision /\ Max(T) >= row.revision
          BY <4>1, <4>2, <4>4
        <5> QED BY <3>7b, <5>1
      <4> QED BY <4>5 DEF Newest
    <3>12. row \in Q /\ row.key = current'[l] BY <1>0, <2>1, <3>1 DEF TypeInv
    <3> HIDE DEF R, K
    <3> QED BY <2>4, <3>9, <3>10, <3>11, <3>12 DEF Retained
  <2> QED BY <2>3, <2>4
<1> QED BY <1>1, <1>2, StepKinds DEF Elsewhere, Aside, SavePut

\* Every object stays accounted for.
LEMMA AccountedStep == ASSUME Inv, [Next]_vars PROVE ObjectsAccounted'
<1>0. TypeInv BY DEF Inv
<1>a. ASSUME NEW k \in stored
      PROVE  \/ \E r \in revisions : r.key = k
             \/ k \in abandoned
             \/ \E c \in Caller : Holds(c, k)
  BY DEF Inv, ObjectsAccounted, Holds
<1>b. SUFFICES ASSUME NEW k \in stored'
               PROVE  \/ \E r \in revisions' : r.key = k
                      \/ k \in abandoned'
                      \/ \E c \in Caller : Holds(c, k)'
  BY DEF ObjectsAccounted, Holds
<1>1. CASE Elsewhere BY <1>a, <1>1 DEF Elsewhere, Holds, At
<1>2. ASSUME NEW c \in Caller, NEW new \in Calls, Aside(c, new)
      PROVE  \/ \E r \in revisions' : r.key = k
             \/ k \in abandoned'
             \/ \E d \in Caller : Holds(d, k)'
  <2>1. call'[c] = new /\ \A d \in Caller \ {c} : call'[d] = call[d]
    BY <1>0, <1>2, CallMoves DEF Aside
  <2>2. /\ k \in stored /\ abandoned \subseteq abandoned' /\ UNCHANGED revisions
        /\ Holds(c, k) => k \in abandoned'
    BY <1>2 DEF Aside
  <2>3. ASSUME NEW d \in Caller, Holds(d, k) PROVE k \in abandoned' \/ Holds(d, k)'
    <3>1. CASE d = c BY <2>2, <2>3, <3>1
    <3>2. CASE d # c BY <2>1, <2>3, <3>2 DEF Holds, At
    <3> QED BY <3>1, <3>2
  <2> QED BY <1>a, <2>2, <2>3
<1>3. ASSUME NEW c \in Caller, NEW j \in Key, SavePut(c, j)
      PROVE  \/ \E r \in revisions' : r.key = k
             \/ k \in abandoned'
             \/ \E d \in Caller : Holds(d, k)'
  <2>1. PICK new \in Calls : new.pc = "put" /\ new.key = j /\ Go(c, new)
    BY <1>0, <1>3, PutMoves
  <2>2. call'[c] = new /\ \A d \in Caller \ {c} : call'[d] = call[d] BY <1>0, <2>1, CallMoves
  <2>3. At(c, "read") /\ stored' = stored \union {j} /\ UNCHANGED <<revisions, abandoned>>
    BY <1>3 DEF SavePut
  <2>4. CASE k = j BY <2>1, <2>2, <2>4 DEF Holds, At
  <2>5. CASE k # j
    <3>1. k \in stored BY <2>3, <2>5
    <3>2. \A d \in Caller : Holds(d, k) => Holds(d, k)' BY <2>2, <2>3 DEF Holds, At
    <3> QED BY <1>a, <2>3, <3>1, <3>2
  <2> QED BY <2>4, <2>5
<1>4. ASSUME NEW c \in Caller, SaveWrite(c)
      PROVE  \/ \E r \in revisions' : r.key = k
             \/ k \in abandoned'
             \/ \E d \in Caller : Holds(d, k)'
  <2>1. PICK l \in Land, row \in Row, new \in Calls :
          /\ At(c, "put") /\ row.key = call[c].key
          /\ new.pc = "clean" /\ new.keys = {r.key : r \in Oldest(l)}
          /\ revisions' = (revisions \ Oldest(l)) \union {row}
          /\ Go(c, new) /\ UNCHANGED <<stored, abandoned>>
    BY <1>0, <1>4, WriteMoves
  <2>2. call'[c] = new /\ \A d \in Caller \ {c} : call'[d] = call[d] BY <1>0, <2>1, CallMoves
  <2>3. ASSUME NEW r \in revisions, r.key = k, r \in Oldest(l) PROVE Holds(c, k)'
    BY <2>1, <2>2, <2>3 DEF Holds, At
  <2>4. ASSUME NEW d \in Caller, Holds(d, k)
        PROVE  (\E r \in revisions' : r.key = k) \/ Holds(d, k)'
    <3>1. CASE d = c
      <4>1. row.key = k BY <2>1, <2>4, <3>1 DEF Holds, At
      <4> QED BY <2>1, <4>1
    <3>2. CASE d # c BY <2>2, <2>4, <3>2 DEF Holds, At
    <3> QED BY <3>1, <3>2
  <2>5. k \in stored BY <2>1
  <2> QED BY <1>a, <2>1, <2>3, <2>4, <2>5
<1> QED BY <1>1, <1>2, <1>3, <1>4, StepKinds

-----------------------------------------------------------------------------
(***************************************************************************)
(* The quota.                                                              *)
(***************************************************************************)
\* What the saves need to know of the rows.
LEMMA RowsFacts ==
  ASSUME Inv
  PROVE  /\ Sized(revisions)
         /\ \A r \in revisions : r.land \in Land
         /\ LiveRows \subseteq revisions /\ Used = Bytes(LiveRows)
         /\ \A l \in Land : /\ Oldest(l) \subseteq revisions
                            /\ Bytes(Oldest(l)) \in 0..Most
                            /\ land[l] = "live" => Oldest(l) \subseteq LiveRows
         /\ \A G : Left(G) \subseteq LiveRows
<1>1. TypeInv /\ \A l \in Land : Retained(l) BY DEF Inv
<1>2. revisions \in SUBSET Row /\ IsFiniteSet(revisions) BY <1>1 DEF TypeInv
<1>3. \A r \in revisions : r.size \in Size /\ r.land \in Land BY <1>2 DEF Row
<1>4. Sized(revisions) BY <1>2, <1>3, MostBounds DEF Sized
<1>5. \A l \in Land : Oldest(l) \subseteq revisions /\ Bytes(Oldest(l)) \in 0..Most
  BY <1>1, OldestFits
<1>6. \A l \in Land : land[l] = "live" => Oldest(l) \subseteq LiveRows
  BY DEF Oldest, Beyond, RowsOf, LiveRows
<1>7. LiveRows \subseteq revisions /\ Used = Bytes(LiveRows) BY DEF LiveRows, Used
<1> QED BY <1>3, <1>4, <1>5, <1>6, <1>7 DEF Left

\* The ceiling is an integer that only rises.
LEMMA CeilingRises ==
  ASSUME TypeInv, TypeInv', highest <= highest'
  PROVE  /\ Ceiling \in Int /\ Ceiling' \in Int /\ Ceiling <= Ceiling'
         /\ highest \in Nat /\ limit \in Nat /\ limit <= highest
<1>1. /\ highest \in Nat /\ highest' \in Nat
      /\ limit \in Nat /\ limit <= highest
  BY SizesAssumption DEF TypeInv
<1>2. Cardinality(Caller) - 1 \in Int BY CallersAssumption, FS_CardinalityType
<1>3. Slack(Cardinality(Caller) - 1) \in Int BY <1>2, SlackSteps
<1> QED BY <1>1, <1>3 DEF Ceiling

\* There are no more admitted saves than callers, and each has a size.
LEMMA AdmittedFacts ==
  ASSUME Inv, NEW G \in SUBSET Admitted
  PROVE  /\ G \subseteq Caller /\ IsFiniteSet(G)
         /\ Cardinality(G) \in Nat /\ Cardinality(G) <= Cardinality(Caller)
         /\ Cardinality(Caller) \in Nat
         /\ Slack(Cardinality(G) - 1) \in Int
         /\ \A c \in G : call[c].size \in 0..Most /\ call[c].land \in Land
<1>1. G \subseteq Caller BY DEF Admitted
<1>2. /\ IsFiniteSet(G) /\ Cardinality(G) \in Nat /\ Cardinality(Caller) \in Nat
      /\ Cardinality(G) <= Cardinality(Caller)
  BY <1>1, CallersAssumption, FS_Subset, FS_CardinalityType
<1>3. Slack(Cardinality(G) - 1) \in Int BY <1>2, SlackSteps
<1>4. \A c \in G : call[c] \in Calls /\ call[c].pc = "put"
  BY <1>1 DEF Inv, TypeInv, Admitted, At
<1>5. \A c \in G : call[c].size \in Size /\ call[c].land \in Land BY <1>4, CallFacts
<1> QED BY <1>1, <1>2, <1>3, <1>5, MostBounds

\* Rows that go make room.
LEMMA RoomStays ==
  ASSUME Inv, TypeInv', NEW G \in SUBSET Admitted, Room(G),
         Left(G)' \subseteq Left(G), \A c \in G : call'[c] = call[c], highest <= highest'
  PROVE  Room(G)'
<1> DEFINE a == Bytes(Left(G))
           b == Bytes(Left(G)')
<1>1. Sized(Left(G)) BY RowsFacts, BytesOfPart
<1>2. a \in Nat /\ b \in Nat /\ b <= a BY <1>1, BytesOfPart
<1>3. Ceiling \in Int /\ Ceiling' \in Int /\ Ceiling <= Ceiling' BY CeilingRises DEF Inv
<1>4. \A c \in G : call[c].size \in Nat BY AdmittedFacts, MostBounds
<1>4a. Slack(Cardinality(G) - 1) \in Int BY AdmittedFacts
<1> HIDE DEF a, b
<1>5. G = {} => b <= Ceiling'
  <2>1. G = {} => a <= Ceiling BY DEF Room, a
  <2> QED BY <1>2, <1>3, <2>1
<1>6. ASSUME G # {} PROVE \E c \in G : b + call'[c].size + Slack(Cardinality(G) - 1) <= Ceiling'
  <2>1. PICK c \in G : a + call[c].size + Slack(Cardinality(G) - 1) <= Ceiling
    BY <1>6 DEF Room, a
  <2>2. call'[c] = call[c] /\ call[c].size \in Nat BY <1>4
  <2>3. b + call'[c].size + Slack(Cardinality(G) - 1) <= Ceiling'
    BY <1>2, <1>3, <1>4a, <2>1, <2>2
  <2> QED BY <2>3
<1> QED BY <1>5, <1>6 DEF Room, b

\* Steps that neither admit a save nor write a row leave the room there was.
LEMMA AdmittedStay ==
  ASSUME Inv, TypeInv', UNCHANGED revisions, LandMoves, highest <= highest',
         \A c \in Caller : call'[c].pc = "put" => call'[c] = call[c]
  PROVE  \A G \in SUBSET Admitted' : Room(G)'
<1> SUFFICES ASSUME NEW G \in SUBSET Caller, G \subseteq Admitted' PROVE Room(G)'
  BY DEF Admitted
<1>1. Placed /\ TypeInv BY DEF Inv
<1>2. \A c \in Caller : call[c].pc = "put" => call[c].land \in Land
  <2>1. \A c \in Caller : call[c] \in Calls BY <1>1 DEF TypeInv
  <2> QED BY <2>1, CallFacts
<1>3. \A l \in Land : land'[l] = "live" /\ land[l] # "none" => land[l] = "live" BY DEF LandMoves
<1>4. \A c \in G : call'[c] = call[c] /\ call[c].pc = "put" BY DEF Admitted, At
<1>5. G \subseteq Admitted BY <1>1, <1>2, <1>3, <1>4 DEF Admitted, At, Placed
<1>6. Left(G)' \subseteq Left(G)
  <2>1. \A r \in revisions : r.land \in Land /\ land[r.land] # "none"
    BY <1>1, RowsFacts DEF Placed
  <2>2. LiveRows' \subseteq LiveRows BY <1>3, <2>1 DEF LiveRows
  <2>3. \A l : Oldest(l)' = Oldest(l) BY DEF Oldest, Beyond, RowsOf
  <2> QED BY <1>4, <2>2, <2>3 DEF Left, Oldest, Beyond, RowsOf
<1>7. Room(G) BY <1>5 DEF Inv, QuotaInv
<1> QED BY <1>4, <1>5, <1>6, <1>7, RoomStays

\* Nothing that happens elsewhere makes a save less fresh.
LEMMA FreshStays ==
  ASSUME Inv, TypeInv', NEW c \in Caller, Fresh(c), UNCHANGED revisions, LandMoves,
         highest <= highest', call'[c] = call[c]
  PROVE  Fresh(c)'
<1> DEFINE l == call[c].land
<1>1. Placed /\ TypeInv /\ call[c] \in Calls BY DEF Inv, TypeInv
<1>2. (At(c, "read") \/ At(c, "put")) /\ (At(c, "read") \/ At(c, "put"))' BY DEF Fresh, At
<1>3. l \in Land /\ land[l] # "none" /\ call[c].size \in Nat
  BY <1>1, <1>2, CallFacts, MostBounds DEF Placed, At
<1>4. land'[l] = "live" => land[l] = "live" BY <1>3 DEF LandMoves
<1>5. At(c, "read") /\ land'[l] = "live" => call[c].frees = Bytes(Oldest(l))
  BY <1>4 DEF Fresh
<1>6. ASSUME At(c, "put"), land'[l] = "live"
      PROVE  Bytes(LiveRows' \ Oldest(l)) + call[c].size <= highest'
  <2>1. Bytes(LiveRows \ Oldest(l)) + call[c].size <= highest BY <1>4, <1>6 DEF Fresh
  <2>2. \A r \in revisions : r.land \in Land /\ land[r.land] # "none"
    BY <1>1, RowsFacts DEF Placed
  <2>3. LiveRows' \subseteq LiveRows BY <2>2 DEF LiveRows, LandMoves
  <2> DEFINE P == LiveRows \ Oldest(l)
             Q == LiveRows' \ Oldest(l)
  <2>4. P \subseteq revisions /\ Sized(revisions) /\ Q \subseteq P BY <2>3, RowsFacts
  <2> HIDE DEF P, Q
  <2>5. Sized(P) BY <2>4, BytesOfPart
  <2>6. Bytes(P) \in Nat /\ Bytes(Q) \in Nat /\ Bytes(Q) <= Bytes(P) BY <2>4, <2>5, BytesOfPart
  <2>7. highest \in Nat /\ highest' \in Nat BY <1>1, SizesAssumption DEF TypeInv
  <2>8. Bytes(P) + call[c].size <= highest BY <2>1 DEF P
  <2>9. Bytes(Q) + call[c].size <= highest' BY <1>3, <2>6, <2>7, <2>8
  <2> QED BY <2>9 DEF Q
<1>7. Oldest(l)' = Oldest(l)
  BY DEF Oldest, Beyond, RowsOf
<1> QED BY <1>2, <1>5, <1>6, <1>7 DEF Fresh, At

\* A save that is admitted fits whichever others write theirs; a fresh save is still fresh when
\* its object is stored.
LEMMA PutKeepsQuota ==
  ASSUME Inv, TypeInv', NEW c \in Caller, NEW k \in Key, SavePut(c, k)
  PROVE  QuotaInv'
<1> DEFINE l == call[c].land
           n == call[c].size
<1>0. TypeInv /\ QuotaInv /\ call[c] \in Calls BY DEF Inv, TypeInv
<1>1. PICK new \in Calls : /\ new.pc = "put" /\ new.land = l /\ new.size = n
                           /\ Go(c, new)
  BY <1>0, PutMoves
<1>2. call'[c] = new /\ \A d \in Caller \ {c} : call'[d] = call[d] BY <1>0, <1>1, CallMoves
<1>3. /\ At(c, "read") /\ Used - call[c].frees + n <= limit
      /\ UNCHANGED <<land, revisions, limit, highest>>
  BY DEF SavePut, Admits
<1>4. l \in Land /\ n \in 0..Most /\ call[c].frees \in 0..Most
  BY <1>0, <1>3, CallFacts, MostBounds DEF At
<1>5. /\ Used \in Nat /\ Used = Bytes(LiveRows) /\ Sized(LiveRows) /\ Sized(revisions)
  BY RowsFacts, BytesOfPart
<1>6. /\ Ceiling \in Int /\ highest \in Nat /\ limit \in Nat /\ limit <= highest
      /\ Ceiling' = Ceiling
  <2>1. highest \in Nat /\ highest <= highest' BY <1>0, <1>3, SizesAssumption DEF TypeInv
  <2>2. Ceiling' = Ceiling BY <1>3 DEF Ceiling
  <2> QED BY <1>0, <2>1, <2>2, CeilingRises
<1>7. \A m : Oldest(m)' = Oldest(m) BY <1>3 DEF Oldest, Beyond, RowsOf
<1>8. LiveRows' = LiveRows BY <1>3 DEF LiveRows
<1>9. ASSUME NEW d \in Caller, d # c, Fresh(d) PROVE Fresh(d)'
  <2>1. LandMoves BY <1>0, <1>3 DEF TypeInv, LandMoves
  <2> QED BY <1>2, <1>3, <1>6, <1>9, <2>1, FreshStays
<1>10. ASSUME Fresh(c) PROVE Fresh(c)'
  <2>1. ASSUME land[l] = "live" PROVE Bytes(LiveRows \ Oldest(l)) + n <= highest
    <3>1. call[c].frees = Bytes(Oldest(l)) BY <1>3, <1>10, <2>1 DEF Fresh
    <3>2. Oldest(l) \subseteq LiveRows BY <1>4, <2>1, RowsFacts
    <3>3. Bytes(LiveRows \ Oldest(l)) = Used - call[c].frees
      BY <1>5, <3>1, <3>2, BytesOfPart
    <3>4. Bytes(LiveRows \ Oldest(l)) + n <= limit BY <1>3, <3>3
    <3>5. Bytes(LiveRows \ Oldest(l)) \in Nat BY <1>5, <3>2, BytesOfPart
    <3> QED BY <1>4, <1>6, <3>4, <3>5
  <2>2. call'[c].pc = "put" /\ call'[c].land = l /\ call'[c].size = n BY <1>1, <1>2
  <2>3. Oldest(l)' = Oldest(l) BY <1>3, <2>2 DEF Oldest, Beyond, RowsOf
  <2>4. land'[l] = "live" => Bytes(LiveRows' \ Oldest(l)) + n <= highest'
    BY <1>3, <1>8, <2>1
  <2> QED BY <2>2, <2>3, <2>4 DEF Fresh, At
<1>11. ASSUME \A d \in Caller : (At(d, "read") \/ At(d, "put"))'
       PROVE  \E d \in Caller : Fresh(d)'
  <2>1. \A d \in Caller : At(d, "read") \/ At(d, "put") BY <1>2, <1>3, <1>11 DEF At
  <2>2. PICK d \in Caller : Fresh(d) BY <1>0, <2>1 DEF QuotaInv
  <2> QED BY <1>9, <1>10, <2>2
<1>12. ASSUME NEW G \in SUBSET Caller, G \subseteq Admitted' PROVE Room(G)'
  <2>1. \A d \in G : d # c => d \in Admitted BY <1>2, <1>3, <1>12 DEF Admitted, At
  <2>2. Left(G)' \subseteq LiveRows BY <1>8 DEF Left
  <2> DEFINE b == Bytes(Left(G)')
  <2>3. b \in Nat /\ b <= Used BY <1>5, <2>2, BytesOfPart
  <2>4. CASE c \notin G
    <3>1. G \in SUBSET Admitted /\ \A d \in G : call'[d] = call[d] BY <1>2, <2>1, <2>4
    <3>2. Left(G)' \subseteq Left(G)
      BY <1>3, <1>8, <3>1 DEF Left, Oldest, Beyond, RowsOf
    <3>3. Room(G) BY <1>0, <3>1 DEF QuotaInv
    <3> QED BY <1>3, <1>6, <3>1, <3>2, <3>3, RoomStays
  <2>5. CASE c \in G
    <3>1. IsFiniteSet(G) /\ Cardinality(G) \in Nat /\ Cardinality(Caller) \in Nat
      BY CallersAssumption, FS_Subset, FS_CardinalityType
    <3> DEFINE g == Cardinality(G)
               m == Cardinality(Caller)
    <3>2. Slack(g - 1) \in Int /\ Slack(g) = Slack(g - 1) + Most /\ Slack(m - 1) \in Int
      <4>1. g - 1 \in Int /\ (g - 1) + 1 = g /\ m - 1 \in Int BY <3>1
      <4> HIDE DEF g, m
      <4> QED BY <4>1, SlackSteps
    <3>3. CASE G # Caller
      <4>1. g <= m - 1
        <5>1. g <= m /\ g # m BY <3>3, CallersAssumption, FS_Subset
        <5> QED BY <3>1, <5>1
      <4>2. Slack(g) <= Slack(m - 1)
        <5>1. g \in Int /\ m - 1 \in Int BY <3>1
        <5> HIDE DEF g, m
        <5> QED BY <4>1, <5>1, SlackSteps
      <4>3. b + n <= highest + Most
        <5> HIDE DEF b, n
        <5> QED BY <1>3, <1>4, <1>5, <1>6, <2>3, MostBounds
      <4>4. Ceiling = highest + Slack(m - 1) BY DEF Ceiling
      <4>5. b + n + Slack(g - 1) <= Ceiling
        <5>1. Slack(g) \in Int BY <3>1, SlackSteps
        <5> HIDE DEF b, n, g, m
        <5> QED BY <1>4, <1>6, <2>3, <3>2, <4>2, <4>3, <4>4, <5>1, MostBounds
      <4>6. call'[c].size = n BY <1>1, <1>2
      <4>7. b + call'[c].size + Slack(g - 1) <= Ceiling' BY <1>6, <4>5, <4>6
      <4> QED BY <2>5, <4>7 DEF Room
    <3>4. CASE G = Caller
      <4>1. \A d \in Caller : (At(d, "put"))' /\ land[call'[d].land] = "live"
        BY <1>3, <1>12, <3>4 DEF Admitted
      <4>2. PICK d \in Caller : Fresh(d)' BY <1>11, <4>1
      <4> DEFINE e == call'[d].land
                 P == LiveRows \ Oldest(e)
      <4>3. Oldest(call[d].land)' = Oldest(e) BY <1>3 DEF Oldest, Beyond, RowsOf
      <4>4. Bytes(P) + call'[d].size <= highest
        BY <1>3, <1>8, <4>1, <4>2, <4>3 DEF Fresh
      <4>5. Left(G)' \subseteq P BY <1>8, <3>4, <4>3 DEF Left
      <4>6. Sized(P) /\ Bytes(P) \in Nat BY <1>5, BytesOfPart
      <4>7. b <= Bytes(P)
        <5> HIDE DEF P
        <5> QED BY <4>5, <4>6, BytesOfPart
      <4>8. call'[d].size \in Nat
        <5>1. call'[d] \in Calls BY DEF TypeInv
        <5>2. call'[d].size \in Size BY <4>1, <5>1, CallFacts DEF At
        <5> QED BY <5>2, MostBounds
      <4>9. Ceiling = highest + Slack(g - 1) BY <3>4 DEF Ceiling
      <4>10. b + call'[d].size + Slack(g - 1) <= Ceiling'
        <5> HIDE DEF b, P, g
        <5> QED BY <1>6, <2>3, <3>2, <4>4, <4>6, <4>7, <4>8, <4>9
      <4>11. G # {} /\ d \in G BY <3>4
      <4> QED BY <4>10, <4>11 DEF Room
    <3> QED BY <3>3, <3>4
  <2> QED BY <2>4, <2>5
<1>13. \A G \in SUBSET Admitted' : G \in SUBSET Caller BY DEF Admitted
<1> QED BY <1>11, <1>12, <1>13 DEF QuotaInv

\* What a save writes was accounted for when it was admitted.
LEMMA WriteKeepsQuota ==
  ASSUME Inv, TypeInv', NEW c \in Caller, SaveWrite(c)
  PROVE  QuotaInv'
<1>0. TypeInv /\ QuotaInv BY DEF Inv
<1>1. PICK l \in Land, row \in Row, new \in Calls :
        /\ At(c, "put") /\ l = call[c].land /\ land[l] = "live"
        /\ row.land = l /\ row.size = call[c].size /\ new.pc = "clean"
        /\ revisions' = (revisions \ Oldest(l)) \union {row}
        /\ Go(c, new)
        /\ UNCHANGED <<land, highest>>
  BY <1>0, WriteMoves
<1>2. call'[c] = new /\ \A d \in Caller \ {c} : call'[d] = call[d] BY <1>0, <1>1, CallMoves
<1>3. c \in Admitted BY <1>1 DEF Admitted
<1>4. Ceiling' = Ceiling /\ Ceiling \in Int
  <2>1. highest <= highest' BY <1>0, <1>1, SizesAssumption DEF TypeInv
  <2> QED BY <1>0, <1>1, <2>1, CeilingRises DEF Ceiling
<1>5. ASSUME NEW G \in SUBSET Caller, G \subseteq Admitted' PROVE Room(G)'
  <2>1. c \notin G BY <1>1, <1>2, <1>5 DEF Admitted, At
  <2>2. \A d \in G : call'[d] = call[d] /\ d \in Admitted
    BY <1>1, <1>2, <1>5, <2>1 DEF Admitted, At
  <2> DEFINE H == G \union {c}
             R == Left(H) \union {row}
             a == Bytes(Left(H))
             b == Bytes(Left(G)')
             g == Cardinality(G)
  <2>3. H \in SUBSET Admitted /\ G \in SUBSET Admitted BY <1>3, <2>2
  <2>4. Left(G)' \subseteq R
    <3> SUFFICES ASSUME NEW r \in revisions \ Oldest(l), land[r.land] = "live",
                        \A d \in G : r \notin Oldest(call[d].land)'
                 PROVE  r \in Left(H)
      BY <1>1 DEF Left, LiveRows
    <3>1. r \in LiveRows BY DEF LiveRows
    <3>2. r \notin Oldest(call[c].land) BY <1>1
    <3>3. ASSUME NEW d \in G, r \in Oldest(call[d].land) PROVE FALSE
      <4>1. r.land = call[d].land BY <3>3 DEF Oldest, Beyond, RowsOf
      <4>2. call[d].land # l BY <3>3, <1>1
      <4>3. call'[d] = call[d] BY <2>2
      <4>4. PICK e : e = call[d].land OBVIOUS
      <4>5. Oldest(l) \subseteq RowsOf(l) BY DEF Oldest, Beyond
      <4>6. RowsOf(e)' = RowsOf(e) BY <1>1, <4>2, <4>4, <4>5 DEF RowsOf
      <4>7. Oldest(e)' = Oldest(e) BY <4>6 DEF Oldest, Beyond
      <4>8. Oldest(call[d].land)' = Oldest(e)' BY <4>3, <4>4 DEF Oldest, Beyond, RowsOf
      <4> QED BY <3>3, <4>4, <4>7, <4>8
    <3> QED BY <3>1, <3>2, <3>3 DEF Left
  <2>5. row.size \in 0..Most
    <3>1. row.size \in Size BY DEF Row
    <3> QED BY <3>1, MostBounds
  <2>6. a \in Nat /\ b \in Nat /\ b <= a + row.size
    <3>1. Sized(Left(H)) BY RowsFacts, BytesOfPart
    <3>2. Sized({row}) /\ Sized(R)
      <4>1. IsFiniteSet(Left(H)) /\ IsFiniteSet({row}) /\ IsFiniteSet(R)
        BY <3>1, FS_AddElement, FS_Singleton DEF Sized
      <4> HIDE DEF H
      <4> QED BY <2>5, <3>1, <4>1 DEF Sized
    <3>3. a \in Nat /\ Bytes(R) \in Nat BY <3>1, <3>2, BytesType
    <3>4. Bytes(R) <= a + row.size
      <4>1. CASE row \in Left(H)
        <5>1. R = Left(H) BY <4>1
        <5>2. Bytes(R) = a BY <5>1, Zenon
        <5> HIDE DEF a, R
        <5> QED BY <2>5, <3>3, <5>2
      <4>2. CASE row \notin Left(H)
        <5>1. row \in R /\ R \ {row} = Left(H) BY <4>2
        <5>2. Bytes(R) = row.size + Bytes(R \ {row}) BY <3>2, <5>1, BytesOfOne
        <5>3. Bytes(R \ {row}) = a BY <5>1, Zenon
        <5> HIDE DEF a, R
        <5> QED BY <2>5, <3>3, <5>2, <5>3
      <4> QED BY <4>1, <4>2
    <3>5. b \in Nat /\ b <= Bytes(R)
      <4> HIDE DEF R
      <4> QED BY <2>4, <3>2, BytesOfPart
    <3> HIDE DEF a, b, R
    <3> QED BY <2>5, <3>3, <3>4, <3>5
  <2>7. /\ g \in Nat /\ Cardinality(H) = g + 1
        /\ \A d \in H : call[d].size \in 0..Most
    <3>1. IsFiniteSet(G) /\ g \in Nat BY <2>3, AdmittedFacts
    <3>2. Cardinality(H) = g + 1 BY <2>1, <3>1, FS_AddElement
    <3> QED BY <2>3, <3>1, <3>2, AdmittedFacts
  <2>8. PICK d \in H : a + call[d].size + Slack(g) <= Ceiling
    <3>1. Room(H) /\ H # {} BY <1>0, <2>3 DEF QuotaInv
    <3>2. PICK d \in H : a + call[d].size + Slack(Cardinality(H) - 1) <= Ceiling
      BY <3>1 DEF Room
    <3>3. Cardinality(H) - 1 = g
      <4> HIDE DEF g, H
      <4> QED BY <2>7
    <3>4. Slack(Cardinality(H) - 1) = Slack(g) BY <3>3, Zenon
    <3> QED BY <3>2, <3>4
  <2>9. /\ Slack(g) \in Int /\ Slack(0) = 0
        /\ Slack(g - 1) \in Int /\ Slack(g) = Slack(g - 1) + Most
        /\ Slack(g) >= 0
    <3>1. g - 1 \in Int /\ (g - 1) + 1 = g BY <2>7
    <3> HIDE DEF g
    <3> QED BY <2>7, <3>1, SlackSteps
  <2>10. call[d].size \in 0..Most BY <2>7
  <2>11. CASE d = c
    <3>1. b + Slack(g) <= Ceiling
      <4>1. row.size = call[d].size BY <1>1, <2>11
      <4> HIDE DEF a, b, g, H
      <4> QED BY <1>4, <2>5, <2>6, <2>8, <2>9, <4>1
    <3>2. G = {} => b <= Ceiling
      <4> HIDE DEF a, b, g, H
      <4> QED BY <1>4, <2>6, <2>9, <3>1
    <3>3. ASSUME G # {}
          PROVE  \E e \in G : b + call'[e].size + Slack(g - 1) <= Ceiling
      <4>1. PICK e \in G : TRUE BY <3>3
      <4>2. call'[e] = call[e] /\ call[e].size \in 0..Most BY <2>2, <2>7
      <4>3. b + call'[e].size + Slack(g - 1) <= Ceiling
        <5> HIDE DEF a, b, g, H
        <5> QED BY <1>4, <2>6, <2>9, <3>1, <4>2, MostBounds
      <4> QED BY <4>3
    <3> QED BY <1>4, <3>2, <3>3 DEF Room
  <2>12. CASE d # c
    <3>1. d \in G /\ call'[d] = call[d] BY <2>2, <2>12
    <3>2. b + call'[d].size + Slack(g - 1) <= Ceiling
      <4> HIDE DEF a, b, g, H
      <4> QED BY <1>4, <2>5, <2>6, <2>8, <2>9, <2>10, <3>1, MostBounds
    <3> QED BY <1>4, <3>1, <3>2 DEF Room
  <2> QED BY <2>11, <2>12
<1>6. \A G \in SUBSET Admitted' : G \in SUBSET Caller BY DEF Admitted
<1>7. ~(At(c, "read") \/ At(c, "put"))' BY <1>1, <1>2 DEF At
<1> QED BY <1>5, <1>6, <1>7 DEF QuotaInv

\* The bytes stay below the ceiling whatever the step is.
LEMMA QuotaStep == ASSUME Inv, TypeInv', [Next]_vars PROVE QuotaInv'
<1>0. TypeInv /\ QuotaInv BY DEF Inv
<1>a. highest \in Nat BY <1>0, SizesAssumption DEF TypeInv
<1>1. CASE Elsewhere
  <2>1. UNCHANGED <<revisions, call>> /\ LandMoves /\ highest <= highest'
    BY <1>1 DEF Elsewhere
  <2>2. \A G \in SUBSET Admitted' : Room(G)' BY <2>1, AdmittedStay
  <2>3. \A c \in Caller : Fresh(c) => Fresh(c)' BY <2>1, FreshStays
  <2>4. \A c \in Caller : (At(c, "read") \/ At(c, "put"))' => At(c, "read") \/ At(c, "put")
    BY <2>1 DEF At
  <2> QED BY <1>0, <2>2, <2>3, <2>4 DEF QuotaInv
<1>2. ASSUME NEW c \in Caller, NEW new \in Calls, Aside(c, new) PROVE QuotaInv'
  <2>1. /\ UNCHANGED <<revisions, highest>> /\ LandMoves
        /\ new.pc \in {"idle", "begun", "read"}
        /\ new.pc = "read" => new.frees = Bytes(Oldest(new.land))
    BY <1>2 DEF Aside
  <2>2. call'[c] = new BY <1>0, <1>2, CallMoves DEF Aside
  <2>3. \A d \in Caller \ {c} : call'[d] = call[d] BY <1>0, <1>2, CallMoves DEF Aside
  <2>4. \A d \in Caller : call'[d].pc = "put" => call'[d] = call[d] BY <2>1, <2>2, <2>3
  <2>5. highest <= highest' BY <1>a, <2>1
  <2>6. \A G \in SUBSET Admitted' : Room(G)' BY <2>1, <2>4, <2>5, AdmittedStay
  <2>7. ASSUME (At(c, "read") \/ At(c, "put"))' PROVE Fresh(c)'
    <3>1. new.pc = "read" BY <2>1, <2>2, <2>7 DEF At
    <3>2. PICK l : l = new.land OBVIOUS
    <3>3. Oldest(l)' = Oldest(l) BY <2>1 DEF Oldest, Beyond, RowsOf
    <3>4. Oldest(call[c].land)' = Oldest(l)' BY <2>2, <3>2 DEF Oldest, Beyond, RowsOf
    <3>5. call'[c].frees = Bytes(Oldest(l)) BY <2>1, <2>2, <3>1, <3>2
    <3>6. call'[c].pc = "read" BY <2>2, <3>1
    <3> QED BY <3>3, <3>4, <3>5, <3>6 DEF Fresh, At
  <2> QED BY <2>6, <2>7 DEF QuotaInv
<1>3. ASSUME NEW c \in Caller, NEW k \in Key, SavePut(c, k) PROVE QuotaInv'
  BY <1>3, PutKeepsQuota
<1>4. ASSUME NEW c \in Caller, SaveWrite(c) PROVE QuotaInv'
  BY <1>4, WriteKeepsQuota
<1> QED BY <1>1, <1>2, <1>3, <1>4, StepKinds

-----------------------------------------------------------------------------
(***************************************************************************)
(* The theorems.                                                           *)
(***************************************************************************)
\* The invariant holds at the start.
LEMMA InitInv == Init => Inv
<1> SUFFICES ASSUME Init PROVE Inv OBVIOUS
<1>1. Idle \in Calls /\ Idle.pc = "idle" BY DEF Calls, Idle
<1>2. \A n \in Limit : n \in Nat BY SizesAssumption
<1>3. TypeInv BY <1>1, <1>2, FS_EmptySet DEF Init, TypeInv
<1>4. \A c \in Caller : call[c] = Idle BY DEF Init
<1>5. Placed /\ KeysInv BY <1>1, <1>4 DEF Init, Placed, KeysInv, At
<1>6. ObjectsAccounted BY DEF Init, ObjectsAccounted
<1>7. ASSUME NEW l \in Land PROVE Retained(l)
  <2>1. RowsOf(l) = {} BY DEF Init, RowsOf
  <2>2. Cardinality({}) = 0 BY FS_EmptySet
  <2>3. Cardinality(RowsOf(l)) = 0 BY <2>1, <2>2, Zenon
  <2> QED BY <2>1, <2>3, KeepAssumption DEF Retained
<1>8. QuotaInv
  <2>1. Admitted = {} BY <1>1, <1>4 DEF Admitted, At
  <2>2. PICK c \in Caller : TRUE BY CallersAssumption
  <2>3. ~(At(c, "read") \/ At(c, "put")) BY <1>1, <1>4 DEF At
  <2>4. Bytes(Left({})) <= Ceiling
    <3>1. Left({}) = {} BY DEF Left, LiveRows, Init
    <3>2. Sized({}) BY FS_EmptySet DEF Sized
    <3>3. Bytes({}) = 0 BY <3>2, BytesOfOne
    <3>4. Bytes(Left({})) = 0 BY <3>1, <3>3, Zenon
    <3>5. Cardinality(Caller) - 1 \in Nat
      <4>1. Cardinality(Caller) \in Nat /\ Cardinality(Caller) # 0
        BY CallersAssumption, FS_CardinalityType, FS_EmptySet
      <4> QED BY <4>1
    <3>6. highest \in Nat BY <1>2, <1>3 DEF TypeInv
    <3>7. Slack(Cardinality(Caller) - 1) \in Int /\ Slack(Cardinality(Caller) - 1) >= 0
      BY <3>5, SlackSteps
    <3> QED BY <3>4, <3>6, <3>7 DEF Ceiling
  <2>5. Room({}) BY <2>4 DEF Room
  <2> QED BY <2>1, <2>3, <2>5 DEF QuotaInv
<1> QED BY <1>3, <1>5, <1>6, <1>7, <1>8 DEF Inv

\* The invariant, for any number of lands, keys, saves in flight and revisions kept.
THEOREM LandsInvariance == Spec => []Inv
<1>1. Inv /\ [Next]_vars => Inv'
  <2> SUFFICES ASSUME Inv, [Next]_vars PROVE Inv' OBVIOUS
  <2>1. TypeInv' BY TypeStep
  <2>2. Placed' /\ KeysInv' BY PlacedStep, KeysStep
  <2>3. \A l \in Land : Retained(l)' BY RetainedStep
  <2>4. ObjectsAccounted' BY AccountedStep
  <2>5. QuotaInv' BY <2>1, QuotaStep
  <2> QED BY <2>1, <2>2, <2>3, <2>4, <2>5 DEF Inv
<1> QED BY <1>1, InitInv, PTL DEF Spec

\* Whatever saves, restores, failures and crashes overlap, a row never outlives its object and
\* each land keeps and shows its newest revisions (a save that throws has not committed).
THEOREM RevisionsCanBeOpened == Spec => []RevisionsReadable
<1>1. Inv => RevisionsReadable
  <2> SUFFICES ASSUME Inv PROVE RevisionsReadable OBVIOUS
  <2>1. \A r \in revisions : r.key \in stored BY DEF Inv, KeysInv
  <2>2. \A l \in Land : Retained(l) BY DEF Inv
  <2> QED BY <2>1, <2>2 DEF RevisionsReadable, Retained
<1> QED BY <1>1, LandsInvariance, PTL

\* An object without a row belongs to a save that runs, or to one that failed to delete it.
THEOREM NoObjectIsForgotten == Spec => []ObjectsAccounted
<1>1. Inv => ObjectsAccounted BY DEF Inv
<1> QED BY <1>1, LandsInvariance, PTL

\* Saves that overlap pass the highest limit by no more than all but one of them can write, even
\* though each counted on freeing the bytes it had read.
THEOREM OverlapBoundsOverrun == Spec => []QuotaHeld
<1>1. Inv => QuotaHeld
  <2> SUFFICES ASSUME Inv PROVE QuotaHeld OBVIOUS
  <2>1. Room({}) BY DEF Inv, QuotaInv
  <2>2. Left({}) = LiveRows BY DEF Left
  <2>3. Bytes(Left({})) <= Ceiling BY <2>1 DEF Room
  <2>4. Used = Bytes(Left({})) BY <2>2, RowsFacts
  <2> QED BY <2>3, <2>4 DEF QuotaHeld, Ceiling, Slack, Most
<1> QED BY <1>1, LandsInvariance, PTL

-----------------------------------------------------------------------------
(***************************************************************************)
(* Subscriptions: the inductive invariant.                                 *)
(***************************************************************************)
OrderRow ==
  [status : {"NONE", "CREATED", "PENDING_PAYMENT", "PAID", "FAILED"},
   payment : Payment \union {"none"}, expired : BOOLEAN]
GrantKey == [order : Order, day : Nat]
SubscriptionRow == [status : {"ACTIVE", "CANCELED"}, key : GrantKey]
Announcement == [id : Event, payment : Payment, successful : BOOLEAN]

Starting ==
  [pc : {"idle"}] \union [pc : {"asking"}, order : Order]
    \union [pc : {"created"}, order : Order, payment : Payment]

Handling(announced) ==
  [pc : {"idle"}]
    \union [pc : {"lookup", "insert", "verify", "cancel", "commit", "grant"},
            event : announced, day : Nat, active : SUBSET Nat]

SubscriptionTypes ==
  /\ order \in [Order -> OrderRow]
  /\ attempt \in [Payment -> {"NONE", "PENDING", "FAILED", "SUCCEEDED"}]
  /\ webhook \in [Event -> {"NONE", "RECEIVED", "PROCESSED"}]
  /\ subscription \in Seq(SubscriptionRow)
  /\ userPlan \in Order \union {"FREE"}
  /\ granted \subseteq GrantKey
  /\ issued \in [Payment -> Order \union {"none"}]
  /\ sent \subseteq Announcement
  /\ today \in Nat
  /\ starting \in [Payer -> Starting]
  /\ handler \in [Handler -> Handling(sent)]

\* What was announced belongs to a payment the provider issued, under an id of its own, and the
\* database has rows for announced events only.
Announced ==
  /\ \A a \in sent : issued[a.payment] \in Order
  /\ \A a, b \in sent : a.id = b.id => a = b
  /\ \A e \in Event : webhook[e] # "NONE" => \E a \in sent : a.id = e

\* A handler activates for a success, and grants for a subscription that was committed.
Activating(h) ==
  /\ handler[h].pc \in {"cancel", "commit", "grant"} => handler[h].event.successful
  /\ HandlerAt(h, "grant") => \E i \in DOMAIN subscription : subscription[i].key = KeyOf(h)

\* Each ACTIVE row has a handler to answer for it, and no two rows have the same.  A handler
\* about to commit has seen the row that is its own, and will cancel it.
Answers(f) ==
  /\ \A i, j \in ActiveRows : f[i] = f[j] => i = j
  /\ \A h \in Handler, i \in ActiveRows :
       HandlerAt(h, "commit") /\ f[i] = h => i \in handler[h].active
AnsweredFor == \E f \in [ActiveRows -> Handler] : Answers(f)

NewestIsPlan ==
  /\ subscription = <<>> => userPlan = "FREE"
  /\ subscription # <<>> =>
       /\ subscription[Len(subscription)].status = "ACTIVE"
       /\ subscription[Len(subscription)].key.order = userPlan

SubscriptionsInv ==
  /\ SubscriptionTypes
  /\ Announced
  /\ SubscribedIffProcessed
  /\ \A h \in Handler : Activating(h)
  /\ AnsweredFor
  /\ NewestIsPlan

-----------------------------------------------------------------------------
\* A request in flight is about an announced event, of a payment for an order.
LEMMA FlightOf ==
  ASSUME SubscriptionTypes, Announced, NEW h \in Handler, ~HandlerAt(h, "idle")
  PROVE  /\ handler[h].event \in sent /\ EventOf(h) \in Event /\ PaymentOf(h) \in Payment
         /\ OrderOf(h) \in Order /\ KeyOf(h) \in GrantKey
         /\ handler[h].active \subseteq Nat
<1>1. handler[h] \in Handling(sent) BY DEF SubscriptionTypes
<1>2. /\ handler[h].event \in sent /\ handler[h].day \in Nat
      /\ handler[h].active \subseteq Nat
  BY <1>1 DEF Handling, HandlerAt
<1>3. handler[h].event \in Announcement BY <1>2 DEF SubscriptionTypes
<1>4. OrderOf(h) \in Order BY <1>2 DEF Announced, OrderOf, PaymentOf
<1>5. KeyOf(h) \in GrantKey BY <1>2, <1>4 DEF KeyOf, GrantKey
<1> QED BY <1>2, <1>3, <1>4, <1>5 DEF Announcement, EventOf, PaymentOf

\* A request that goes on keeps what it knows; one that ends knows nothing.
LEMMA HandlerMoves ==
  ASSUME SubscriptionTypes, NEW h \in Handler
  PROVE  /\ \A pc \in {"lookup", "insert", "verify", "cancel", "commit", "grant"} :
              ~HandlerAt(h, "idle") /\ HandlerGo(h, pc) =>
                /\ handler' \in [Handler -> Handling(sent)]
                /\ handler'[h].pc = pc /\ handler'[h].event = handler[h].event
                /\ handler'[h].day = handler[h].day /\ handler'[h].active = handler[h].active
                /\ \A g \in Handler : g # h => handler'[g] = handler[g]
         /\ End(h) =>
              /\ handler' \in [Handler -> Handling(sent)]
              /\ handler'[h].pc = "idle"
              /\ \A g \in Handler : g # h => handler'[g] = handler[g]
<1>1. handler \in [Handler -> Handling(sent)] BY DEF SubscriptionTypes
<1>2. ASSUME NEW pc \in {"lookup", "insert", "verify", "cancel", "commit", "grant"},
             ~HandlerAt(h, "idle"), HandlerGo(h, pc)
      PROVE  /\ handler' \in [Handler -> Handling(sent)]
             /\ handler'[h].pc = pc /\ handler'[h].event = handler[h].event
             /\ handler'[h].day = handler[h].day /\ handler'[h].active = handler[h].active
             /\ \A g \in Handler : g # h => handler'[g] = handler[g]
  <2> DEFINE row == [handler[h] EXCEPT !.pc = pc]
  <2>1. /\ row \in Handling(sent) /\ row.pc = pc /\ row.event = handler[h].event
        /\ row.day = handler[h].day /\ row.active = handler[h].active
    BY <1>1, <1>2 DEF HandlerAt, Handling
  <2>2. handler' = [handler EXCEPT ![h] = row] BY <1>2 DEF HandlerGo
  <2> HIDE DEF row
  <2> QED BY <1>1, <2>1, <2>2
<1>3. ASSUME End(h)
      PROVE  /\ handler' \in [Handler -> Handling(sent)]
             /\ handler'[h].pc = "idle"
             /\ \A g \in Handler : g # h => handler'[g] = handler[g]
  <2>1. NoRequest \in Handling(sent) /\ NoRequest.pc = "idle" BY DEF NoRequest, Handling
  <2> QED BY <1>1, <1>3, <2>1 DEF End
<1> QED BY <1>2, <1>3

\* Order rows stay rows when columns are written.
LEMMA OrderRowsWritten ==
  ASSUME NEW row \in OrderRow, NEW p \in Payment,
         NEW st \in {"NONE", "CREATED", "PENDING_PAYMENT", "PAID", "FAILED"}
  PROVE  /\ [row EXCEPT !.status = st] \in OrderRow
         /\ [row EXCEPT !.expired = TRUE] \in OrderRow
         /\ [row EXCEPT !.status = st, !.payment = p] \in OrderRow
<1>1. [row EXCEPT !.status = st] \in OrderRow BY DEF OrderRow
<1>2. [row EXCEPT !.expired = TRUE] \in OrderRow BY DEF OrderRow
<1>3. [row EXCEPT !.status = st, !.payment = p] \in OrderRow BY DEF OrderRow
<1> QED BY <1>1, <1>2, <1>3

\* The subscriptions after a commit: what the handler saw ACTIVE is CANCELED, and the new one is
\* last and ACTIVE.
LEMMA CommittedRows ==
  ASSUME SubscriptionTypes, NEW h \in Handler, KeyOf(h) \in GrantKey,
         subscription' = Append(CanceledRows(h), [status |-> "ACTIVE", key |-> KeyOf(h)])
  PROVE  /\ subscription' \in Seq(SubscriptionRow)
         /\ Len(subscription') = Len(subscription) + 1
         /\ subscription'[Len(subscription')] = [status |-> "ACTIVE", key |-> KeyOf(h)]
         /\ \A i \in DOMAIN subscription :
              /\ i \in DOMAIN subscription' /\ subscription'[i].key = subscription[i].key
              /\ subscription'[i].status = "ACTIVE" <=> IsActive(i) /\ i \notin handler[h].active
<1> DEFINE rest == CanceledRows(h)
           new == [status |-> "ACTIVE", key |-> KeyOf(h)]
<1>1. subscription \in Seq(SubscriptionRow) /\ Len(subscription) \in Nat
  BY DEF SubscriptionTypes
<1>2. /\ DOMAIN rest = DOMAIN subscription
      /\ \A i \in DOMAIN subscription :
           rest[i] = IF i \in handler[h].active
                     THEN [subscription[i] EXCEPT !.status = "CANCELED"] ELSE subscription[i]
  BY DEF CanceledRows
<1>3. \A i \in DOMAIN subscription : subscription[i] \in SubscriptionRow
  BY <1>1
<1>4. \A i \in DOMAIN subscription :
        /\ rest[i] \in SubscriptionRow /\ rest[i].key = subscription[i].key
        /\ rest[i].status = "ACTIVE" <=> IsActive(i) /\ i \notin handler[h].active
  BY <1>2, <1>3 DEF SubscriptionRow, IsActive
<1> HIDE DEF rest
<1>5. rest \in Seq(SubscriptionRow) /\ Len(rest) = Len(subscription)
  <2>1. DOMAIN subscription = 1 .. Len(subscription) BY <1>1
  <2>2. rest = [i \in 1 .. Len(subscription) |-> rest[i]] BY <2>1 DEF rest, CanceledRows
  <2>3. rest \in [1 .. Len(subscription) -> SubscriptionRow] BY <1>4, <2>1, <2>2
  <2> QED BY <1>1, <2>3
<1>6. new \in SubscriptionRow BY DEF SubscriptionRow
<1> HIDE DEF new
<1>7. subscription' = Append(rest, new) BY DEF rest, new
<1>8. /\ subscription' \in Seq(SubscriptionRow) /\ Len(subscription') = Len(subscription) + 1
      /\ subscription'[Len(subscription) + 1] = new
      /\ \A i \in DOMAIN subscription : i \in DOMAIN subscription' /\ subscription'[i] = rest[i]
  <2>1. /\ subscription' \in Seq(SubscriptionRow) /\ Len(subscription') = Len(rest) + 1
        /\ subscription'[Len(rest) + 1] = new
        /\ \A i \in 1 .. Len(rest) : subscription'[i] = rest[i]
    <3>1. rest \in Seq(SubscriptionRow) /\ new \in SubscriptionRow BY <1>5, <1>6
    <3>2. /\ Append(rest, new) \in Seq(SubscriptionRow)
          /\ Len(Append(rest, new)) = Len(rest) + 1
          /\ \A i \in 1 .. Len(rest) : Append(rest, new)[i] = rest[i]
          /\ Append(rest, new)[Len(rest) + 1] = new
      BY ONLY <3>1, AppendProperties
    <3> QED BY <1>7, <3>2
  <2>2. DOMAIN subscription = 1 .. Len(rest) BY <1>1, <1>5
  <2>3. DOMAIN subscription' = 1 .. Len(subscription') BY <2>1
  <2>4. \A i \in DOMAIN subscription : i \in DOMAIN subscription'
    BY <1>1, <1>5, <2>1, <2>2, <2>3
  <2> QED BY <1>5, <2>1, <2>2, <2>4
<1> QED BY <1>4, <1>8 DEF new

-----------------------------------------------------------------------------
\* Every step keeps the types.
LEMMA SubscriptionTypesStep ==
  ASSUME SubscriptionTypes, Announced, SubscriptionsNext
  PROVE  SubscriptionTypes'
<1>a. /\ order \in [Order -> OrderRow]
      /\ attempt \in [Payment -> {"NONE", "PENDING", "FAILED", "SUCCEEDED"}]
      /\ webhook \in [Event -> {"NONE", "RECEIVED", "PROCESSED"}]
      /\ issued \in [Payment -> Order \union {"none"}]
      /\ starting \in [Payer -> Starting]
      /\ handler \in [Handler -> Handling(sent)]
  BY DEF SubscriptionTypes
<1>b. NoRequest \in Starting BY DEF NoRequest, Starting
<1>1. ASSUME NEW o \in Order, CreateOrder(o) \/ OrderExpires(o) PROVE SubscriptionTypes'
  <2> DEFINE created == [order[o] EXCEPT !.status = "CREATED"]
             expired == [order[o] EXCEPT !.expired = TRUE]
  <2>1. created \in OrderRow /\ expired \in OrderRow
    <3>1. order[o] \in OrderRow BY <1>a
    <3>2. created \in OrderRow BY <3>1 DEF OrderRow
    <3>3. expired \in OrderRow BY <3>1 DEF OrderRow
    <3> QED BY <3>2, <3>3
  <2>2. \/ order' = [order EXCEPT ![o] = created]
        \/ order' = [order EXCEPT ![o] = expired]
    BY <1>1 DEF CreateOrder, OrderExpires
  <2> HIDE DEF created, expired
  <2>3. order' \in [Order -> OrderRow] BY <1>a, <2>1, <2>2
  <2> QED BY <1>1, <2>3 DEF CreateOrder, OrderExpires, provider, SubscriptionTypes
<1>2. ASSUME NEW o \in Order, NEW c \in Payer, StartPaymentRead(c, o) PROVE SubscriptionTypes'
  <2>1. [pc |-> "asking", order |-> o] \in Starting BY DEF Starting
  <2>2. starting' \in [Payer -> Starting] BY <1>a, <1>2, <2>1 DEF StartPaymentRead
  <2> QED BY <1>2, <2>2 DEF StartPaymentRead, tables, provider, SubscriptionTypes
<1>3. ASSUME NEW c \in Payer, StartPaymentCreate(c) PROVE SubscriptionTypes'
  <2> DEFINE o == starting[c].order
  <2>1. o \in Order BY <1>a, <1>3 DEF StartPaymentCreate, Starting
  <2>2. PICK p \in Payment :
          /\ issued' = [issued EXCEPT ![p] = o] /\ sent' = sent
          /\ starting' = [starting EXCEPT ![c] = [pc |-> "created", order |-> o, payment |-> p]]
    BY <1>3 DEF StartPaymentCreate, Issue
  <2>3. [pc |-> "created", order |-> o, payment |-> p] \in Starting BY <2>1 DEF Starting
  <2>4. starting' \in [Payer -> Starting] BY <1>a, <2>2, <2>3
  <2>5. issued' \in [Payment -> Order \union {"none"}] BY <1>a, <2>1, <2>2
  <2> QED BY <1>3, <2>2, <2>4, <2>5 DEF StartPaymentCreate, tables, SubscriptionTypes
<1>4. ASSUME NEW c \in Payer, StartPaymentWrite(c) PROVE SubscriptionTypes'
  <2> DEFINE o == starting[c].order
             p == starting[c].payment
             row == [order[o] EXCEPT !.status = "PENDING_PAYMENT", !.payment = p]
  <2>1. o \in Order /\ p \in Payment BY SMTT(30), <1>a, <1>4 DEF StartPaymentWrite, Starting
  <2>2. row \in OrderRow BY <1>a, <2>1, OrderRowsWritten
  <2>3. /\ order' = [order EXCEPT ![o] = row]
        /\ attempt' = [attempt EXCEPT ![p] = "PENDING"]
        /\ starting' = [starting EXCEPT ![c] = NoRequest]
    BY <1>4 DEF StartPaymentWrite
  <2> HIDE DEF row, o, p
  <2>4. order' \in [Order -> OrderRow] BY <1>a, <2>2, <2>3
  <2>5. attempt' \in [Payment -> {"NONE", "PENDING", "FAILED", "SUCCEEDED"}] BY <1>a, <2>3
  <2>6. starting' \in [Payer -> Starting] BY <1>a, <1>b, <2>3
  <2> QED BY <1>4, <2>4, <2>5, <2>6 DEF StartPaymentWrite, provider, SubscriptionTypes
<1>5. CASE PaymentAnnounced
  <2>1. PICK e \in Event, p \in Payment, successful \in BOOLEAN :
          /\ sent' = sent \union {[id |-> e, payment |-> p, successful |-> successful]}
          /\ issued' = issued
    BY <1>5 DEF PaymentAnnounced, Announce
  <2>2. sent' \subseteq Announcement /\ sent \subseteq sent'
    BY <2>1 DEF SubscriptionTypes, Announcement
  <2>3. handler' \in [Handler -> Handling(sent')]
    BY <1>a, <1>5, <2>2 DEF PaymentAnnounced, Handling
  <2> QED BY <1>5, <2>1, <2>2, <2>3 DEF PaymentAnnounced, tables, SubscriptionTypes
<1>6. ASSUME NEW h \in Handler, NEW a \in sent, WebhookReceive(h, a) PROVE SubscriptionTypes'
  <2> DEFINE row == [pc |-> "lookup", event |-> a, day |-> 1, active |-> {}]
  <2>1. row \in Handling(sent) BY DEF Handling
  <2>2. handler' = [handler EXCEPT ![h] = row] BY <1>6 DEF WebhookReceive
  <2> HIDE DEF row
  <2>3. handler' \in [Handler -> Handling(sent)] BY <1>a, <2>1, <2>2
  <2> QED BY <1>6, <2>3 DEF WebhookReceive, tables, provider, SubscriptionTypes
<1>7. ASSUME NEW h \in Handler, WebhookLookup(h) PROVE SubscriptionTypes'
  <2>1. handler' \in [Handler -> Handling(sent)]
    BY <1>7, HandlerMoves DEF WebhookLookup, HandlerAt
  <2> QED BY <1>7, <2>1 DEF WebhookLookup, tables, provider, SubscriptionTypes
<1>8. ASSUME NEW h \in Handler, WebhookInsert(h) PROVE SubscriptionTypes'
  <2>1. handler' \in [Handler -> Handling(sent)]
    BY <1>8, HandlerMoves DEF WebhookInsert, HandlerAt
  <2>2. webhook' \in [Event -> {"NONE", "RECEIVED", "PROCESSED"}]
    BY <1>a, <1>8 DEF WebhookInsert
  <2> QED BY <1>8, <2>1, <2>2 DEF WebhookInsert, provider, SubscriptionTypes
<1>9. ASSUME NEW h \in Handler, WebhookFail(h) PROVE SubscriptionTypes'
  <2>1. handler' \in [Handler -> Handling(sent)] BY <1>9, HandlerMoves DEF WebhookFail
  <2>2. OrderOf(h) \in Order BY <1>9, FlightOf DEF WebhookFail, HandlerAt
  <2> DEFINE row == [order[OrderOf(h)] EXCEPT !.status = "FAILED"]
  <2>3. row \in OrderRow
    <3>1. order[OrderOf(h)] \in OrderRow BY <1>a, <2>2
    <3> QED BY <3>1 DEF OrderRow
  <2>4. /\ order' = [order EXCEPT ![OrderOf(h)] = row]
        /\ attempt' = [attempt EXCEPT ![PaymentOf(h)] = "FAILED"]
        /\ webhook' = [webhook EXCEPT ![EventOf(h)] = "PROCESSED"]
    BY <1>9 DEF WebhookFail
  <2> HIDE DEF row
  <2>5. order' \in [Order -> OrderRow] BY <1>a, <2>3, <2>4
  <2>6. attempt' \in [Payment -> {"NONE", "PENDING", "FAILED", "SUCCEEDED"}] BY <1>a, <2>4
  <2>7. webhook' \in [Event -> {"NONE", "RECEIVED", "PROCESSED"}] BY <1>a, <2>4
  <2> QED BY <1>9, <2>1, <2>5, <2>6, <2>7 DEF WebhookFail, provider, SubscriptionTypes
<1>10. ASSUME NEW h \in Handler, ActivateRead(h) PROVE SubscriptionTypes'
  <2>1. CASE End(h)
    BY <1>10, <2>1, HandlerMoves DEF ActivateRead, tables, provider, SubscriptionTypes
  <2>2. CASE ~End(h)
    <3> DEFINE row == [handler[h] EXCEPT !.pc = "cancel", !.day = today]
    <3>1. row \in Handling(sent)
      <4>1. handler[h] \in Handling(sent) /\ today \in Nat BY <1>a DEF SubscriptionTypes
      <4> QED BY <1>10, <4>1 DEF ActivateRead, HandlerAt, Handling
    <3>2. handler' = [handler EXCEPT ![h] = row] BY <1>10, <2>2 DEF ActivateRead
    <3> HIDE DEF row
    <3>3. handler' \in [Handler -> Handling(sent)] BY <1>a, <3>1, <3>2
    <3> QED BY <1>10, <3>3 DEF ActivateRead, tables, provider, SubscriptionTypes
  <2> QED BY <2>1, <2>2
<1>11. ASSUME NEW h \in Handler, ActivateCancel(h) PROVE SubscriptionTypes'
  <2> DEFINE row == [handler[h] EXCEPT !.pc = "commit", !.active = ActiveRows]
  <2>1. ActiveRows \subseteq Nat BY DEF ActiveRows, SubscriptionTypes
  <2>2. row \in Handling(sent)
    <3>1. handler[h] \in Handling(sent) BY <1>a
    <3> QED BY <1>11, <2>1, <3>1 DEF ActivateCancel, HandlerAt, Handling
  <2>3. handler' = [handler EXCEPT ![h] = row] BY <1>11 DEF ActivateCancel
  <2> HIDE DEF row
  <2>4. handler' \in [Handler -> Handling(sent)] BY <1>a, <2>2, <2>3
  <2> QED BY <1>11, <2>4 DEF ActivateCancel, tables, provider, SubscriptionTypes
<1>12. ASSUME NEW h \in Handler, ActivateCommit(h) PROVE SubscriptionTypes'
  <2>1. handler' \in [Handler -> Handling(sent)]
    BY <1>12, HandlerMoves DEF ActivateCommit, HandlerAt
  <2>2. OrderOf(h) \in Order /\ PaymentOf(h) \in Payment /\ KeyOf(h) \in GrantKey
    BY SMTT(30), <1>12, FlightOf DEF ActivateCommit, HandlerAt
  <2> DEFINE row == [order[OrderOf(h)] EXCEPT !.status = "PAID", !.payment = PaymentOf(h)]
  <2>3. row \in OrderRow BY <1>a, <2>2, OrderRowsWritten
  <2>4. /\ order' = [order EXCEPT ![OrderOf(h)] = row]
        /\ attempt' = [attempt EXCEPT ![PaymentOf(h)] = "SUCCEEDED"]
        /\ webhook' = [webhook EXCEPT ![EventOf(h)] = "PROCESSED"]
    BY <1>12 DEF ActivateCommit
  <2> HIDE DEF row
  <2>5. order' \in [Order -> OrderRow] BY <1>a, <2>3, <2>4
  <2>6. attempt' \in [Payment -> {"NONE", "PENDING", "FAILED", "SUCCEEDED"}] BY <1>a, <2>4
  <2>7. webhook' \in [Event -> {"NONE", "RECEIVED", "PROCESSED"}] BY <1>a, <2>4
  <2>8. subscription' \in Seq(SubscriptionRow)
    BY <1>12, <2>2, CommittedRows DEF ActivateCommit
  <2> QED BY <1>12, <2>1, <2>2, <2>5, <2>6, <2>7, <2>8
          DEF ActivateCommit, provider, SubscriptionTypes
<1>13. ASSUME NEW h \in Handler, GrantIncluded(h) PROVE SubscriptionTypes'
  <2>1. handler' \in [Handler -> Handling(sent)] BY <1>13, HandlerMoves DEF GrantIncluded
  <2>2. KeyOf(h) \in GrantKey BY <1>13, FlightOf DEF GrantIncluded, HandlerAt
  <2> QED BY <1>13, <2>1, <2>2 DEF GrantIncluded, provider, SubscriptionTypes
<1>14. CASE Midnight
  BY <1>14 DEF Midnight, tables, provider, SubscriptionTypes
<1>15. CASE RequestDies
  <2>1. handler' \in [Handler -> Handling(sent)]
    BY <1>a, <1>15, HandlerMoves DEF RequestDies
  <2>2. starting' \in [Payer -> Starting] BY <1>a, <1>b, <1>15 DEF RequestDies
  <2> QED BY <1>15, <2>1, <2>2 DEF RequestDies, tables, provider, SubscriptionTypes
<1> QED
  BY <1>1, <1>2, <1>3, <1>4, <1>5, <1>6, <1>7, <1>8, <1>9, <1>10, <1>11, <1>12, <1>13, <1>14,
     <1>15 DEF SubscriptionsNext, Handle

-----------------------------------------------------------------------------
\* The success of an order's payment was processed.
Settled(o) ==
  \E a \in sent : a.successful /\ issued[a.payment] = o /\ webhook[a.id] = "PROCESSED"

\* A handler goes on short of a commit: it starts to activate for a success, and what it is
\* about to cancel is what is ACTIVE now.
Moves(h) ==
  \/ handler'[h] = handler[h]
  \/ handler'[h].pc \in {"idle", "lookup", "insert", "verify"}
  \/ handler'[h].pc = "cancel" /\ handler'[h].event.successful
  \/ handler'[h].pc = "commit" /\ handler'[h].event.successful
       /\ handler'[h].active = ActiveRows

\* Announcements stay what they are, and rows are of announced events.
LEMMA AnnouncedStep ==
  ASSUME SubscriptionTypes, Announced, SubscriptionsNext
  PROVE  /\ Announced'
         /\ sent \subseteq sent'
         /\ \A a \in sent : issued'[a.payment] = issued[a.payment]
<1>a. \A a \in sent : a.id \in Event /\ a.payment \in Payment /\ issued[a.payment] \in Order
  BY DEF SubscriptionTypes, Announcement, Announced
<1>b. webhook \in [Event -> {"NONE", "RECEIVED", "PROCESSED"}]
      /\ issued \in [Payment -> Order \union {"none"}]
  BY DEF SubscriptionTypes
<1>1. ASSUME NEW c \in Payer, StartPaymentCreate(c)
      PROVE  /\ Announced'
             /\ sent \subseteq sent'
             /\ \A a \in sent : issued'[a.payment] = issued[a.payment]
  <2>1. PICK p \in Payment :
          /\ issued[p] = "none"
          /\ issued' = [issued EXCEPT ![p] = starting[c].order]
          /\ UNCHANGED <<sent, webhook>>
    BY <1>1 DEF StartPaymentCreate, Issue, tables
  <2>2. \A a \in sent : issued'[a.payment] = issued[a.payment]
    BY <1>a, <1>b, <2>1, NoneAssumption
  <2> QED BY <1>a, <2>1, <2>2 DEF Announced
<1>2. CASE PaymentAnnounced
  <2>1. PICK e \in Event, p \in Payment, successful \in BOOLEAN :
          Announce(e, p, successful)
    BY <1>2 DEF PaymentAnnounced
  <2> DEFINE new == [id |-> e, payment |-> p, successful |-> successful]
  <2>2. /\ issued[p] # "none" /\ \A a \in sent : a.id # e
        /\ sent' = sent \union {new}
        /\ UNCHANGED <<issued, webhook>>
    BY <1>2, <2>1 DEF PaymentAnnounced, Announce, tables
  <2>3. new.id = e /\ new.payment = p /\ issued[p] \in Order BY <1>b, <2>2
  <2> HIDE DEF new
  <2> QED BY <2>2, <2>3 DEF Announced
<1>3. ASSUME NEW h \in Handler, WebhookInsert(h) \/ WebhookFail(h) \/ ActivateCommit(h)
      PROVE  /\ Announced'
             /\ sent \subseteq sent'
             /\ \A a \in sent : issued'[a.payment] = issued[a.payment]
  <2>1. handler[h].event \in sent
    BY <1>3, FlightOf DEF WebhookInsert, WebhookFail, ActivateCommit, HandlerAt
  <2>2. /\ UNCHANGED <<issued, sent>>
        /\ \A e \in Event : e # EventOf(h) => webhook'[e] = webhook[e]
    BY <1>3, <1>b DEF WebhookInsert, WebhookFail, ActivateCommit, provider
  <2>3. \A e \in Event : webhook'[e] # "NONE" => \E a \in sent : a.id = e
    BY <2>1, <2>2 DEF Announced, EventOf
  <2> QED BY <2>2, <2>3 DEF Announced
<1>4. CASE UNCHANGED <<issued, sent, webhook>>
  BY <1>4 DEF Announced
<1>5. \/ \E c \in Payer : StartPaymentCreate(c)
      \/ PaymentAnnounced
      \/ \E h \in Handler : WebhookInsert(h) \/ WebhookFail(h) \/ ActivateCommit(h)
      \/ UNCHANGED <<issued, sent, webhook>>
  BY DEF SubscriptionsNext, Handle, CreateOrder, OrderExpires, StartPaymentRead,
         StartPaymentWrite, WebhookReceive, WebhookLookup, ActivateRead, ActivateCancel,
         GrantIncluded, Midnight, RequestDies, tables, provider
<1> QED BY <1>1, <1>2, <1>3, <1>4, <1>5

\* A step that commits and grants nothing keeps the invariant, if handlers go on as they should
\* and no success is marked processed by it.
LEMMA QuietSubscriptions ==
  ASSUME SubscriptionsInv, SubscriptionTypes', Announced',
         UNCHANGED <<subscription, userPlan, granted>>,
         \A a \in sent : issued'[a.payment] = issued[a.payment],
         \A o \in Order : Settled(o)' <=> Settled(o),
         \A h \in Handler : Moves(h)
  PROVE  SubscriptionsInv'
<1>1. SubscribedIffProcessed'
  BY DEF SubscriptionsInv, SubscribedIffProcessed, Settled
<1>2. ASSUME NEW h \in Handler PROVE Activating(h)'
  <2>1. Activating(h) BY DEF SubscriptionsInv
  <2>2. CASE handler'[h] = handler[h] /\ HandlerAt(h, "grant")
    <3>1. handler[h].event \in sent
      BY <2>2, FlightOf DEF SubscriptionsInv, HandlerAt
    <3>2. KeyOf(h)' = KeyOf(h) BY <2>2, <3>1 DEF KeyOf, OrderOf, PaymentOf
    <3> QED BY <2>1, <2>2, <3>2 DEF Activating, HandlerAt
  <2>3. CASE handler'[h] = handler[h] /\ ~HandlerAt(h, "grant")
    BY <2>1, <2>3 DEF Activating, HandlerAt
  <2>4. CASE handler'[h] # handler[h]
    BY <2>4 DEF Moves, Activating, HandlerAt
  <2> QED BY <2>2, <2>3, <2>4
<1>3. AnsweredFor'
  <2>1. PICK f \in [ActiveRows -> Handler] : Answers(f)
    BY DEF SubscriptionsInv, AnsweredFor
  <2>2. ActiveRows' = ActiveRows BY DEF ActiveRows, IsActive
  <2>3. \A h \in Handler, i \in ActiveRows :
          handler'[h].pc = "commit" /\ f[i] = h => i \in handler'[h].active
    BY <2>1 DEF Moves, Answers, HandlerAt
  <2>4. Answers(f)' BY <2>1, <2>2, <2>3 DEF Answers, HandlerAt
  <2> QED BY <2>2, <2>4 DEF AnsweredFor
<1>4. NewestIsPlan' BY DEF SubscriptionsInv, NewestIsPlan
<1> QED BY <1>1, <1>2, <1>3, <1>4 DEF SubscriptionsInv

\* Settled is about events and the provider.
LEMMA SettledStays ==
  ASSUME UNCHANGED <<webhook, issued, sent>>, NEW o \in Order
  PROVE  Settled(o)' <=> Settled(o)
BY DEF Settled

\* A commit marks its success processed and adds its subscription, in one step.  What the
\* handler had to answer for before is among what it cancels.
LEMMA CommitKeeps ==
  ASSUME SubscriptionsInv, SubscriptionTypes', Announced', NEW h \in Handler, ActivateCommit(h)
  PROVE  SubscriptionsInv'
<1> DEFINE new == [status |-> "ACTIVE", key |-> KeyOf(h)]
           n == Len(subscription) + 1
<1>1. /\ HandlerAt(h, "commit") /\ handler[h].event.successful
      /\ webhook' = [webhook EXCEPT ![EventOf(h)] = "PROCESSED"]
      /\ userPlan' = OrderOf(h)
      /\ UNCHANGED <<granted, issued, sent>>
  BY DEF ActivateCommit, provider, SubscriptionsInv, Activating, HandlerAt
<1>2. /\ handler[h].event \in sent /\ EventOf(h) \in Event
      /\ OrderOf(h) \in Order /\ KeyOf(h) \in GrantKey
  BY <1>1, FlightOf DEF SubscriptionsInv, HandlerAt
<1>3. /\ handler'[h].pc = "grant" /\ handler'[h].event = handler[h].event
      /\ handler'[h].day = handler[h].day
      /\ \A g \in Handler : g # h => handler'[g] = handler[g]
  BY <1>1, HandlerMoves DEF ActivateCommit, SubscriptionsInv, HandlerAt
<1>4. /\ subscription' \in Seq(SubscriptionRow) /\ Len(subscription') = n
      /\ subscription'[n] = new
      /\ \A i \in DOMAIN subscription :
           /\ i \in DOMAIN subscription' /\ subscription'[i].key = subscription[i].key
           /\ subscription'[i].status = "ACTIVE" <=> IsActive(i) /\ i \notin handler[h].active
  BY <1>2, CommittedRows DEF ActivateCommit, SubscriptionsInv
<1>5. new.status = "ACTIVE" /\ new.key = KeyOf(h) /\ KeyOf(h).order = OrderOf(h)
  BY DEF KeyOf
<1> HIDE DEF new
<1>6. /\ Len(subscription) \in Nat /\ DOMAIN subscription = 1 .. Len(subscription)
      /\ DOMAIN subscription' = DOMAIN subscription \union {n}
      /\ n \in DOMAIN subscription' /\ n \notin DOMAIN subscription
  <2>1. subscription \in Seq(SubscriptionRow) BY DEF SubscriptionsInv, SubscriptionTypes
  <2>2. DOMAIN subscription' = 1 .. Len(subscription') BY <1>4
  <2> QED BY <1>4, <2>1, <2>2
<1> HIDE DEF n
<1>7. \A k : (\E i \in DOMAIN subscription' : subscription'[i].key = k)
               <=> k = KeyOf(h) \/ \E i \in DOMAIN subscription : subscription[i].key = k
  BY <1>4, <1>5, <1>6
<1>8. \A o \in Order : (\E i \in DOMAIN subscription' : subscription'[i].key.order = o)
        <=> o = OrderOf(h) \/ \E i \in DOMAIN subscription : subscription[i].key.order = o
  BY <1>4, <1>5, <1>6
<1>9. \A o \in Order : Settled(o)' <=> o = OrderOf(h) \/ Settled(o)
  <2>1. webhook \in [Event -> {"NONE", "RECEIVED", "PROCESSED"}]
        /\ \A a \in sent : a.id \in Event
    BY DEF SubscriptionsInv, SubscriptionTypes, Announcement
  <2>2. \A a \in sent : webhook'[a.id] = "PROCESSED"
          <=> webhook[a.id] = "PROCESSED" \/ a = handler[h].event
    BY <1>1, <1>2, <2>1 DEF SubscriptionsInv, Announced, EventOf
  <2> QED BY <1>1, <1>2, <2>2 DEF Settled, OrderOf, PaymentOf
<1>10. SubscribedIffProcessed'
  BY <1>1, <1>7, <1>8, <1>9 DEF SubscriptionsInv, SubscribedIffProcessed, Settled
<1>11. KeyOf(h)' = KeyOf(h) BY <1>1, <1>3 DEF KeyOf, OrderOf, PaymentOf
<1>12. ASSUME NEW g \in Handler PROVE Activating(g)'
  <2>1. CASE g = h
    BY <1>1, <1>3, <1>7, <1>11, <2>1 DEF Activating, HandlerAt
  <2>2. CASE g # h
    <3>1. handler'[g] = handler[g] /\ KeyOf(g)' = KeyOf(g)
      BY <1>1, <1>3, <2>2 DEF KeyOf, OrderOf, PaymentOf
    <3> QED BY <1>7, <3>1 DEF SubscriptionsInv, Activating, HandlerAt
  <2> QED BY <2>1, <2>2
<1>13. AnsweredFor'
  <2>1. PICK f \in [ActiveRows -> Handler] : Answers(f)
    BY DEF SubscriptionsInv, AnsweredFor
  <2> DEFINE f2 == [i \in ActiveRows' |-> IF i = n THEN h ELSE f[i]]
  <2>2. \A i : i \in ActiveRows' <=> i = n \/ (i \in ActiveRows /\ i \notin handler[h].active)
    BY <1>4, <1>5, <1>6 DEF ActiveRows, IsActive
  <2>3. n \notin ActiveRows BY <1>6 DEF ActiveRows
  <2>4. f2 \in [ActiveRows' -> Handler] BY <2>1, <2>2
  <2>5. \A i \in ActiveRows : i \notin handler[h].active => f[i] # h
    BY <1>1, <2>1 DEF Answers
  <2>6. f2[n] = h /\ \A i \in ActiveRows' : i # n => f2[i] = f[i] /\ f2[i] # h
    BY <2>2, <2>5
  <2> HIDE DEF f2
  <2>7. PICK own \in [ActiveRows' -> Handler] :
          own[n] = h /\ \A i \in ActiveRows' : i # n => own[i] = f[i] /\ own[i] # h
    BY <2>4, <2>6
  <2>8. \A i, j \in ActiveRows' : own[i] = own[j] => i = j
    BY <2>1, <2>2, <2>7 DEF Answers
  <2>9. \A g \in Handler, i \in ActiveRows' :
          handler'[g].pc = "commit" /\ own[i] = g => i \in handler'[g].active
    BY <1>3, <2>1, <2>2, <2>7 DEF Answers, HandlerAt
  <2>10. Answers(own)' BY <2>8, <2>9 DEF Answers, HandlerAt
  <2> QED BY <2>7, <2>10 DEF AnsweredFor
<1>14. NewestIsPlan'
  <2>1. subscription' # <<>> BY <1>4, <1>6 DEF n
  <2> QED BY <1>1, <1>4, <1>5, <2>1 DEF NewestIsPlan
<1> QED BY <1>10, <1>12, <1>13, <1>14 DEF SubscriptionsInv

\* Credits are granted under the key the subscription was committed with.
LEMMA GrantKeeps ==
  ASSUME SubscriptionsInv, SubscriptionTypes', Announced', NEW h \in Handler, GrantIncluded(h)
  PROVE  SubscriptionsInv'
<1>1. /\ HandlerAt(h, "grant") /\ granted' = granted \union {KeyOf(h)} /\ End(h)
      /\ UNCHANGED <<webhook, subscription, userPlan, issued, sent>>
  BY DEF GrantIncluded, provider
<1>2. \E i \in DOMAIN subscription : subscription[i].key = KeyOf(h)
  BY <1>1 DEF SubscriptionsInv, Activating
<1>3. SubscribedIffProcessed' BY <1>1, <1>2 DEF SubscriptionsInv, SubscribedIffProcessed
<1>4. /\ handler'[h].pc = "idle"
      /\ \A g \in Handler : g # h => handler'[g] = handler[g]
  BY <1>1, HandlerMoves DEF SubscriptionsInv
<1>5. ASSUME NEW g \in Handler PROVE Activating(g)'
  <2>1. CASE g = h BY <1>4, <2>1 DEF Activating, HandlerAt
  <2>2. CASE g # h
    <3>1. handler'[g] = handler[g] /\ KeyOf(g)' = KeyOf(g)
      BY <1>1, <1>4, <2>2 DEF KeyOf, OrderOf, PaymentOf
    <3> QED BY <1>1, <3>1 DEF SubscriptionsInv, Activating, HandlerAt
  <2> QED BY <2>1, <2>2
<1>6. AnsweredFor'
  <2>1. PICK f \in [ActiveRows -> Handler] : Answers(f)
    BY DEF SubscriptionsInv, AnsweredFor
  <2>2. ActiveRows' = ActiveRows BY <1>1 DEF ActiveRows, IsActive
  <2>3. Answers(f)' BY <1>4, <2>1, <2>2 DEF Answers, HandlerAt
  <2> QED BY <2>2, <2>3 DEF AnsweredFor
<1>7. NewestIsPlan' BY <1>1 DEF SubscriptionsInv, NewestIsPlan
<1> QED BY <1>3, <1>5, <1>6, <1>7 DEF SubscriptionsInv

\* Every step keeps the invariant.
LEMMA SubscriptionsStep ==
  ASSUME SubscriptionsInv, [SubscriptionsNext]_subscriptionVars
  PROVE  SubscriptionsInv'
<1>1. CASE UNCHANGED subscriptionVars
  <2>1. UNCHANGED <<order, attempt, webhook, subscription, userPlan, granted, issued, sent,
                    today, starting, handler>>
    BY <1>1 DEF subscriptionVars, tables, provider
  <2>2. SubscriptionTypes' /\ Announced'
    BY <2>1 DEF SubscriptionsInv, SubscriptionTypes, Announced
  <2>3. \A h \in Handler : Moves(h) BY <2>1 DEF Moves
  <2> QED BY <2>1, <2>2, <2>3, SettledStays, QuietSubscriptions
<1> SUFFICES ASSUME SubscriptionsNext PROVE SubscriptionsInv' BY <1>1
<1>2. /\ SubscriptionTypes' /\ Announced'
      /\ \A a \in sent : issued'[a.payment] = issued[a.payment]
  BY SubscriptionTypesStep, AnnouncedStep DEF SubscriptionsInv
<1>3. \A a \in sent : a.id \in Event BY DEF SubscriptionsInv, SubscriptionTypes, Announcement
<1>4. webhook \in [Event -> {"NONE", "RECEIVED", "PROCESSED"}]
  BY DEF SubscriptionsInv, SubscriptionTypes
<1>5. CASE UNCHANGED <<webhook, subscription, userPlan, granted, issued, sent, handler>>
  <2>1. \A h \in Handler : Moves(h) BY <1>5 DEF Moves
  <2> QED BY <1>2, <1>5, <2>1, SettledStays, QuietSubscriptions
<1>6. ASSUME NEW c \in Payer, StartPaymentCreate(c) PROVE SubscriptionsInv'
  <2>1. UNCHANGED <<webhook, subscription, userPlan, granted, sent, handler>>
    BY <1>6 DEF StartPaymentCreate, Issue, tables
  <2>2. \A o \in Order : Settled(o)' <=> Settled(o) BY <1>2, <2>1 DEF Settled
  <2>3. \A h \in Handler : Moves(h) BY <2>1 DEF Moves
  <2> QED BY <1>2, <2>1, <2>2, <2>3, QuietSubscriptions
<1>7. CASE PaymentAnnounced
  <2>1. PICK e \in Event, p \in Payment, successful \in BOOLEAN :
          /\ \A a \in sent : a.id # e
          /\ sent' = sent \union {[id |-> e, payment |-> p, successful |-> successful]}
          /\ issued' = issued
    BY <1>7 DEF PaymentAnnounced, Announce
  <2>2. UNCHANGED <<webhook, subscription, userPlan, granted, handler>>
    BY <1>7 DEF PaymentAnnounced, tables
  <2>3. webhook[e] = "NONE" BY <2>1 DEF SubscriptionsInv, Announced
  <2>4. \A o \in Order : Settled(o)' <=> Settled(o) BY <2>1, <2>2, <2>3 DEF Settled
  <2>5. \A h \in Handler : Moves(h) BY <2>2 DEF Moves
  <2> QED BY <1>2, <2>1, <2>2, <2>4, <2>5, QuietSubscriptions
<1>8. ASSUME NEW h \in Handler, NEW a \in sent, WebhookReceive(h, a) PROVE SubscriptionsInv'
  <2>1. UNCHANGED <<webhook, subscription, userPlan, granted, issued, sent>>
    BY <1>8 DEF WebhookReceive, tables, provider
  <2>2. \A g \in Handler : Moves(g)
    <3>1. handler \in [Handler -> Handling(sent)] BY DEF SubscriptionsInv, SubscriptionTypes
    <3> QED BY <1>8, <3>1 DEF WebhookReceive, Moves
  <2> QED BY <1>2, <2>1, <2>2, SettledStays, QuietSubscriptions
<1>9. ASSUME NEW h \in Handler, WebhookLookup(h) PROVE SubscriptionsInv'
  <2>1. UNCHANGED <<webhook, subscription, userPlan, granted, issued, sent>>
    BY <1>9 DEF WebhookLookup, tables, provider
  <2>2. \A g \in Handler : Moves(g)
    BY <1>9, HandlerMoves DEF SubscriptionsInv, WebhookLookup, HandlerAt, Moves
  <2> QED BY <1>2, <2>1, <2>2, SettledStays, QuietSubscriptions
<1>10. ASSUME NEW h \in Handler, WebhookInsert(h) PROVE SubscriptionsInv'
  <2>1. UNCHANGED <<subscription, userPlan, granted, issued, sent>>
    BY <1>10 DEF WebhookInsert, provider
  <2>2. \A g \in Handler : Moves(g)
    BY <1>10, HandlerMoves DEF SubscriptionsInv, WebhookInsert, HandlerAt, Moves
  <2>3. \A e \in Event : webhook'[e] = "PROCESSED" <=> webhook[e] = "PROCESSED"
    BY <1>4, <1>10 DEF WebhookInsert
  <2>4. \A o \in Order : Settled(o)' <=> Settled(o) BY <1>3, <2>1, <2>3 DEF Settled
  <2> QED BY <1>2, <2>1, <2>2, <2>4, QuietSubscriptions
<1>11. ASSUME NEW h \in Handler, WebhookFail(h) PROVE SubscriptionsInv'
  <2>1. UNCHANGED <<subscription, userPlan, granted, issued, sent>>
    BY <1>11 DEF WebhookFail, provider
  <2>2. \A g \in Handler : Moves(g)
    BY <1>11, HandlerMoves DEF SubscriptionsInv, WebhookFail, Moves
  <2>3. handler[h].event \in sent /\ ~handler[h].event.successful
    BY <1>11, FlightOf DEF SubscriptionsInv, WebhookFail, HandlerAt
  <2>4. \A a \in sent : a.successful => a.id # EventOf(h)
    BY <2>3 DEF SubscriptionsInv, Announced, EventOf
  <2>5. \A a \in sent : a.successful => webhook'[a.id] = webhook[a.id]
    BY <1>3, <1>4, <1>11, <2>4 DEF WebhookFail
  <2>6. \A o \in Order : Settled(o)' <=> Settled(o) BY <2>1, <2>5 DEF Settled
  <2> QED BY <1>2, <2>1, <2>2, <2>6, QuietSubscriptions
<1>12. ASSUME NEW h \in Handler, ActivateRead(h) PROVE SubscriptionsInv'
  <2>1. UNCHANGED <<webhook, subscription, userPlan, granted, issued, sent>>
    BY <1>12 DEF ActivateRead, tables, provider
  <2>2. \A g \in Handler : Moves(g)
    <3>1. CASE End(h) BY <3>1, HandlerMoves DEF SubscriptionsInv, Moves
    <3>2. CASE handler' = [handler EXCEPT ![h].pc = "cancel", ![h].day = today]
      <4>1. handler \in [Handler -> Handling(sent)] /\ handler[h] \in Handling(sent)
        BY DEF SubscriptionsInv, SubscriptionTypes
      <4> QED BY <1>12, <3>2, <4>1 DEF ActivateRead, HandlerAt, Handling, Moves
    <3> QED BY <1>12, <3>1, <3>2 DEF ActivateRead
  <2> QED BY <1>2, <2>1, <2>2, SettledStays, QuietSubscriptions
<1>13. ASSUME NEW h \in Handler, ActivateCancel(h) PROVE SubscriptionsInv'
  <2>1. UNCHANGED <<webhook, subscription, userPlan, granted, issued, sent>>
    BY <1>13 DEF ActivateCancel, tables, provider
  <2>2. \A g \in Handler : Moves(g)
    <3>1. handler \in [Handler -> Handling(sent)] /\ handler[h] \in Handling(sent)
      BY DEF SubscriptionsInv, SubscriptionTypes
    <3>2. handler[h].event.successful
      BY <1>13 DEF SubscriptionsInv, Activating, ActivateCancel, HandlerAt
    <3> QED BY <1>13, <3>1, <3>2 DEF ActivateCancel, HandlerAt, Handling, Moves
  <2> QED BY <1>2, <2>1, <2>2, SettledStays, QuietSubscriptions
<1>14. CASE RequestDies
  <2>1. UNCHANGED <<webhook, subscription, userPlan, granted, issued, sent>>
    BY <1>14 DEF RequestDies, tables, provider
  <2>2. \A g \in Handler : Moves(g)
    BY SMTT(30), <1>14, HandlerMoves DEF SubscriptionsInv, RequestDies, Moves
  <2> QED BY <1>2, <2>1, <2>2, SettledStays, QuietSubscriptions
<1>15. \/ UNCHANGED <<webhook, subscription, userPlan, granted, issued, sent, handler>>
       \/ \E c \in Payer : StartPaymentCreate(c)
       \/ PaymentAnnounced
       \/ \E h \in Handler : Handle(h) \/ \E a \in sent : WebhookReceive(h, a)
       \/ RequestDies
  BY DEF SubscriptionsNext, CreateOrder, OrderExpires, StartPaymentRead, StartPaymentWrite,
         Midnight, tables, provider
<1> QED
  BY <1>2, <1>5, <1>6, <1>7, <1>8, <1>9, <1>10, <1>11, <1>12, <1>13, <1>14, <1>15,
     CommitKeeps, GrantKeeps DEF Handle

\* At first there are no orders, events and subscriptions.
LEMMA SubscriptionsStart == SubscriptionsInit => SubscriptionsInv
<1> SUFFICES ASSUME SubscriptionsInit PROVE SubscriptionsInv OBVIOUS
<1>1. SubscriptionTypes
  BY DEF SubscriptionsInit, ProviderInit, SubscriptionTypes, OrderRow, NoRequest, Starting,
         Handling
<1>2. Announced /\ SubscribedIffProcessed
  BY DEF SubscriptionsInit, ProviderInit, Announced, SubscribedIffProcessed
<1>3. \A h \in Handler : Activating(h)
  BY DEF SubscriptionsInit, Activating, HandlerAt, NoRequest
<1>4. AnsweredFor
  <2>1. ActiveRows = {} BY DEF SubscriptionsInit, ActiveRows
  <2> DEFINE f == [i \in {} |-> CHOOSE h \in Handler : TRUE]
  <2>2. f \in [ActiveRows -> Handler] BY <2>1
  <2>3. Answers(f) BY <2>1 DEF Answers
  <2> QED BY <2>2, <2>3 DEF AnsweredFor
<1>5. NewestIsPlan BY DEF SubscriptionsInit, NewestIsPlan
<1> QED BY <1>1, <1>2, <1>3, <1>4, <1>5 DEF SubscriptionsInv

\* The invariant holds in every reachable state.
THEOREM SubscriptionsInvariance == SubscriptionsSpec => []SubscriptionsInv
BY SubscriptionsStart, SubscriptionsStep, PTL DEF SubscriptionsSpec

\* Whatever is delivered twice, out of order or to two handlers at once, and whenever a request
\* dies: an order has a subscription exactly when a success of it was processed, and credits are
\* granted for committed subscriptions.
THEOREM ActivationsAreIdempotent == SubscriptionsSpec => []SubscribedIffProcessed
<1>1. SubscriptionsInv => SubscribedIffProcessed BY DEF SubscriptionsInv
<1> QED BY <1>1, SubscriptionsInvariance, PTL

\* The newest subscription is ACTIVE and is the user's plan, and there are never more ACTIVE ones
\* than handlers.
THEOREM BuyersAreSubscribed == SubscriptionsSpec => []NewestIsActive
<1>1. ASSUME SubscriptionsInv PROVE NewestIsActive
  <2>1. PICK f \in [ActiveRows -> Handler] : Answers(f)
    BY <1>1 DEF SubscriptionsInv, AnsweredFor
  <2>2. f \in Injection(ActiveRows, Handler)
    BY <2>1 DEF Answers, Injection, IsInjective
  <2>3. Cardinality(ActiveRows) <= Cardinality(Handler)
    BY <2>2, HandlerAssumption, FS_Injection
  <2> QED BY <1>1, <2>3 DEF SubscriptionsInv, NewestIsPlan, NewestIsActive
<1> QED BY <1>1, SubscriptionsInvariance, PTL
=============================================================================
