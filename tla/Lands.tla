--------------------------------- MODULE Lands ---------------------------------
(***************************************************************************)
(* The lands of one user, their canvas revisions and the objects that hold *)
(* them: LandsService (lands/lands.service.ts) with the storage quota of   *)
(* BillingStorageService (billing/billing-storage.service.ts).             *)
(*                                                                         *)
(* A save checks the quota, stores the object, writes the row in a         *)
(* transaction that an advisory lock on the land makes exclusive, and      *)
(* deletes the objects of the rows that transaction dropped.               *)
(***************************************************************************)
EXTENDS Integers, FiniteSetsExt, Functions

CONSTANTS
  Land,    \* bound: lands of the user
  Key,     \* object keys, a random uuid for each save; bound: saves
  Caller,  \* bound: saves and restores in flight
  Size,    \* sizes of a canvas in bytes
  Limit,   \* the storageBytesLimit of the plans
  Keep     \* LAND_REVISION_RETENTION

ASSUME SizesAssumption ==
  /\ Size \cup Limit \subseteq Nat
  /\ IsFiniteSet(Size) /\ Size # {} \* bodies are limited in length
ASSUME CallersAssumption == IsFiniteSet(Caller) /\ Caller # {}
ASSUME KeepAssumption == Keep \in Nat \ {0}

VARIABLES
  land,      \* [Land -> "none", "live" or "deleted"]
  revisions, \* LandRevision rows: [land, revision, key, size]
  current,   \* [Land -> the key of its currentRevision or "none"]
  stored,    \* the objects in the storage
  drawn,     \* the keys drawn so far: randomUUID never draws one twice
  limit,     \* the limit of the user's effective plan
  call,      \* [Caller -> save or restore in flight]
  highest,   \* history: the highest limit there was
  abandoned  \* history: objects of requests that stopped or could not delete them

vars == <<land, revisions, current, stored, drawn, limit, call, highest, abandoned>>

Idle == [pc |-> "idle"]

Init ==
  /\ land = [l \in Land |-> "none"]
  /\ revisions = {}
  /\ current = [l \in Land |-> "none"]
  /\ stored = {}
  /\ drawn = {}
  /\ limit \in Limit
  /\ call = [c \in Caller |-> Idle]
  /\ highest = limit
  /\ abandoned = {}

At(c, pc) == call[c].pc = pc
Go(c, to) == call' = [call EXCEPT ![c] = to]

RowsOf(l) == {r \in revisions : r.land = l}
Bytes(rows) == SumFunctionOnSet([r \in rows |-> r.size], rows)
Newest(rows) == Max({r.revision : r \in rows} \union {0})

\* The rows of a land beyond its `kept` newest ones (orderBy revision desc, skip).
Beyond(l, kept) ==
  {r \in RowsOf(l) : Cardinality({s \in RowsOf(l) : s.revision > r.revision}) >= kept}

\* usedBytes.
Used == Bytes({r \in revisions : land[r.land] = "live"})

-----------------------------------------------------------------------------
Create(l) ==
  /\ land[l] = "none"
  /\ land' = [land EXCEPT ![l] = "live"]
  /\ UNCHANGED <<revisions, current, stored, drawn, limit, call, highest, abandoned>>

\* create with a canvas: the land stays when the save of it fails.
CreateWith(c, l, n) ==
  /\ At(c, "idle")
  /\ land[l] = "none"
  /\ land' = [land EXCEPT ![l] = "live"]
  /\ Go(c, [pc |-> "begun", land |-> l, size |-> n])
  /\ UNCHANGED <<revisions, current, stored, drawn, limit, highest, abandoned>>

\* The rows and objects of a deleted land stay; its bytes are no longer counted.
Remove(l) ==
  /\ land[l] = "live"
  /\ land' = [land EXCEPT ![l] = "deleted"]
  /\ UNCHANGED <<revisions, current, stored, drawn, limit, call, highest, abandoned>>

\* A subscription is activated, ends or User.plan changes: resolveEffectivePlan answers otherwise.
ChangePlan(bytes) ==
  /\ bytes # limit
  /\ limit' = bytes
  /\ highest' = Max({highest, bytes})
  /\ UNCHANGED <<land, revisions, current, stored, drawn, call, abandoned>>

-----------------------------------------------------------------------------
Save(c, l, n) ==
  /\ At(c, "idle")
  /\ land[l] = "live"
  /\ Go(c, [pc |-> "begun", land |-> l, size |-> n])
  /\ UNCHANGED <<land, revisions, current, stored, drawn, limit, highest, abandoned>>

\* restore reads the object of an older revision and saves it again; a save that drops the
\* revision meanwhile makes the read fail.
Restore(c, l, r) ==
  /\ At(c, "idle")
  /\ land[l] = "live"
  /\ r \in RowsOf(l)
  /\ r.key \in stored
  /\ Go(c, [pc |-> "begun", land |-> l, size |-> r.size])
  /\ UNCHANGED <<land, revisions, current, stored, drawn, limit, highest, abandoned>>

\* The bytes this save will free, read before the quota is checked.
SaveRead(c) ==
  LET l == call[c].land
  IN /\ At(c, "begun")
     /\ land[l] = "live"
     /\ Go(c, [pc |-> "read", land |-> l, size |-> call[c].size,
               frees |-> Bytes(Beyond(l, Keep - 1))])
     /\ UNCHANGED <<land, revisions, current, stored, drawn, limit, highest, abandoned>>

AdmitsSlip(c) == Used - call[c].frees <= limit

\* assertCanStore.
Admits(c) == Used - call[c].frees + call[c].size <= limit

\* The quota is checked and the object stored.
SavePut(c, k) ==
  /\ At(c, "read")
  /\ Admits(c)
  /\ k \notin drawn
  /\ Go(c, [pc |-> "put", land |-> call[c].land, size |-> call[c].size, key |-> k])
  /\ stored' = stored \union {k}
  /\ drawn' = drawn \union {k}
  /\ UNCHANGED <<land, revisions, current, limit, highest, abandoned>>

SaveWriteSlip(c) ==
  LET l == call[c].land
      row == [land |-> l, revision |-> Newest(RowsOf(l)) + 1,
              key |-> call[c].key, size |-> call[c].size]
  IN /\ At(c, "put")
     /\ land[l] = "live"
     /\ revisions' = (revisions \ Beyond(l, Keep)) \union {row}
     /\ current' = [current EXCEPT ![l] = row.key]
     /\ Go(c, [pc |-> "clean", keys |-> {r.key : r \in Beyond(l, Keep - 1)}])
     /\ UNCHANGED <<land, stored, drawn, limit, highest, abandoned>>

\* The transaction under the advisory lock of the land.
SaveWrite(c) ==
  LET l == call[c].land
      row == [land |-> l, revision |-> Newest(RowsOf(l)) + 1,
              key |-> call[c].key, size |-> call[c].size]
      dropped == Beyond(l, Keep - 1)
  IN /\ At(c, "put")
     /\ land[l] = "live"
     /\ revisions' = (revisions \ dropped) \union {row}
     /\ current' = [current EXCEPT ![l] = row.key]
     /\ Go(c, [pc |-> "clean", keys |-> {r.key : r \in dropped}])
     /\ UNCHANGED <<land, stored, drawn, limit, highest, abandoned>>

SaveUndoSlip(c) ==
  /\ At(c, "put")
  /\ Go(c, Idle)
  /\ UNCHANGED <<land, revisions, current, stored, drawn, limit, highest, abandoned>>

\* The land is gone or the transaction fails: the object is deleted again.  A transaction that
\* throws is taken not to have committed; if only the acknowledgement of its COMMIT was lost, the
\* code deletes the object of a revision that is there.
SaveUndo(c) ==
  /\ At(c, "put")
  /\ stored' = stored \ {call[c].key}
  /\ Go(c, Idle)
  /\ UNCHANGED <<land, revisions, current, drawn, limit, highest, abandoned>>

\* After the commit the objects of the dropped rows are deleted, each on its own.
SaveClean(c) ==
  /\ At(c, "clean")
  /\ stored' = stored \ call[c].keys
  /\ Go(c, Idle)
  /\ UNCHANGED <<land, revisions, current, drawn, limit, highest, abandoned>>

\* The land is not there any more, the quota is exceeded or the storage fails: nothing is written.
SaveRefused(c) ==
  /\ At(c, "begun") \/ At(c, "read")
  /\ Go(c, Idle)
  /\ UNCHANGED <<land, revisions, current, stored, drawn, limit, highest, abandoned>>

\* The process stops, or a deletion fails and is swallowed: objects are left behind.
Crash(c) ==
  /\ At(c, "put") \/ At(c, "clean")
  /\ abandoned' = abandoned \union (IF At(c, "put") THEN {call[c].key} ELSE call[c].keys)
  /\ Go(c, Idle)
  /\ UNCHANGED <<land, revisions, current, stored, drawn, limit, highest>>

Next ==
  \/ \E l \in Land : Create(l) \/ Remove(l)
  \/ \E bytes \in Limit : ChangePlan(bytes)
  \/ \E c \in Caller :
       \/ \E l \in Land, n \in Size : CreateWith(c, l, n) \/ Save(c, l, n)
       \/ \E l \in Land, r \in revisions : Restore(c, l, r)
       \/ \E k \in Key : SavePut(c, k)
       \/ SaveRead(c) \/ SaveWrite(c) \/ SaveUndo(c)
       \/ SaveClean(c) \/ SaveRefused(c) \/ Crash(c)

Spec == Init /\ [][Next]_vars

-----------------------------------------------------------------------------
\* Usage can pass the quota only by what the other requests in flight were admitted for: one save
\* at a time never passes the highest limit the user has had.
QuotaHeld ==
  Used <= highest + (Cardinality(Caller) - 1) * Max(Size)

\* Every retained revision can be opened: a row never outlives its object, whatever saves,
\* restores, failures and crashes overlap, as long as a transaction that throws has not
\* committed; each land keeps the newest Keep of them and shows the newest one.
RevisionsReadable ==
  /\ \A r \in revisions : r.key \in stored
  /\ \A l \in Land :
       /\ Cardinality(RowsOf(l)) <= Keep
       /\ \A r, s \in RowsOf(l) : r.revision = s.revision => r = s
       /\ RowsOf(l) # {} =>
            \E r \in RowsOf(l) : r.key = current[l] /\ r.revision = Newest(RowsOf(l))

\* Nothing leaks but by a crash or a failed deletion: an object without a row belongs to a save
\* that is still running.
ObjectsAccounted ==
  \A k \in stored \ {r.key : r \in revisions} :
    \/ k \in abandoned
    \/ \E c \in Caller : \/ At(c, "put") /\ call[c].key = k
                         \/ At(c, "clean") /\ k \in call[c].keys
=============================================================================
