------------------------------- MODULE Templates -------------------------------
(***************************************************************************)
(* One template, its versions and the objects they refer to: the owner's   *)
(* and the administrator's operations of TemplatesService                  *)
(* (templates/templates.service.ts) over the object storage of             *)
(* templates/template-storage.ts.                                          *)
(*                                                                         *)
(* Creating a version and reviewing one are several steps each: a check of *)
(* the row, a write to the storage, a transaction.  Every transaction is   *)
(* one step; the checks before it may be stale by then.                    *)
(***************************************************************************)
EXTENDS Integers, FiniteSetsExt

CONSTANTS
  Version,   \* version ids (random uuids); bound: versions ever begun
  Caller,    \* bound: requests of several steps in flight
  Drivers    \* the values of TEMPLATE_STORAGE_DRIVER a deployment may have

ASSUME DriversAssumption == Drivers \subseteq {"local", "s3"}

VARIABLES
  driver,    \* the storage driver of this deployment
  template,  \* the row, or NoTemplate
  version,   \* [Version -> row]; number 0 is no row
  stored,    \* objects in the storage: <<"manifest" or "bundle", version>>
  call,      \* [Caller -> request in flight]
  submitted, \* history: the versions that were the latest at a submission
  late,      \* history: the versions written between a reviewer's check and his decision
  replaced   \* history: the versions whose bundle was written over an existing one

vars == <<driver, template, version, stored, call, submitted, late, replaced>>

Visibility == {"PRIVATE", "UNLISTED", "PUBLIC"}
NoTemplate == [exists |-> FALSE, review |-> "DRAFT", current |-> "none",
               visibility |-> "PRIVATE", archived |-> FALSE, deleted |-> FALSE]
NoVersion == [number |-> 0, immutable |-> FALSE]
Idle == [pc |-> "idle"]

Init ==
  /\ driver \in Drivers
  /\ template = NoTemplate
  /\ version = [v \in Version |-> NoVersion]
  /\ stored = {}
  /\ call = [c \in Caller |-> Idle]
  /\ submitted = {} /\ late = {} /\ replaced = {}

At(c, pc) == call[c].pc = pc
Go(c, to) == call' = [call EXCEPT ![c] = to]

\* requireOwned, and the administrators' reads of a template that is not deleted.
Live == template.exists /\ ~template.deleted

Rows == {v \in Version : version[v].number > 0}
Latest == CHOOSE v \in Rows : \A w \in Rows : version[w].number <= version[v].number
NewNumber == 1 + Max({version[v].number : v \in Version})

\* A version id nobody has used: no row, no object, no request.
Fresh(v) ==
  /\ version[v] = NoVersion
  /\ <<"manifest", v>> \notin stored
  /\ \A c \in Caller : At(c, "creating") => call[c].version # v

-----------------------------------------------------------------------------
\* Create, update and delete: one statement each, unconditional after requireOwned.

Create(visibility) ==
  /\ ~template.exists
  /\ template' = [NoTemplate EXCEPT !.exists = TRUE, !.visibility = visibility]
  /\ UNCHANGED <<driver, version, stored, call, submitted, late, replaced>>

Update(visibility) ==
  /\ Live
  /\ template' = [template EXCEPT !.visibility = visibility]
  /\ UNCHANGED <<driver, version, stored, call, submitted, late, replaced>>

Remove ==
  /\ Live
  /\ template' = [template EXCEPT !.deleted = TRUE]
  /\ UNCHANGED <<driver, version, stored, call, submitted, late, replaced>>

Lifecycle(archived) ==
  /\ Live
  /\ template' = [template EXCEPT !.archived = archived]
  /\ UNCHANGED <<driver, version, stored, call, submitted, late, replaced>>

AdminRemove ==
  /\ Live
  /\ template' = [template EXCEPT !.deleted = TRUE, !.archived = TRUE, !.visibility = "PRIVATE"]
  /\ UNCHANGED <<driver, version, stored, call, submitted, late, replaced>>

\* The current version is dropped whatever the template's review says, deleted or not.
Unpublish ==
  /\ template.exists
  /\ template' = [template EXCEPT !.visibility = "PRIVATE", !.current = "none"]
  /\ UNCHANGED <<driver, version, stored, call, submitted, late, replaced>>

-----------------------------------------------------------------------------
\* createVersion: the check, the manifest (and the preview, which shares its fate), the rows.

VersionCheck(c, v) ==
  /\ At(c, "idle") \/ At(c, "item")
  /\ Live
  /\ template.review # "PENDING"
  /\ Fresh(v)
  /\ Go(c, [pc |-> "creating", version |-> v, bulk |-> At(c, "item")])
  /\ stored' = stored \union {<<"manifest", v>>}
  /\ UNCHANGED <<driver, template, version, submitted, late, replaced>>

VersionWriteSlip(c) ==
  LET v == call[c].version
  IN /\ At(c, "creating")
     /\ version' = [version EXCEPT ![v].number = NewNumber]
     /\ template' = [template EXCEPT !.current = v]
     /\ late' = IF \E d \in Caller : At(d, "reviewing") THEN late \union {v} ELSE late
     /\ Go(c, IF call[c].bulk THEN [pc |-> "created"] ELSE Idle)
     /\ UNCHANGED <<driver, stored, submitted, replaced>>

VersionWrite(c) ==
  LET v == call[c].version
  IN /\ At(c, "creating")
     /\ version' = [version EXCEPT ![v].number = NewNumber]
     /\ template' = [template EXCEPT !.review = "DRAFT", !.current = v]
     /\ late' = IF \E d \in Caller : At(d, "reviewing") THEN late \union {v} ELSE late
     /\ Go(c, IF call[c].bulk THEN [pc |-> "created"] ELSE Idle)
     /\ UNCHANGED <<driver, stored, submitted, replaced>>

\* The preview is refused or the transaction fails: the object is deleted.  A transaction that
\* throws is taken not to have committed, here and in PublishUndo; if only the acknowledgement of
\* its COMMIT was lost, the code deletes the object of a row that is there.
VersionUndo(c) ==
  /\ At(c, "creating")
  /\ stored' = stored \ {<<"manifest", call[c].version>>}
  /\ Go(c, IF call[c].bulk THEN [pc |-> "created"] ELSE Idle)
  /\ UNCHANGED <<driver, template, version, submitted, late, replaced>>

\* createBulk, seen from one of its items: created, given a version, and removed again when this
\* item or another one fails.
CreateItem(c, visibility) ==
  /\ At(c, "idle")
  /\ ~template.exists
  /\ template' = [NoTemplate EXCEPT !.exists = TRUE, !.visibility = visibility]
  /\ Go(c, [pc |-> "item"])
  /\ UNCHANGED <<driver, version, stored, submitted, late, replaced>>

BulkEnd(c) ==
  /\ At(c, "created")
  /\ Go(c, Idle)
  /\ UNCHANGED <<driver, template, version, stored, submitted, late, replaced>>

BulkUndo(c) ==
  /\ At(c, "item") \/ At(c, "created")
  /\ template' = IF Live THEN [template EXCEPT !.deleted = TRUE] ELSE template
  /\ Go(c, Idle)
  /\ UNCHANGED <<driver, version, stored, submitted, late, replaced>>

-----------------------------------------------------------------------------
\* submit: it asks for a version but not for a review status.
Submit ==
  /\ Live
  /\ Rows # {}
  /\ template' = [template EXCEPT !.review = "PENDING"]
  /\ submitted' = submitted \union {Latest}
  /\ UNCHANGED <<driver, version, stored, call, late, replaced>>

\* review: the check, then one unconditional transaction for a refusal ...
ReviewCheck(c) ==
  /\ At(c, "idle")
  /\ Live
  /\ template.review = "PENDING"
  /\ Go(c, [pc |-> "reviewing"])
  /\ UNCHANGED <<driver, template, version, stored, submitted, late, replaced>>

Refuse(c, status) ==
  /\ At(c, "reviewing")
  /\ template' = [template EXCEPT !.review = status]
  /\ Go(c, Idle)
  /\ UNCHANGED <<driver, version, stored, submitted, late, replaced>>

\* ... and publish for an approval: the latest version is read and its bundle stored, which the
\* local driver refuses to do over an existing one (flag "wx") and S3 does not.
PublishPut(c) ==
  LET bundle == <<"bundle", Latest>>
  IN /\ At(c, "reviewing")
     /\ bundle \in stored => driver = "s3"
     /\ stored' = stored \union {bundle}
     /\ replaced' = IF bundle \in stored THEN replaced \union {Latest} ELSE replaced
     /\ Go(c, [pc |-> "publishing", version |-> Latest])
     /\ UNCHANGED <<driver, template, version, submitted, late>>

PublishRefusedSlip(c) ==
  /\ At(c, "reviewing")
  /\ stored' = stored \ {<<"bundle", Latest>>}
  /\ Go(c, Idle)
  /\ UNCHANGED <<driver, template, version, submitted, late, replaced>>

\* The storage fails, or the local driver refuses: nothing is cleaned up.
PublishRefused(c) ==
  /\ At(c, "reviewing")
  /\ Go(c, Idle)
  /\ UNCHANGED <<driver, template, version, stored, submitted, late, replaced>>

PublishWrite(c) ==
  LET v == call[c].version
  IN /\ At(c, "publishing")
     /\ version' = [version EXCEPT ![v].immutable = TRUE]
     /\ template' = [template EXCEPT !.review = "APPROVED", !.current = v]
     /\ Go(c, Idle)
     /\ UNCHANGED <<driver, stored, submitted, late, replaced>>

\* The transaction fails (another one of the template has committed): the bundle is deleted.
PublishUndo(c) ==
  /\ At(c, "publishing")
  /\ stored' = stored \ {<<"bundle", call[c].version>>}
  /\ Go(c, Idle)
  /\ UNCHANGED <<driver, template, version, submitted, late, replaced>>

\* The process stops; also a deletion of an object that fails, which is swallowed.
Crash(c) ==
  /\ ~At(c, "idle")
  /\ Go(c, Idle)
  /\ UNCHANGED <<driver, template, version, stored, submitted, late, replaced>>

Next ==
  \/ \E x \in Visibility : Create(x) \/ Update(x)
  \/ Remove \/ AdminRemove \/ Unpublish \/ Submit
  \/ \E b \in BOOLEAN : Lifecycle(b)
  \/ \E c \in Caller :
       \/ \E x \in Visibility : CreateItem(c, x)
       \/ \E v \in Version : VersionCheck(c, v)
       \/ VersionWrite(c) \/ VersionUndo(c) \/ BulkEnd(c) \/ BulkUndo(c)
       \/ ReviewCheck(c)
       \/ \E status \in {"REJECTED", "DRAFT"} : Refuse(c, status)
       \/ PublishPut(c) \/ PublishRefused(c) \/ PublishWrite(c) \/ PublishUndo(c)
       \/ Crash(c)

Spec == Init /\ [][Next]_vars

-----------------------------------------------------------------------------
\* The public list, the public page and the download of a version.

Shown ==
  /\ Live
  /\ template.review = "APPROVED" /\ ~template.archived
  /\ template.visibility \in {"PUBLIC", "UNLISTED"}
  /\ template.current # "none"

Listed == Shown /\ template.visibility = "PUBLIC"

Downloadable(v) ==
  /\ Live
  /\ template.review = "APPROVED" /\ ~template.archived
  /\ template.visibility = "PUBLIC"
  /\ v \in Rows /\ version[v].immutable

\* Explore and the public page never show content that no reviewer approved, whatever owners and
\* reviewers do meanwhile: what is shown is immutable, and what is listed can be downloaded.
PublicIsApproved ==
  /\ Shown => version[template.current].immutable
  /\ Listed => Downloadable(template.current)

\* A version is approved only if its owner asked for it, unless it was written after the reviewer
\* had found the template PENDING: only overlapping requests put another version before him.
OnlySubmittedApproved ==
  \A v \in Version : version[v].immutable => v \in submitted \union late

\* The objects of a row exist, also after failures and crashes, as long as a transaction that
\* throws has not committed: the manifest always, the bundle
\* of an immutable version unless S3 wrote it twice and the second approval then failed.  The
\* versions are numbered 1, 2, ... without a gap, and the current one is among them.
RowsAreStored ==
  /\ {version[v].number : v \in Rows} = 1 .. Cardinality(Rows)
  /\ template.current \in Rows \union {"none"}
  /\ \A v \in Rows : <<"manifest", v>> \in stored
  /\ \A v \in Rows : version[v].immutable =>
       <<"bundle", v>> \in stored \/ v \in replaced
=============================================================================
