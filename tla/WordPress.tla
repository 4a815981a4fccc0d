------------------------------- MODULE WordPress -------------------------------
(***************************************************************************)
(* One WordPress domain: the plugin's requests to be connected to an       *)
(* account (wordpress/connection-request.service.ts), the sites those      *)
(* approvals make (wordpress.service.ts), how a plugin's key is resolved   *)
(* to one of them (wordpress-installation.service.ts) and the edit         *)
(* sessions plugin and editor share (edit-session.service.ts).             *)
(*                                                                         *)
(* No write of a status is conditional: each follows from a row that was   *)
(* read, and perhaps expired, before it.                                   *)
(***************************************************************************)
EXTENDS FiniteSets

CONSTANTS
  User,      \* accounts that may approve
  Request,   \* bound: connection requests
  Key,       \* installation keys: those plugins bring, and those rotateKey draws
  Edit,      \* bound: edit sessions
  Object,    \* storage keys of assets; bound: uploads
  Operation  \* bound: requests of several steps in flight

ASSUME UsersAssumption == "none" \notin User

VARIABLES
  request,    \* [Request -> [status, lapsed, key, user]]; user is who decided last
  site,       \* [User -> [key, enabled]]; key "none" is no row: (userId, domain) is unique
  edit,       \* [Edit -> [status, lapsed, owner]]
  asset,      \* WordPressEditAsset rows: [edit, object]
  uploaded,   \* objects in the storage
  operation,  \* [Operation -> request in flight]
  drawnFor,   \* history: [Key -> the user rotateKey drew the key for]
  overlapped, \* history: approvals in flight together with another decision: [request, user]
  inTime      \* history: edit sessions completed before their deadline

wordpressVars == <<request, site, edit, asset, uploaded, operation, drawnFor, overlapped, inTime>>

NoRequest == [status |-> "none", lapsed |-> FALSE, key |-> "none", user |-> "none"]
NoSite == [key |-> "none", enabled |-> FALSE]
NoEdit == [status |-> "none", lapsed |-> FALSE]
NoOperation == [pc |-> "idle"]

WordPressInit ==
  /\ request = [r \in Request |-> NoRequest]
  /\ site = [u \in User |-> NoSite]
  /\ edit = [e \in Edit |-> NoEdit]
  /\ asset = {} /\ uploaded = {}
  /\ operation = [c \in Operation |-> NoOperation]
  /\ drawnFor = [k \in Key |-> "none"] /\ overlapped = {} /\ inTime = {}

Doing(c, pc) == operation[c].pc = pc
Proceed(c, to) == operation' = [operation EXCEPT ![c] = to]

-----------------------------------------------------------------------------
\* create: the domain's pending requests expire in one statement, the new one follows in another.
CreateExpire(c) ==
  /\ Doing(c, "idle")
  /\ request' = [r \in Request |-> IF request[r].status = "PENDING"
                                   THEN [request[r] EXCEPT !.status = "EXPIRED"]
                                   ELSE request[r]]
  /\ Proceed(c, [pc |-> "connecting"])
  /\ UNCHANGED <<site, edit, asset, uploaded, drawnFor, overlapped, inTime>>

\* The key is the client's own.  Nothing asks whether it is new: a plugin keeps one, and brings it
\* again when it reconnects; it may also bring one that rotateKey drew.
CreateRequest(c, r, k) ==
  /\ Doing(c, "connecting")
  /\ request[r].status = "none"
  /\ request' = [request EXCEPT ![r] = [NoRequest EXCEPT !.status = "PENDING", !.key = k]]
  /\ Proceed(c, NoOperation)
  /\ UNCHANGED <<site, edit, asset, uploaded, drawnFor, overlapped, inTime>>

\* Fifteen minutes pass; only of a pending request does anything look at the time.
RequestLapses(r) ==
  /\ request[r].status = "PENDING" /\ ~request[r].lapsed
  /\ request' = [request EXCEPT ![r].lapsed = TRUE]
  /\ UNCHANGED <<site, edit, asset, uploaded, operation, drawnFor, overlapped, inTime>>

\* Operations that found the request undecided and have yet to write it.
Deciders(r, kinds) == {d \in Operation : operation[d].pc \in kinds /\ operation[d].request = r}

\* The approvals in flight that a further decision of the request overlaps.
Overtaken(r) == {[request |-> r, user |-> operation[d].user] : d \in Deciders(r, {"approving"})}

\* refreshExpiry, of get, approve and deny alike, finds a pending request past its time ...
FindLapsed(c, r) ==
  /\ Doing(c, "idle")
  /\ request[r].status = "PENDING" /\ request[r].lapsed
  /\ Proceed(c, [pc |-> "expiring", request |-> r])
  /\ overlapped' = overlapped \union Overtaken(r)
  /\ UNCHANGED <<request, site, edit, asset, uploaded, drawnFor, inTime>>

\* ... and expires it, whatever it has become.
Expire(c) ==
  /\ Doing(c, "expiring")
  /\ request' = [request EXCEPT ![operation[c].request].status = "EXPIRED"]
  /\ Proceed(c, NoOperation)
  /\ UNCHANGED <<site, edit, asset, uploaded, drawnFor, overlapped, inTime>>

ApproveCheckSlip(c, r, u) ==
  /\ Doing(c, "idle")
  /\ request[r].status \in {"PENDING", "APPROVED"}
  /\ Proceed(c, [pc |-> "approving", request |-> r, user |-> u])
  /\ overlapped' = overlapped \union Overtaken(r) \union
       {[request |-> r, user |-> u] : d \in Deciders(r, {"approving", "denying", "expiring"})}
  /\ UNCHANGED <<request, site, edit, asset, uploaded, drawnFor, inTime>>

\* approve: requirePending ...
ApproveCheck(c, r, u) ==
  /\ Doing(c, "idle")
  /\ request[r].status = "PENDING" /\ ~request[r].lapsed
  /\ Proceed(c, [pc |-> "approving", request |-> r, user |-> u])
  /\ overlapped' = overlapped \union Overtaken(r) \union
       {[request |-> r, user |-> u] : d \in Deciders(r, {"approving", "denying", "expiring"})}
  /\ UNCHANGED <<request, site, edit, asset, uploaded, drawnFor, inTime>>

\* ... and the transaction: the user's site of this domain is made or given the request's key.
Approve(c) ==
  LET r == operation[c].request
      u == operation[c].user
  IN /\ Doing(c, "approving")
     /\ site' = [site EXCEPT ![u] = [key |-> request[r].key, enabled |-> TRUE]]
     /\ request' = [request EXCEPT ![r].status = "APPROVED", ![r].user = u]
     /\ Proceed(c, NoOperation)
     /\ UNCHANGED <<edit, asset, uploaded, drawnFor, overlapped, inTime>>

DenyCheck(c, r, u) ==
  /\ Doing(c, "idle")
  /\ request[r].status = "PENDING" /\ ~request[r].lapsed
  /\ Proceed(c, [pc |-> "denying", request |-> r, user |-> u])
  /\ overlapped' = overlapped \union Overtaken(r)
  /\ UNCHANGED <<request, site, edit, asset, uploaded, drawnFor, inTime>>

Deny(c) ==
  /\ Doing(c, "denying")
  /\ request' = [request EXCEPT ![operation[c].request].status = "DENIED",
                                ![operation[c].request].user = operation[c].user]
  /\ Proceed(c, NoOperation)
  /\ UNCHANGED <<site, edit, asset, uploaded, drawnFor, overlapped, inTime>>

-----------------------------------------------------------------------------
\* The user's management of a connected site.
Connected(u) == site[u].key # "none"

SetEnabled(u, enabled) ==
  /\ Connected(u)
  /\ site' = [site EXCEPT ![u].enabled = enabled]
  /\ UNCHANGED <<request, edit, asset, uploaded, operation, drawnFor, overlapped, inTime>>

DisconnectSlip(u) ==
  LET gone == {e \in Edit : edit[e].status \notin {"none", "gone"} /\ edit[e].owner = u}
  IN /\ Connected(u)
     /\ site' = [site EXCEPT ![u] = NoSite]
     /\ edit' = [e \in Edit |-> IF e \in gone THEN [status |-> "gone", lapsed |-> TRUE]
                                              ELSE edit[e]]
     /\ UNCHANGED <<request, asset, uploaded, operation, drawnFor, overlapped, inTime>>

\* The site's edit sessions and their assets go with the row; the objects stay.
Disconnect(u) ==
  LET gone == {e \in Edit : edit[e].status \notin {"none", "gone"} /\ edit[e].owner = u}
  IN /\ Connected(u)
     /\ site' = [site EXCEPT ![u] = NoSite]
     /\ edit' = [e \in Edit |-> IF e \in gone THEN [status |-> "gone", lapsed |-> TRUE]
                                              ELSE edit[e]]
     /\ asset' = {a \in asset : a.edit \notin gone}
     /\ UNCHANGED <<request, uploaded, operation, drawnFor, overlapped, inTime>>

\* The key is fresh (32 random bytes): none that anyone brought or drew.
RotateKey(u, k) ==
  /\ Connected(u)
  /\ drawnFor[k] = "none" /\ \A r \in Request : request[r].key # k
  /\ site' = [site EXCEPT ![u].key = k]
  /\ drawnFor' = [drawnFor EXCEPT ![k] = u]
  /\ UNCHANGED <<request, edit, asset, uploaded, operation, overlapped, inTime>>

\* The sites that answer to a key.  Users who approved requests with the same key share it, and
\* resolve serves the first site the database returns.
Answering(k) == {u \in User : site[u].key = k /\ site[u].enabled}

-----------------------------------------------------------------------------
\* Edit sessions: the plugin opens one for the site its key resolves to.
OpenEdit(e, k) ==
  /\ edit[e].status = "none"
  /\ \E u \in Answering(k) :
       edit' = [edit EXCEPT ![e] = [status |-> "OPEN", lapsed |-> FALSE, owner |-> u]]
  /\ UNCHANGED <<request, site, asset, uploaded, operation, drawnFor, overlapped, inTime>>

\* Eight hours pass.
EditLapses(e) ==
  /\ edit[e].status \notin {"none", "gone"} /\ ~edit[e].lapsed
  /\ edit' = [edit EXCEPT ![e].lapsed = TRUE]
  /\ UNCHANGED <<request, site, asset, uploaded, operation, drawnFor, overlapped, inTime>>

FindLapsedEditSlip(c, e) ==
  /\ Doing(c, "idle")
  /\ edit[e].status \notin {"none", "gone"} /\ edit[e].lapsed
  /\ Proceed(c, [pc |-> "expiringEdit", edit |-> e])
  /\ UNCHANGED <<request, site, edit, asset, uploaded, drawnFor, overlapped, inTime>>

\* loadFresh, which every operation on a session begins with, the plugin's reads included.
FindLapsedEdit(c, e) ==
  /\ Doing(c, "idle")
  /\ edit[e].status = "OPEN" /\ edit[e].lapsed
  /\ Proceed(c, [pc |-> "expiringEdit", edit |-> e])
  /\ UNCHANGED <<request, site, edit, asset, uploaded, drawnFor, overlapped, inTime>>

\* The row may have been deleted with its site meanwhile: the update then fails.
ExpireEdit(c) ==
  LET e == operation[c].edit
  IN /\ Doing(c, "expiringEdit")
     /\ edit' = IF edit[e].status = "gone" THEN edit
                ELSE [edit EXCEPT ![e].status = "EXPIRED"]
     /\ Proceed(c, NoOperation)
     /\ UNCHANGED <<request, site, asset, uploaded, drawnFor, overlapped, inTime>>

Open(e) == edit[e].status = "OPEN" /\ ~edit[e].lapsed

CompleteCheck(c, e) ==
  /\ Doing(c, "idle")
  /\ Open(e)
  /\ Proceed(c, [pc |-> "completing", edit |-> e])
  /\ UNCHANGED <<request, site, edit, asset, uploaded, drawnFor, overlapped, inTime>>

Complete(c) ==
  LET e == operation[c].edit
  IN /\ Doing(c, "completing")
     /\ edit' = IF edit[e].status = "gone" THEN edit
                ELSE [edit EXCEPT ![e].status = "COMPLETED"]
     /\ inTime' = IF edit[e].lapsed THEN inTime ELSE inTime \union {e}
     /\ Proceed(c, NoOperation)
     /\ UNCHANGED <<request, site, asset, uploaded, drawnFor, overlapped>>

\* addAsset and addOutputAsset: the check, the object, the row.
AssetCheck(c, e, o) ==
  /\ Doing(c, "idle")
  /\ Open(e)
  /\ o \notin uploaded
  /\ uploaded' = uploaded \union {o}
  /\ Proceed(c, [pc |-> "adding", edit |-> e, object |-> o])
  /\ UNCHANGED <<request, site, edit, asset, drawnFor, overlapped, inTime>>

\* No session, no row (the foreign key): the object stays.
AssetWrite(c) ==
  LET e == operation[c].edit
  IN /\ Doing(c, "adding")
     /\ asset' = IF edit[e].status = "gone" THEN asset
                 ELSE asset \union {[edit |-> e, object |-> operation[c].object]}
     /\ Proceed(c, NoOperation)
     /\ UNCHANGED <<request, site, edit, uploaded, drawnFor, overlapped, inTime>>

\* The process stops or the database fails.
OperationDies(c) ==
  /\ ~Doing(c, "idle")
  /\ Proceed(c, NoOperation)
  /\ UNCHANGED <<request, site, edit, asset, uploaded, drawnFor, overlapped, inTime>>

WordPressNext ==
  \/ \E r \in Request : RequestLapses(r)
  \/ \E u \in User :
       \/ \E b \in BOOLEAN : SetEnabled(u, b)
       \/ \E k \in Key : RotateKey(u, k)
       \/ Disconnect(u)
  \/ \E e \in Edit : EditLapses(e) \/ \E k \in Key : OpenEdit(e, k)
  \/ \E c \in Operation :
       \/ CreateExpire(c) \/ Expire(c) \/ Approve(c) \/ Deny(c)
       \/ ExpireEdit(c) \/ Complete(c) \/ AssetWrite(c) \/ OperationDies(c)
       \/ \E r \in Request :
            \/ \E k \in Key : CreateRequest(c, r, k)
            \/ FindLapsed(c, r)
            \/ \E u \in User : ApproveCheck(c, r, u) \/ DenyCheck(c, r, u)
       \/ \E e \in Edit :
            \/ FindLapsedEdit(c, e) \/ CompleteCheck(c, e)
            \/ \E o \in Object : AssetCheck(c, e, o)

WordPressSpec == WordPressInit /\ [][WordPressNext]_wordpressVars

-----------------------------------------------------------------------------
\* A plugin's key reaches an account only with that account's consent: a connected site has a key
\* that was drawn for its user, or a request with the key records that this user approved it.  So
\* a request denied, expired or undecided connects nobody, one approval connects one account, and
\* accounts that share a key approved a request each.  Only of an approval that another decision
\* of the request overlapped may the row tell something else: the last of them wrote it.
SitesWereApproved ==
  \A u \in User : Connected(u) =>
    \/ drawnFor[site[u].key] = u
    \/ \E r \in Request :
         /\ request[r].key = site[u].key
         /\ \/ request[r].status = "APPROVED" /\ request[r].user = u
            \/ [request |-> r, user |-> u] \in overlapped

\* The result of an edit session completed before its deadline stays available to the plugin,
\* however late it asks and whatever else reads the session meanwhile; only its site's removal
\* takes it away.
InTimeIsKept ==
  \A e \in inTime : edit[e].status \in {"COMPLETED", "gone"}

\* Every asset the plugin is told of has its object and its session, though a session may expire
\* or lose its site between the upload and the row.
AssetsAreStored ==
  \A a \in asset : a.object \in uploaded /\ edit[a.edit].status \notin {"none", "gone"}
=============================================================================
