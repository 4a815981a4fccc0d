---------------------------- MODULE RequestTracking ----------------------------
(***************************************************************************)
(* HTTP requests on their way into the ApiRequestRecord table and to the   *)
(* administrator who reads it: RequestTrackingMiddleware, the queue of     *)
(* RequestPersistence, the retention job, and ApiRequestsService.          *)
(*                                                                         *)
(* The table is read by statements that each see what is committed by      *)
(* then: a list page by page, a report by one count after another.         *)
(***************************************************************************)
EXTENDS RequestPersistence, Sanitizer, SequencesExt, FiniteSetsExt

CONSTANTS
  Shape,   \* requests that may arrive: [route, tracked, query, email, failed]
  Capture, \* API_REQUEST_BODY_CAPTURE_ENABLED
  Limit    \* rows on a page

ASSUME TrackingAssumption ==
  /\ Capture \in BOOLEAN /\ Limit \in Nat \ {0}
  /\ \A shape \in Shape : /\ shape.route \in Route /\ shape.query \in Payload
                           /\ shape.tracked \in BOOLEAN /\ shape.failed \in BOOLEAN

VARIABLES
  request, \* [Record -> HTTP request]
  rows,    \* the table, newest createdAt first
  listing, \* an administrator pages through the table
  report   \* an administrator asks for the usage report

readVars == <<listing, report>>
trackingVars == <<queueVars, request, rows, readVars>>

NoRequest == [pc |-> "none"]
NoListing == [pc |-> "idle"]
NoReport == [pc |-> "idle"]

TrackingInit ==
  /\ QueueInit
  /\ request = [r \in Record |-> NoRequest]
  /\ rows = << >>
  /\ listing = NoListing
  /\ report = NoReport

Rows == ToSet(rows)
Stage(r, pc) == request[r].pc = pc

-----------------------------------------------------------------------------
\* use: MCP requests are passed on without a word, the others wait for 'finish'.
Arrive(r, shape) ==
  /\ Stage(r, "none") /\ ~ShuttingDown
  /\ request' = [request EXCEPT ![r] = [pc |-> "open", shape |-> shape]]
  /\ UNCHANGED <<queueVars, rows, readVars>>

\* The listener of 'finish': what is not excluded is sanitized and given to enqueue.
Finish(r) ==
  /\ Stage(r, "open")
  /\ request[r].shape.tracked
  /\ request' = [request EXCEPT ![r].pc = "finished"]
  /\ Enqueue(r)
  /\ UNCHANGED <<rows, readVars>>

\* Excluded and MCP requests leave no record, and neither do connections closed before the end.
Unrecorded(r) ==
  /\ Stage(r, "open")
  /\ request' = [request EXCEPT ![r].pc = "unrecorded"]
  /\ UNCHANGED <<queueVars, rows, readVars>>

\* The record of a finished request.
RecordOf(r) ==
  LET shape == request[r].shape
      query == SanitizePayload(shape.query)
      body  == SanitizeHttpBody(shape.route, shape.email, Capture)
  IN [query        |-> query.readable,
      requestBody  |-> body.readable,
      bodyCaptured |-> body.captured,
      bodyRedacted |-> body.redacted \/ query.redacted,
      failed       |-> shape.failed]

\* persistWithRetry; statements in flight together may be stamped and committed in any order.
Persist(r) ==
  /\ Upsert(r)
  /\ IF store' = store THEN UNCHANGED rows
     ELSE \E i \in 1 .. Len(rows) + 1 : rows' = InsertAt(rows, i, r)
  /\ report' = IF report.pc = "counting" /\ store' # store
               THEN [report EXCEPT !.changes = report.changes + 1] ELSE report
  /\ UNCHANGED <<request, listing>>

\* cleanup of the retention job: the oldest rows, which nobody is still writing.
Cleanup ==
  /\ rows # << >> /\ writing[Last(rows)] = 0
  /\ rows' = Front(rows)
  /\ report' = IF report.pc = "counting"
               THEN [report EXCEPT !.changes = report.changes + 1] ELSE report
  /\ UNCHANGED <<queueVars, request, listing>>

-----------------------------------------------------------------------------
\* The rows a query's `where` selects: all of them, or those of an outcome.
Matches(r, outcome) == outcome = "all" \/ (request[r].shape.failed = (outcome = "failed"))

\* orderBy createdAt and id: row a comes after row b in the list that is being read.
Follows(a, b) ==
  \E i, k \in DOMAIN rows :
    a = rows[i] /\ b = rows[k] /\ IF listing.order = "desc" THEN i > k ELSE i < k

\* findMany: what matches and follows the cursor's row, nothing if that row is gone.
Found ==
  {r \in Rows : Matches(r, listing.outcome) /\ \A c \in listing.cursor : Follows(r, c)}

\* take: the first Limit of them.
Page == {r \in Found : Cardinality({s \in Found : Follows(r, s)}) < Limit}

StartListing(order, outcome) ==
  /\ listing.pc = "idle"
  /\ listing' = [pc |-> "reading", order |-> order, outcome |-> outcome,
                 present |-> Rows, seen |-> {}, repeated |-> FALSE, cursor |-> {}, lost |-> FALSE]
  /\ UNCHANGED <<queueVars, request, rows, report>>

ReadPageSlip ==
  /\ listing.pc = "reading"
  /\ listing' = [listing EXCEPT
       !.seen = listing.seen \union Page,
       !.repeated = listing.repeated \/ listing.seen \intersect Page # {},
       !.cursor = IF Page = Found THEN {}
                  ELSE {CHOOSE r \in Found \ Page : \A s \in Found \ Page : s = r \/ Follows(s, r)},
       !.lost = listing.lost \/ ~(listing.cursor \subseteq Rows),
       !.pc = IF Page = Found THEN "done" ELSE "reading"]
  /\ UNCHANGED <<queueVars, request, rows, report>>

\* list: one row more than the page tells whether there is another page, which begins after
\* the last row of this one.
ReadPage ==
  /\ listing.pc = "reading"
  /\ listing' = [listing EXCEPT
       !.seen = listing.seen \union Page,
       !.repeated = listing.repeated \/ listing.seen \intersect Page # {},
       !.cursor = IF Page = Found THEN {} ELSE {CHOOSE r \in Page : \A s \in Page : s = r \/ Follows(r, s)},
       !.lost = listing.lost \/ ~(listing.cursor \subseteq Rows),
       !.pc = IF Page = Found THEN "done" ELSE "reading"]
  /\ UNCHANGED <<queueVars, request, rows, report>>

-----------------------------------------------------------------------------
\* usage, and stats: the total, the failures and the groups are counted by statements of their
\* own, READ COMMITTED though in one transaction.
CountTotal ==
  /\ report.pc = "idle"
  /\ report' = [pc |-> "counting", total |-> Cardinality(Rows), changes |-> 0]
  /\ UNCHANGED <<queueVars, request, rows, listing>>

CountErrors ==
  /\ report.pc = "counting" /\ "errors" \notin DOMAIN report
  /\ report' = [pc |-> "counting", total |-> report.total, changes |-> report.changes,
                errors |-> Cardinality({r \in Rows : Matches(r, "failed")})]
  /\ UNCHANGED <<queueVars, request, rows, listing>>

CountGroups ==
  /\ report.pc = "counting" /\ "errors" \in DOMAIN report
  /\ report' = [pc |-> "done", total |-> report.total, changes |-> report.changes,
                errors |-> report.errors,
                byStatus |-> [failed \in BOOLEAN |->
                   Cardinality({r \in Rows : request[r].shape.failed = failed})]]
  /\ UNCHANGED <<queueVars, request, rows, listing>>

-----------------------------------------------------------------------------
\* What RequestPersistence does on its own.
Internal ==
  /\ Flush \/ ShutdownStarts \/ Exit
  /\ UNCHANGED <<request, rows, readVars>>

TrackingNext ==
  /\ ~exited
  /\ \/ \E r \in Record :
          \/ \E shape \in Shape : Arrive(r, shape)
          \/ Finish(r) \/ Unrecorded(r) \/ Persist(r)
     \/ Internal
     \/ Cleanup
     \/ \E order \in {"asc", "desc"}, outcome \in {"all", "failed"} : StartListing(order, outcome)
     \/ ReadPage
     \/ CountTotal \/ CountErrors \/ CountGroups

TrackingSpec == TrackingInit /\ [][TrackingNext]_trackingVars /\ Fairness

-----------------------------------------------------------------------------
\* What is stored of a request never shows a value given under a sensitive name, however long or
\* deep it is, nor more of a body than the email of an authentication route; a query something
\* was withheld from says so; what is excluded has no row.
SecretsRedacted ==
  \A r \in Rows :
    LET shape == request[r].shape
        row == RecordOf(r)
    IN /\ shape.tracked
       /\ \A leaf \in row.query : ~leaf.sensitive
       /\ row.requestBody \subseteq (IF shape.route = "auth-email" THEN {"email"} ELSE {})
       /\ row.requestBody # {} => Capture /\ row.bodyCaptured
       /\ (\E leaf \in shape.query.leaves : leaf.sensitive /\ ~leaf.hidden) => row.bodyRedacted

\* Paging while records are written and the oldest are deleted: a list read to its end shows no
\* row twice, and every row that was there when it began and still is -- in ascending order
\* only if the row the next page starts from was not deleted meanwhile, which ends the list.
PagesComplete ==
  listing.pc = "done" =>
    /\ ~listing.repeated
    /\ listing.order = "desc" \/ ~listing.lost =>
         {r \in listing.present \cap Rows : Matches(r, listing.outcome)} \subseteq listing.seen

\* A usage report is off by no more than the rows written and deleted between its statements.
ReportAddsUp ==
  report.pc = "done" =>
    LET sum == report.byStatus[TRUE] + report.byStatus[FALSE]
    IN /\ report.total - sum \in -report.changes .. report.changes
       /\ report.errors - report.byStatus[TRUE] \in -report.changes .. report.changes

\* An administrator's reads of the table, which is written and cleaned up all the time.
ReadsAreTrue == PagesComplete /\ ReportAddsUp
=============================================================================
