-------------------------- MODULE MCRequestPersistence --------------------------
(***************************************************************************)
(* RequestTracking, and with it RequestPersistence, on small instances:    *)
(* either alike requests meet at the queue and nobody reads, or some that  *)
(* differ arrive while an administrator reads.                             *)
(***************************************************************************)
EXTENDS RequestTracking

CONSTANTS
  Reader, \* the records of the second scenario
  First   \* the one of them that may be of any shape

Secret(hidden, long) == [sensitive |-> TRUE, hidden |-> hidden, long |-> long]
Plain == [route |-> "plain", tracked |-> TRUE, query |-> NoPayload, email |-> {}, failed |-> FALSE]

\* Requests with nothing to hide, failed ones, and all there is to sanitize.
Shapes ==
  {Plain, [Plain EXCEPT !.failed = TRUE], [Plain EXCEPT !.tracked = FALSE]}
  \union {[Plain EXCEPT !.query.leaves = {leaf}] : leaf \in Leaf}
  \union {[Plain EXCEPT !.query = [leaves |-> {Secret(FALSE, long)}, big |-> TRUE]] : long \in BOOLEAN}
  \union {[Plain EXCEPT !.route = route, !.email = email] :
            route \in Route, email \in {{}, {"email"}}}

OnlyQueue ==
  /\ QueueInit
  /\ request = [r \in Record |-> [pc |-> "open", shape |-> Plain]]
  /\ rows = << >>
  /\ listing = [pc |-> "none"] /\ report = [pc |-> "none"]

Calm == {Plain, [Plain EXCEPT !.failed = TRUE]}

\* The others of the readers' records are alike.
OnlyReaders ==
  /\ QueueInit
  /\ \E shape \in Calm :
       request = [r \in Record |->
         IF r = First THEN NoRequest
         ELSE [pc |-> IF r \in Reader THEN "open" ELSE "unrecorded", shape |-> shape]]
  /\ rows = << >>
  /\ listing = NoListing /\ report = NoReport

MCInit == OnlyQueue \/ OnlyReaders
MCSpec == MCInit /\ [][TrackingNext]_trackingVars /\ Fairness

\* Without a reader the order of the rows matters to nobody: they stand in that of Record.  With
\* one there is one attempt per record, one record queued, no shutdown, and no other than calm requests any more.
Bound ==
  IF listing.pc = "none"
  THEN rows = SelectSeq(SetToSeq(Record), LAMBDA r : r \in store)
  ELSE /\ ~ShuttingDown /\ \A r \in Record : writing[r] <= 1
       /\ Len(queue) <= 1
       /\ Stage(First, "none") \/ request[First].shape \in Calm
            \/ (listing.pc = "idle" /\ report.pc = "idle")
       /\ listing.pc = "idle" \/ report.pc = "idle"
=============================================================================
