--------------------------- MODULE RequestPersistence ---------------------------
(***************************************************************************)
(* RequestPersistenceService (request-tracking/request-persistence.service *)
(* .ts): finished HTTP requests are written to the database by a bounded   *)
(* in-process queue.  JavaScript runs one callback at a time: a step is the*)
(* code between two awaits.  Two loops may shift from the queue, the one   *)
(* schedule() starts and the one of onApplicationShutdown.                 *)
(*                                                                         *)
(* The database is external: an upsert succeeds, or fails with or without  *)
(* having been committed.                                                  *)
(***************************************************************************)
EXTENDS Naturals, Sequences

CONSTANTS
  Record,      \* records of finished requests, each with its own requestId
  MaxQueue,    \* API_REQUEST_QUEUE_MAX_SIZE
  Sync,        \* API_REQUEST_PERSISTENCE_MODE = 'sync'
  MaxAttempts  \* the 3 of persistWithRetry

ASSUME QueueAssumption == MaxQueue \in Nat /\ MaxAttempts \in Nat \ {0} /\ Sync \in BOOLEAN

VARIABLES
  queue,
  processing,  \* the flag that keeps schedule() from starting a second loop
  scheduled,   \* process() is waiting for setImmediate
  loop,        \* the flush of process() and the flush of the shutdown hook
  writing,     \* attempts of the persistWithRetry calls in progress, 0 for none
  store,       \* ApiRequestRecord rows
  logged,      \* records reported as api_request_persistence_failed
  accepted,    \* records given to enqueue
  exited       \* the process is gone

queueVars == <<queue, processing, scheduled, loop, writing, store, logged, accepted, exited>>

Loops == {"process", "shutdown"}
IdleLoop == [pc |-> "idle", item |-> {}]

QueueInit ==
  /\ queue = << >>
  /\ processing = FALSE
  /\ scheduled = FALSE
  /\ loop = [l \in Loops |-> IdleLoop]
  /\ writing = [r \in Record |-> 0]
  /\ store = {}
  /\ logged = {}
  /\ accepted = {}
  /\ exited = FALSE

ShuttingDown == loop["shutdown"].pc # "idle"

-----------------------------------------------------------------------------
\* enqueue: full queues and the sync mode write at once, and nobody waits for the write.
WritesAtOnce == Sync \/ Len(queue) >= MaxQueue

\* schedule
Schedule ==
  /\ processing' = TRUE
  /\ scheduled' = (scheduled \/ ~processing)

Enqueue(r) ==
  /\ r \notin accepted
  /\ ~ShuttingDown
  /\ accepted' = accepted \union {r}
  /\ IF WritesAtOnce
     THEN /\ writing' = [writing EXCEPT ![r] = 1]
          /\ UNCHANGED <<queue, processing, scheduled>>
     ELSE /\ queue' = Append(queue, r)
          /\ Schedule
          /\ UNCHANGED writing
  /\ UNCHANGED <<loop, store, logged, exited>>

-----------------------------------------------------------------------------
(***************************************************************************)
(* One turn of flush's while: shift an item and call persistWithRetry, or  *)
(* leave the loop.                                                         *)
(***************************************************************************)
Turn(l) ==
  IF queue = << >>
  THEN /\ loop' = [loop EXCEPT ![l] = [pc |-> "flushed", item |-> {}]]
       /\ UNCHANGED <<queue, writing>>
  ELSE /\ queue' = Tail(queue)
       /\ loop' = [loop EXCEPT ![l] = [pc |-> "waiting", item |-> {Head(queue)}]]
       /\ writing' = [writing EXCEPT ![Head(queue)] = 1]

\* setImmediate calls process().
ProcessStarts ==
  /\ scheduled
  /\ scheduled' = FALSE
  /\ Turn("process")
  /\ UNCHANGED <<processing, store, logged, accepted, exited>>

\* onApplicationShutdown, once the HTTP server is closed.
ShutdownStarts ==
  /\ ~ShuttingDown
  /\ Turn("shutdown")
  /\ UNCHANGED <<processing, scheduled, store, logged, accepted, exited>>

\* The await of persistWithRetry resumes.
LoopResumes(l) ==
  /\ loop[l].pc = "waiting"
  /\ \A r \in loop[l].item : writing[r] = 0
  /\ Turn(l)
  /\ UNCHANGED <<processing, scheduled, store, logged, accepted, exited>>

\* The finally of process(), a later microtask than the end of flush.
ProcessEndsSlip ==
  /\ loop["process"].pc = "flushed"
  /\ loop' = [loop EXCEPT !["process"] = IdleLoop]
  /\ processing' = FALSE
  /\ UNCHANGED <<queue, scheduled, writing, store, logged, accepted, exited>>

ProcessEnds ==
  /\ loop["process"].pc = "flushed"
  /\ loop' = [loop EXCEPT !["process"] = IdleLoop]
  /\ processing' = (queue # << >>)
  /\ scheduled' = (queue # << >>)
  /\ UNCHANGED <<queue, writing, store, logged, accepted, exited>>

\* The shutdown hook has returned: Nest ends the process, whatever is in progress.
Exit ==
  /\ loop["shutdown"].pc = "flushed"
  /\ exited' = TRUE
  /\ UNCHANGED <<queue, processing, scheduled, loop, writing, store, logged, accepted>>

-----------------------------------------------------------------------------
UpsertSucceeds(r) ==
  /\ writing[r] > 0
  /\ store' = store \union {r}
  /\ writing' = [writing EXCEPT ![r] = 0]
  /\ UNCHANGED <<queue, processing, scheduled, loop, logged, accepted, exited>>

UpsertFailsSlip(r) ==
  /\ writing[r] > 0
  /\ writing' = [writing EXCEPT ![r] = IF @ < MaxAttempts THEN @ + 1 ELSE 0]
  /\ UNCHANGED <<queue, processing, scheduled, loop, store, logged, accepted, exited>>

UpsertForeverSlip(r) ==
  /\ writing[r] > 0
  /\ writing' = [writing EXCEPT ![r] = IF @ < MaxAttempts THEN @ + 1 ELSE 1]
  /\ UNCHANGED <<queue, processing, scheduled, loop, store, logged, accepted, exited>>

UpsertFails(r) ==
  /\ writing[r] > 0
  /\ store' \in {store, store \union {r}}
  /\ IF writing[r] < MaxAttempts
     THEN writing' = [writing EXCEPT ![r] = @ + 1] /\ UNCHANGED logged
     ELSE writing' = [writing EXCEPT ![r] = 0] /\ logged' = logged \union {r}
  /\ UNCHANGED <<queue, processing, scheduled, loop, accepted, exited>>

Upsert(r) == UpsertSucceeds(r) \/ UpsertFails(r)

Flush == ProcessStarts \/ ProcessEnds \/ \E l \in Loops : LoopResumes(l)

QueueNext ==
  /\ ~exited
  /\ \/ \E r \in Record : Enqueue(r) \/ Upsert(r)
     \/ Flush
     \/ ShutdownStarts
     \/ Exit

QueueSpec == QueueInit /\ [][QueueNext]_queueVars

\* The event loop runs every callback that is due, and every upsert gets an answer.
Fairness ==
  /\ WF_queueVars(~exited /\ Flush)
  /\ \A r \in Record : WF_queueVars(~exited /\ Upsert(r))

FairSpec == QueueSpec /\ Fairness

-----------------------------------------------------------------------------
(***************************************************************************)
(* Properties.                                                             *)
(***************************************************************************)

\* Types, and the bound on the queue.
TypeOK ==
  /\ queue \in Seq(Record) /\ Len(queue) <= MaxQueue
  /\ processing \in BOOLEAN /\ scheduled \in BOOLEAN /\ exited \in BOOLEAN
  /\ loop \in [Loops -> [pc : {"idle", "waiting", "flushed"}, item : SUBSET Record]]
  /\ writing \in [Record -> 0..MaxAttempts]
  /\ store \subseteq Record /\ logged \subseteq Record /\ accepted \subseteq Record

Waiting(r) == (\E i \in DOMAIN queue : queue[i] = r) \/ writing[r] > 0

\* A record that was accepted is queued, being written, written, or reported as lost (README:
\* "final loss is explicitly logged"), with two loops on one queue and at its limit.
NoSilentLoss ==
  \A r \in accepted : Waiting(r) \/ r \in store \union logged

\* No lost wake-up: while the queue holds a record some loop is due to come for it.
NothingStranded ==
  queue # << >> =>
    \/ scheduled
    \/ \E l \in Loops : loop[l].pc = "waiting"
    \/ loop["process"].pc = "flushed"

\* One loop at a time is started by schedule(): process() is not called again while it runs.
OneProcess == scheduled => loop["process"].pc = "idle"

\* The queue keeps its bound, and the flag `processing` is enough to have a loop for every
\* record and never two of them.
QueueServed == Len(queue) <= MaxQueue /\ NothingStranded /\ OneProcess

\* An accepted record is written or reported in the end, unless the process exits before.
RecordSettles ==
  \A r \in Record : r \in accepted ~> (r \in store \union logged \/ exited)
=============================================================================
