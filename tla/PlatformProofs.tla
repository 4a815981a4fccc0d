--------------------------- MODULE PlatformProofs -----------------------------
(***************************************************************************)
(* The safety of what the other components stand on: the record of HTTP    *)
(* requests (RequestPersistence and RequestTracking), for any number of    *)
(* records, any queue, any number of attempts and any page size, and the   *)
(* accounts, sessions and sign-in (SocialSignIn, and with it Accounts),    *)
(* for any number of users, accounts, sessions, requests and flows.        *)
(*                                                                         *)
(* Of the queue, only NothingStranded and OneProcess need strengthening:   *)
(* processing is TRUE exactly while process() is waiting for setImmediate  *)
(* or runs.  Tracking only takes steps of the queue, so it inherits those  *)
(* results; what is stored, what a usage report counted and what the pages *)
(* of a list showed come next.                                             *)
(*                                                                         *)
(* What a request to sign in has read holds when it writes because rows    *)
(* only grow: nobody unregisters, nobody loses the proof of a mailbox, no  *)
(* session comes back.  Every session is a family of refresh tokens.       *)
(***************************************************************************)
EXTENDS RequestTracking, SocialSignIn, SequenceTheorems, FiniteSetTheorems, WellFoundedInduction,
        TLAPS

-----------------------------------------------------------------------------
(***************************************************************************)
(* The queue.                                                              *)
(***************************************************************************)
FlagIsLoop == processing <=> scheduled \/ loop["process"].pc # "idle"

QueueInv ==
  /\ TypeOK
  /\ NoSilentLoss
  /\ NothingStranded
  /\ OneProcess
  /\ FlagIsLoop

\* One turn of the while keeps types, and every queued record is queued or being written
\* afterwards; a turn that leaves records in the queue leaves its loop waiting.
LEMMA TurnKeeps ==
  ASSUME TypeOK, NEW l \in Loops, Turn(l)
  PROVE  /\ queue' \in Seq(Record) /\ Len(queue') <= MaxQueue
         /\ loop' \in [Loops -> [pc : {"idle", "waiting", "flushed"}, item : SUBSET Record]]
         /\ writing' \in [Record -> 0..MaxAttempts]
         /\ \A r \in Record : Waiting(r) => Waiting(r)'
         /\ queue' # << >> => loop'[l].pc = "waiting"
         /\ loop'[l].pc # "idle"
         /\ \A k \in Loops \ {l} : loop'[k] = loop[k]
<1> USE QueueAssumption
<1>1. CASE queue = << >>
  <2>1. /\ queue' = queue /\ writing' = writing
        /\ loop' = [loop EXCEPT ![l] = [pc |-> "flushed", item |-> {}]]
    BY <1>1 DEF Turn
  <2> QED BY <1>1, <2>1 DEF TypeOK, Waiting, Loops
<1>2. CASE queue # << >>
  <2>1. /\ queue' = Tail(queue)
        /\ loop' = [loop EXCEPT ![l] = [pc |-> "waiting", item |-> {Head(queue)}]]
        /\ writing' = [writing EXCEPT ![Head(queue)] = 1]
    BY <1>2 DEF Turn
  <2>2. /\ queue \in Seq(Record) /\ Len(queue) <= MaxQueue
        /\ writing \in [Record -> 0..MaxAttempts]
        /\ loop \in [Loops -> [pc : {"idle", "waiting", "flushed"}, item : SUBSET Record]]
    BY DEF TypeOK
  <2>3. /\ Head(queue) \in Record /\ Head(queue) = queue[1]
        /\ Tail(queue) \in Seq(Record) /\ Len(Tail(queue)) = Len(queue) - 1
        /\ \A i \in 1..Len(Tail(queue)) : Tail(queue)[i] = queue[i + 1]
        /\ Len(queue) \in Nat /\ DOMAIN queue = 1..Len(queue)
        /\ DOMAIN Tail(queue) = 1..Len(Tail(queue))
    BY <1>2, <2>2
  <2>4. ASSUME NEW r \in Record, Waiting(r) PROVE Waiting(r)'
    <3>1. CASE r = Head(queue)
      BY <2>1, <2>2, <3>1 DEF Waiting
    <3>2. CASE r # Head(queue) /\ writing[r] > 0
      BY <2>1, <2>2, <3>2 DEF Waiting
    <3>3. CASE r # Head(queue) /\ \E i \in DOMAIN queue : queue[i] = r
      <4>1. PICK i \in DOMAIN queue : queue[i] = r BY <3>3
      <4>2. i - 1 \in 1..Len(Tail(queue)) BY <2>3, <3>3, <4>1
      <4>3. Tail(queue)[i - 1] = r BY <2>3, <4>1, <4>2
      <4> QED BY <2>1, <2>3, <4>2, <4>3 DEF Waiting
    <3> QED BY <3>1, <3>2, <3>3, <2>4 DEF Waiting
  <2>5. /\ queue' \in Seq(Record) /\ Len(queue') <= MaxQueue BY <2>1, <2>2, <2>3
  <2>6. writing' \in [Record -> 0..MaxAttempts] BY <2>1, <2>2, <2>3
  <2>7. /\ loop' \in [Loops -> [pc : {"idle", "waiting", "flushed"}, item : SUBSET Record]]
        /\ loop'[l].pc = "waiting"
        /\ \A k \in Loops \ {l} : loop'[k] = loop[k]
    BY <2>1, <2>2, <2>3
  <2> QED BY <2>4, <2>5, <2>6, <2>7
<1> QED BY <1>1, <1>2

\* The invariant holds at the start: nothing is queued and no loop runs.
LEMMA QueueInitInv == QueueInit => QueueInv
<1> SUFFICES ASSUME QueueInit PROVE QueueInv OBVIOUS
<1> USE QueueAssumption
<1>1. queue = << >> /\ Len(queue) = 0 /\ queue \in Seq(Record) BY DEF QueueInit
<1>2. IdleLoop \in [pc : {"idle", "waiting", "flushed"}, item : SUBSET Record] BY DEF IdleLoop
<1>3. TypeOK
  <2>1. loop \in [Loops -> [pc : {"idle", "waiting", "flushed"}, item : SUBSET Record]]
    BY <1>2 DEF QueueInit
  <2>2. writing \in [Record -> 0..MaxAttempts]
    <3>1. 0 \in 0..MaxAttempts OBVIOUS
    <3> QED BY <3>1 DEF QueueInit
  <2>3. /\ processing \in BOOLEAN /\ scheduled \in BOOLEAN /\ exited \in BOOLEAN
        /\ store \subseteq Record /\ logged \subseteq Record /\ accepted \subseteq Record
    BY DEF QueueInit
  <2>4. Len(queue) <= MaxQueue BY <1>1
  <2> QED BY <1>1, <2>1, <2>2, <2>3, <2>4 DEF TypeOK
<1>4. NoSilentLoss /\ NothingStranded /\ OneProcess BY <1>1
      DEF QueueInit, NoSilentLoss, NothingStranded, OneProcess
<1>5. FlagIsLoop BY DEF QueueInit, FlagIsLoop, Loops, IdleLoop
<1> QED BY <1>3, <1>4, <1>5 DEF QueueInv

\* Every step keeps the invariant, one case per action.
LEMMA QueueNextInv == QueueInv /\ [QueueNext]_queueVars => QueueInv'
<1> SUFFICES ASSUME QueueInv, [QueueNext]_queueVars PROVE QueueInv' OBVIOUS
<1> USE QueueAssumption
<1> USE DEF QueueInv
<1>1. ASSUME NEW r \in Record, Enqueue(r) PROVE QueueInv'
  <2>1. CASE WritesAtOnce
    BY <1>1, <2>1 DEF Enqueue, TypeOK, NoSilentLoss, NothingStranded, OneProcess, FlagIsLoop,
                      Waiting, Loops
  <2>2. CASE ~WritesAtOnce
    <3>1. /\ queue' = Append(queue, r) /\ Schedule /\ writing' = writing
          /\ loop' = loop /\ store' = store /\ logged' = logged /\ exited' = exited
          /\ accepted' = accepted \union {r}
      BY <1>1, <2>2 DEF Enqueue
    <3>2. /\ queue \in Seq(Record) /\ Len(queue) \in Nat /\ Len(queue) < MaxQueue
      BY <2>2 DEF WritesAtOnce, TypeOK
    <3>3. /\ queue' \in Seq(Record) /\ Len(queue') = Len(queue) + 1
          /\ queue'[Len(queue) + 1] = r
          /\ \A i \in DOMAIN queue : i \in DOMAIN queue' /\ queue'[i] = queue[i]
          /\ Len(queue) + 1 \in DOMAIN queue'
      BY <3>1, <3>2
    <3>4. \A x \in accepted : Waiting(x) => Waiting(x)' BY <3>1, <3>3 DEF Waiting
    <3>5. Waiting(r)' BY <3>3 DEF Waiting
    <3>6. TypeOK' BY <3>1, <3>2, <3>3 DEF TypeOK, Schedule
    <3>7. NoSilentLoss' BY <3>1, <3>4, <3>5 DEF NoSilentLoss
    <3>8. NothingStranded' /\ OneProcess' /\ FlagIsLoop'
      BY <3>1 DEF Schedule, TypeOK, NothingStranded, OneProcess, FlagIsLoop, Loops
    <3> QED BY <3>6, <3>7, <3>8
  <2> QED BY <2>1, <2>2
<1>2. CASE ProcessStarts
  <2>1. Turn("process") /\ "process" \in Loops BY <1>2 DEF ProcessStarts, Loops
  <2>2. TypeOK' BY <1>2, <2>1, TurnKeeps DEF ProcessStarts, TypeOK
  <2>3. NoSilentLoss' BY <1>2, <2>1, TurnKeeps DEF ProcessStarts, NoSilentLoss, TypeOK
  <2>4. NothingStranded' /\ OneProcess' /\ FlagIsLoop'
    BY <1>2, <2>1, TurnKeeps
       DEF ProcessStarts, NothingStranded, OneProcess, FlagIsLoop
  <2> QED BY <2>2, <2>3, <2>4
<1>3. CASE ShutdownStarts
  <2>1. Turn("shutdown") /\ "shutdown" \in Loops /\ "process" \in Loops \ {"shutdown"}
    BY <1>3 DEF ShutdownStarts, Loops
  <2>2. TypeOK' BY <1>3, <2>1, TurnKeeps DEF ShutdownStarts, TypeOK
  <2>3. NoSilentLoss' BY <1>3, <2>1, TurnKeeps DEF ShutdownStarts, NoSilentLoss, TypeOK
  <2>4. NothingStranded' /\ OneProcess' /\ FlagIsLoop'
    BY <1>3, <2>1, TurnKeeps
       DEF ShutdownStarts, NothingStranded, OneProcess, FlagIsLoop
  <2> QED BY <2>2, <2>3, <2>4
<1>4. ASSUME NEW l \in Loops, LoopResumes(l) PROVE QueueInv'
  <2>1. Turn(l) BY <1>4 DEF LoopResumes
  <2>2. TypeOK' BY <1>4, <2>1, TurnKeeps DEF LoopResumes, TypeOK
  <2>3. NoSilentLoss' BY <1>4, <2>1, TurnKeeps DEF LoopResumes, NoSilentLoss, TypeOK
  <2>4. NothingStranded' BY <1>4, <2>1, TurnKeeps DEF LoopResumes, NothingStranded
  <2>5. OneProcess' /\ FlagIsLoop'
    <3>1. CASE l = "process"
      BY <1>4, <2>1, <3>1, TurnKeeps DEF LoopResumes, OneProcess, FlagIsLoop
    <3>2. CASE l # "process"
      <4>1. loop'["process"] = loop["process"]
        BY <1>4, <2>1, <3>2, TurnKeeps DEF Loops
      <4> QED BY <1>4, <4>1 DEF LoopResumes, OneProcess, FlagIsLoop
    <3> QED BY <3>1, <3>2
  <2> QED BY <2>2, <2>3, <2>4, <2>5
<1>5. CASE ProcessEnds
  BY <1>5 DEF ProcessEnds, TypeOK, NoSilentLoss, NothingStranded, OneProcess, FlagIsLoop,
              Waiting, Loops, IdleLoop
<1>6. CASE Exit
  BY <1>6 DEF Exit, TypeOK, NoSilentLoss, NothingStranded, OneProcess, FlagIsLoop, Waiting
<1>7. ASSUME NEW r \in Record, UpsertSucceeds(r) PROVE QueueInv'
  BY <1>7 DEF UpsertSucceeds, TypeOK, NoSilentLoss, NothingStranded, OneProcess, FlagIsLoop,
              Waiting
<1>8. ASSUME NEW r \in Record, UpsertFails(r) PROVE QueueInv'
  <2>1. TypeOK' BY <1>8 DEF UpsertFails, TypeOK
  <2>2. NoSilentLoss'
    <3>1. CASE writing[r] < MaxAttempts
      BY <1>8, <3>1 DEF UpsertFails, TypeOK, NoSilentLoss, Waiting
    <3>2. CASE ~(writing[r] < MaxAttempts)
      BY <1>8, <3>2 DEF UpsertFails, TypeOK, NoSilentLoss, Waiting
    <3> QED BY <3>1, <3>2
  <2>3. NothingStranded' /\ OneProcess' /\ FlagIsLoop'
    BY <1>8 DEF UpsertFails, NothingStranded, OneProcess, FlagIsLoop
  <2> QED BY <2>1, <2>2, <2>3
<1>9. CASE UNCHANGED queueVars
  BY <1>9 DEF queueVars, TypeOK, NoSilentLoss, NothingStranded, OneProcess, FlagIsLoop, Waiting
<1> QED
  BY <1>1, <1>2, <1>3, <1>4, <1>5, <1>6, <1>7, <1>8, <1>9 DEF QueueNext, Flush, Upsert

\* Every reachable state satisfies the invariant.
THEOREM QueueInvariance == QueueSpec => []QueueInv
BY QueueInitInv, QueueNextInv, PTL DEF QueueSpec

\* The queue keeps its bound and every variable its type.
THEOREM QueueTypeCorrect == QueueSpec => []TypeOK
<1>1. QueueInv => TypeOK BY DEF QueueInv
<1> QED BY <1>1, QueueInvariance, PTL

\* A record that was accepted is queued, being written, written or reported as lost.
THEOREM NothingIsLostSilently == QueueSpec => []NoSilentLoss
<1>1. QueueInv => NoSilentLoss BY DEF QueueInv
<1> QED BY <1>1, QueueInvariance, PTL

\* No wake-up is lost: a queue that holds a record has a loop coming for it.
THEOREM NothingIsStranded == QueueSpec => []NothingStranded
<1>1. QueueInv => NothingStranded BY DEF QueueInv
<1> QED BY <1>1, QueueInvariance, PTL

\* schedule() never starts process() while it runs.
THEOREM ProcessRunsAlone == QueueSpec => []OneProcess
<1>1. QueueInv => OneProcess BY DEF QueueInv
<1> QED BY <1>1, QueueInvariance, PTL

\* The queue keeps its bound, every queued record has a loop due to come for it, and only
\* one loop is ever started.
THEOREM QueueIsServed == QueueSpec => []QueueServed
<1>1. QueueInv => QueueServed BY DEF QueueInv, TypeOK, QueueServed
<1> QED BY <1>1, QueueInvariance, PTL

-----------------------------------------------------------------------------
(***************************************************************************)
(* RequestTracking.                                                        *)
(***************************************************************************)
\* Tracking only ever takes steps of the queue.
THEOREM TrackingIsQueueing == TrackingSpec => QueueSpec
<1>1. TrackingInit => QueueInit
  BY DEF TrackingInit
<1>2. [TrackingNext]_trackingVars => [QueueNext]_queueVars
  BY DEF TrackingNext, QueueNext, Arrive, Finish, Unrecorded, Persist, Internal, Cleanup,
         StartListing, ReadPage, CountTotal, CountErrors, CountGroups, trackingVars,
         readVars
<1> QED BY <1>1, <1>2, PTL DEF TrackingSpec, QueueSpec

\* A row inserted anywhere joins the others.
LEMMA InsertedRow ==
  ASSUME NEW S, NEW s \in Seq(S), NEW e \in S, NEW i \in 1..Len(s) + 1
  PROVE  /\ InsertAt(s, i, e) \in Seq(S) /\ ToSet(InsertAt(s, i, e)) = ToSet(s) \union {e}
         /\ DOMAIN InsertAt(s, i, e) = 1..Len(s) + 1
         /\ \A k \in 1..i - 1 : InsertAt(s, i, e)[k] = s[k]
         /\ InsertAt(s, i, e)[i] = e
         /\ \A k \in i + 1 .. Len(s) + 1 : InsertAt(s, i, e)[k] = s[k - 1]
<1> DEFINE a == SubSeq(s, 1, i - 1)
           b == SubSeq(s, i, Len(s))
           c == a \o <<e>>
           t == c \o b
           n == Len(s)
<1>1. n \in Nat /\ DOMAIN s = 1..n /\ i \in Int
  BY LenProperties
<1>2. \A k \in 1..n : s[k] \in S BY ElementOfSeq
<1>3. i \in 1..n + 1 OBVIOUS
<1> HIDE DEF n
<1>4. a \in Seq(S) /\ Len(a) = i - 1 /\ \A k \in 1..i - 1 : a[k] = s[k]
  <2>1. \A k \in 1..i - 1 : s[k] \in S BY <1>1, <1>2, <1>3
  <2>2. /\ a \in Seq(S) /\ Len(a) = IF 1 <= i - 1 THEN (i - 1) - 1 + 1 ELSE 0
        /\ \A k \in 1..(i - 1) - 1 + 1 : a[k] = s[1 + k - 1]
    BY <1>1, <2>1, SubSeqProperties
  <2> HIDE DEF a
  <2> QED BY <1>1, <1>3, <2>2
<1>5. b \in Seq(S) /\ Len(b) = n - i + 1 /\ \A k \in 1..n - i + 1 : b[k] = s[i + k - 1]
  <2>1. \A k \in i..n : s[k] \in S BY <1>1, <1>2, <1>3
  <2>2. /\ b \in Seq(S) /\ Len(b) = IF i <= n THEN n - i + 1 ELSE 0
        /\ \A k \in 1..n - i + 1 : b[k] = s[i + k - 1]
    BY <1>1, <2>1, SubSeqProperties DEF n
  <2> HIDE DEF b
  <2> QED BY <1>1, <1>3, <2>2
<1> HIDE DEF a, b
<1>6. c \in Seq(S) /\ Len(c) = i /\ c[i] = e /\ \A k \in 1..i - 1 : c[k] = s[k]
  <2>1. <<e>> \in Seq(S) /\ Len(<<e>>) = 1 /\ <<e>>[1] = e OBVIOUS
  <2>2. /\ c \in Seq(S) /\ Len(c) = Len(a) + 1
        /\ \A k \in 1..Len(a) + 1 : c[k] = IF k <= Len(a) THEN a[k] ELSE <<e>>[k - Len(a)]
    BY <1>4, <2>1, ConcatProperties
  <2>3. \A k \in 1..i : c[k] = IF k <= i - 1 THEN a[k] ELSE <<e>>[k - (i - 1)]
    BY <1>1, <1>4, <2>2
  <2>4. i \in 1..i /\ ~(i <= i - 1) /\ i - (i - 1) = 1 BY <1>1, <1>3
  <2>5. c[i] = e BY <2>1, <2>3, <2>4
  <2>6. \A k \in 1..i - 1 : k \in 1..i /\ k <= i - 1 BY <1>1, <1>3
  <2>7. Len(c) = i BY <1>1, <1>4, <2>2
  <2> QED BY <1>4, <2>2, <2>3, <2>5, <2>6, <2>7
<1> HIDE DEF c
<1>7. /\ t \in Seq(S) /\ Len(t) = i + (n - i + 1)
      /\ \A k \in 1..i + (n - i + 1) : t[k] = IF k <= i THEN c[k] ELSE b[k - i]
  <2>1. /\ t \in Seq(S) /\ Len(t) = Len(c) + Len(b)
        /\ \A k \in 1..Len(c) + Len(b) : t[k] = IF k <= Len(c) THEN c[k] ELSE b[k - Len(c)]
    BY <1>5, <1>6, ConcatProperties
  <2> HIDE DEF t
  <2> QED BY <1>5, <1>6, <2>1
<1>8. i + (n - i + 1) = n + 1 BY <1>1
<1>9. /\ \A k \in 1..i - 1 : t[k] = s[k]
      /\ t[i] = e
      /\ \A k \in i + 1 .. n + 1 : t[k] = s[k - 1]
  <2>1. \A k \in i + 1 .. n + 1 :
          k - i \in 1..n - i + 1 /\ i + (k - i) - 1 = k - 1 /\ ~(k <= i) /\ k \in 1..n + 1
    BY <1>1, <1>3
  <2>2. \A k \in i + 1 .. n + 1 : t[k] = b[k - i] /\ b[k - i] = s[k - 1]
    BY <1>5, <1>7, <1>8, <2>1
  <2>3. \A k \in 1..i : k \in 1..n + 1 /\ k <= i BY <1>1, <1>3
  <2>4. \A k \in 1..i : t[k] = c[k] BY <1>7, <1>8, <2>3
  <2>5. i \in 1..i /\ \A k \in 1..i - 1 : k \in 1..i BY <1>1, <1>3
  <2> QED BY <1>6, <2>2, <2>4, <2>5
<1>10. t \in Seq(S) /\ DOMAIN t = 1..n + 1 BY <1>7, <1>8, LenProperties
<1> HIDE DEF t
<1>11. ToSet(t) \subseteq ToSet(s) \union {e}
  <2> SUFFICES ASSUME NEW k \in 1..n + 1 PROVE t[k] \in ToSet(s) \union {e}
    BY <1>10 DEF ToSet
  <2>1. CASE k \in 1..i - 1
    <3>1. k \in 1..n BY <1>1, <1>3, <2>1
    <3> QED BY <1>1, <1>9, <2>1, <3>1 DEF ToSet
  <2>2. CASE k = i BY <1>9, <2>2
  <2>3. CASE k \in i + 1 .. n + 1
    <3>1. k - 1 \in 1..n BY <1>1, <1>3, <2>3
    <3> QED BY <1>1, <1>9, <2>3, <3>1 DEF ToSet
  <2>4. k \in 1..i - 1 \/ k = i \/ k \in i + 1 .. n + 1 BY <1>1, <1>3
  <2> QED BY <2>1, <2>2, <2>3, <2>4
<1>12. e \in ToSet(t)
  BY <1>3, <1>9, <1>10 DEF ToSet
<1>13. ToSet(s) \subseteq ToSet(t)
  <2> SUFFICES ASSUME NEW k \in 1..n PROVE s[k] \in ToSet(t)
    BY <1>1 DEF ToSet
  <2>1. CASE k < i
    <3>1. k \in 1..n + 1 /\ k \in 1..i - 1 BY <1>1, <1>3, <2>1
    <3> QED BY <1>9, <1>10, <3>1 DEF ToSet
  <2>2. CASE ~(k < i)
    <3>1. k + 1 \in 1..n + 1 /\ k + 1 \in i + 1 .. n + 1 /\ (k + 1) - 1 = k
      BY <1>1, <1>3, <2>2
    <3>2. t[k + 1] = s[k] BY <1>9, <3>1
    <3>3. t[k + 1] \in ToSet(t) BY <1>10, <3>1 DEF ToSet
    <3> QED BY <3>2, <3>3
  <2> QED BY <2>1, <2>2
<1> QED BY <1>9, <1>10, <1>11, <1>12, <1>13 DEF InsertAt, t, c, a, b, n

\* The last row is all that deleting it loses.
LEMMA DeletedRow ==
  ASSUME NEW S, NEW s \in Seq(S), s # << >>
  PROVE  /\ Front(s) \in Seq(S)
         /\ ToSet(Front(s)) \subseteq ToSet(s)
         /\ ToSet(s) \subseteq ToSet(Front(s)) \union {Last(s)}
         /\ DOMAIN Front(s) = 1..Len(s) - 1 /\ \A k \in 1..Len(s) - 1 : Front(s)[k] = s[k]
<1> DEFINE n == Len(s)
           t == SubSeq(s, 1, n - 1)
<1>1. n \in Nat \ {0} BY EmptySeq
<1>2. DOMAIN s = 1..n BY LenProperties
<1>3. \A k \in 1..n : s[k] \in S BY ElementOfSeq
<1> HIDE DEF n
<1>4. t \in Seq(S) /\ Len(t) = n - 1 /\ \A k \in 1..n - 1 : t[k] = s[k]
  <2>1. \A k \in 1..n - 1 : s[k] \in S BY <1>1, <1>3
  <2>2. /\ t \in Seq(S) /\ Len(t) = IF 1 <= n - 1 THEN (n - 1) - 1 + 1 ELSE 0
        /\ \A k \in 1..(n - 1) - 1 + 1 : t[k] = s[1 + k - 1]
    BY <1>1, <2>1, SubSeqProperties
  <2> HIDE DEF t
  <2> QED BY <1>1, <2>2
<1>5. DOMAIN t = 1..n - 1 BY <1>4, LenProperties
<1> HIDE DEF t
<1>6. \A k \in 1..n : k = n \/ k \in 1..n - 1 BY <1>1
<1>7. \A k \in 1..n - 1 : k \in 1..n BY <1>1
<1>8. ToSet(t) \subseteq ToSet(s) /\ ToSet(s) \subseteq ToSet(t) \union {s[n]}
  BY <1>2, <1>4, <1>5, <1>6, <1>7 DEF ToSet
<1> QED BY <1>4, <1>5, <1>8 DEF Front, Last, t, n

-----------------------------------------------------------------------------
Requests ==
  {NoRequest} \union [pc : {"open", "finished", "unrecorded"}, shape : Shape]

\* The requests that met the policy, and the rows of the table.
RequestType ==
  /\ request \in [Record -> Requests]
  /\ rows \in Seq(Record) /\ IsFiniteSet(Rows)

\* A record is queued, written or stored because its request finished and is tracked.
FinishedOnly ==
  /\ \A r \in accepted : request[r].pc = "finished" /\ request[r].shape.tracked
  /\ \A i \in DOMAIN queue : queue[i] \in accepted
  /\ \A r \in Record : writing[r] > 0 => r \in accepted
  /\ Rows \subseteq store /\ store \subseteq accepted

TrackingInv == QueueInv /\ RequestType /\ FinishedOnly

\* The queue's own steps accept and write nothing but what was queued.
LEMMA FlushKeeps ==
  ASSUME TypeOK, FinishedOnly, NEW l \in Loops, Turn(l)
  PROVE  /\ \A i \in DOMAIN queue' : queue'[i] \in accepted
         /\ \A r \in Record : writing'[r] > 0 => r \in accepted
<1>1. CASE queue = << >> BY <1>1 DEF Turn, FinishedOnly
<1>2. CASE queue # << >>
  <2>1. queue' = Tail(queue) /\ writing' = [writing EXCEPT ![Head(queue)] = 1]
    BY <1>2 DEF Turn
  <2>2. /\ Head(queue) = queue[1] /\ 1 \in DOMAIN queue
        /\ \A i \in DOMAIN Tail(queue) : Tail(queue)[i] = queue[i + 1] /\ i + 1 \in DOMAIN queue
    <3>1. Len(queue) \in Nat \ {0} /\ DOMAIN queue = 1..Len(queue)
      BY <1>2, EmptySeq, LenProperties DEF TypeOK
    <3>2. /\ Tail(queue) \in Seq(Record) /\ Len(Tail(queue)) = Len(queue) - 1
          /\ \A i \in 1..Len(Tail(queue)) : Tail(queue)[i] = queue[i + 1]
      BY <1>2, HeadTailProperties DEF TypeOK
    <3>3. DOMAIN Tail(queue) = 1..Len(queue) - 1 BY <3>2, LenProperties
    <3>4. 1 \in 1..Len(queue) /\ \A i \in 1..Len(queue) - 1 : i + 1 \in 1..Len(queue)
      BY <3>1
    <3>5. Head(queue) = queue[1] BY <1>2 DEF TypeOK
    <3> QED BY <3>1, <3>2, <3>3, <3>4, <3>5
  <2>3. \A r \in Record : writing'[r] > 0 => r = queue[1] \/ writing[r] > 0
    BY <2>1, <2>2 DEF TypeOK
  <2> QED BY <2>1, <2>2, <2>3 DEF FinishedOnly
<1> QED BY <1>1, <1>2

\* Steps that leave the requests and the table alone.
LEMMA InternalKeeps ==
  ASSUME TrackingInv, Internal
  PROVE  FinishedOnly' /\ RequestType'
<1>1. UNCHANGED <<request, rows>> BY DEF Internal, readVars
<1>2. UNCHANGED <<store, accepted>>
  BY DEF Internal, Flush, ShutdownStarts, Exit, ProcessStarts, ProcessEnds, LoopResumes
<1>3. /\ \A i \in DOMAIN queue' : queue'[i] \in accepted
      /\ \A r \in Record : writing'[r] > 0 => r \in accepted
  <2>1. ASSUME NEW l \in Loops, Turn(l)
        PROVE  /\ \A i \in DOMAIN queue' : queue'[i] \in accepted
               /\ \A r \in Record : writing'[r] > 0 => r \in accepted
    BY <2>1, FlushKeeps DEF TrackingInv, QueueInv
  <2>2. CASE UNCHANGED <<queue, writing>> BY <2>2 DEF TrackingInv, FinishedOnly
  <2> QED
    BY <2>1, <2>2
       DEF Internal, Flush, ShutdownStarts, Exit, ProcessStarts, ProcessEnds, LoopResumes, Loops
<1>4. FinishedOnly'
  BY <1>1, <1>2, <1>3 DEF TrackingInv, FinishedOnly, Rows
<1>5. RequestType' BY <1>1 DEF TrackingInv, RequestType, Rows
<1> QED BY <1>4, <1>5

\* What a write commits: at most one row, of a record that was not in the table before.
LEMMA PersistKeeps ==
  ASSUME TrackingInv, NEW r \in Record, Persist(r)
  PROVE  /\ FinishedOnly' /\ RequestType'
         /\ Rows' = IF store' = store THEN Rows ELSE Rows \union {r}
         /\ store' # store => r \notin Rows
<1>1. /\ r \in accepted /\ store' \in {store, store \union {r}}
      /\ UNCHANGED <<queue, accepted, request>>
      /\ \A s \in Record : writing'[s] > 0 => s = r \/ writing[s] > 0
  <2>1. r \in accepted
    BY DEF Persist, Upsert, UpsertSucceeds, UpsertFails, TrackingInv, FinishedOnly
  <2>2. \A s \in Record : s # r => writing'[s] = writing[s]
    BY DEF Persist, Upsert, UpsertSucceeds, UpsertFails, TrackingInv, QueueInv, TypeOK
  <2> QED BY <2>1, <2>2 DEF Persist, Upsert, UpsertSucceeds, UpsertFails
<1>2. CASE store' = store
  <2>1. rows' = rows BY <1>2 DEF Persist
  <2> QED BY <1>1, <1>2, <2>1 DEF TrackingInv, FinishedOnly, RequestType, Rows
<1>3. CASE store' # store
  <2>1. PICK i \in 1..Len(rows) + 1 : rows' = InsertAt(rows, i, r) BY <1>3 DEF Persist
  <2>2. rows' \in Seq(Record) /\ Rows' = Rows \union {r}
    BY <2>1, InsertedRow DEF Rows, TrackingInv, RequestType
  <2>3. r \notin store /\ store' = store \union {r} BY <1>1, <1>3
  <2>4. r \notin Rows BY <2>3 DEF TrackingInv, FinishedOnly
  <2>5. IsFiniteSet(Rows') BY <2>2, FS_AddElement DEF TrackingInv, RequestType
  <2>6. RequestType' BY <1>1, <2>2, <2>5 DEF TrackingInv, RequestType
  <2>7. FinishedOnly' BY <1>1, <2>2, <2>3 DEF TrackingInv, FinishedOnly
  <2> QED BY <1>3, <2>2, <2>4, <2>6, <2>7
<1> QED BY <1>2, <1>3

\* Retention deletes rows, and one at a time.
LEMMA CleanupKeeps ==
  ASSUME TrackingInv, Cleanup
  PROVE  /\ FinishedOnly' /\ RequestType'
         /\ Rows' \subseteq Rows /\ Rows \subseteq Rows' \union {Last(rows)}
<1>1. rows # << >> /\ rows' = Front(rows) /\ UNCHANGED <<queueVars, request>> BY DEF Cleanup
<1>2. /\ rows' \in Seq(Record)
      /\ Rows' \subseteq Rows /\ Rows \subseteq Rows' \union {Last(rows)}
  BY <1>1, DeletedRow DEF TrackingInv, RequestType, Rows
<1>3. IsFiniteSet(Rows') BY <1>2, FS_Subset DEF TrackingInv, RequestType
<1>4. RequestType' BY <1>1, <1>2, <1>3 DEF TrackingInv, RequestType
<1>5. FinishedOnly' BY <1>1, <1>2 DEF TrackingInv, FinishedOnly, queueVars
<1> QED BY <1>2, <1>4, <1>5

\* A request arrives, or leaves no record, or is given to enqueue.
LEMMA RequestKeeps ==
  ASSUME TrackingInv, NEW r \in Record,
         (\E shape \in Shape : Arrive(r, shape)) \/ Finish(r) \/ Unrecorded(r)
  PROVE  /\ FinishedOnly' /\ RequestType' /\ rows' = rows
         /\ \A s \in accepted : request'[s] = request[s]
<1>1. request \in [Record -> Requests] BY DEF TrackingInv, RequestType
<1>2. /\ rows' = rows /\ store' = store /\ r \notin accepted
      /\ \A s \in Record : s # r => request'[s] = request[s]
      /\ request'[r] \in Requests /\ request' \in [Record -> Requests]
  <2>1. CASE \E shape \in Shape : Arrive(r, shape)
    <3>1. PICK shape \in Shape : Arrive(r, shape) BY <2>1
    <3>2. [pc |-> "open", shape |-> shape] \in Requests BY DEF Requests
    <3> QED BY <1>1, <3>1, <3>2 DEF Arrive, queueVars, Stage, TrackingInv, FinishedOnly
  <2>2. CASE Finish(r)
    <3>1. request[r] \in Requests /\ request[r].pc = "open" BY <1>1, <2>2 DEF Finish, Stage
    <3>2. [request[r] EXCEPT !.pc = "finished"] \in Requests BY <3>1 DEF Requests, NoRequest
    <3>3. request' = [request EXCEPT ![r] = [request[r] EXCEPT !.pc = "finished"]]
      BY <2>2 DEF Finish
    <3> QED BY <1>1, <2>2, <3>2, <3>3 DEF Finish, Enqueue
  <2>3. CASE Unrecorded(r)
    <3>1. request[r] \in Requests /\ request[r].pc = "open" BY <1>1, <2>3 DEF Unrecorded, Stage
    <3>2. [request[r] EXCEPT !.pc = "unrecorded"] \in Requests BY <3>1 DEF Requests, NoRequest
    <3>3. request' = [request EXCEPT ![r] = [request[r] EXCEPT !.pc = "unrecorded"]]
      BY <2>3 DEF Unrecorded
    <3> QED BY <1>1, <2>3, <3>1, <3>2, <3>3 DEF Unrecorded, queueVars, TrackingInv, FinishedOnly
  <2> QED BY <2>1, <2>2, <2>3
<1>3. accepted \subseteq Record BY DEF TrackingInv, QueueInv, TypeOK
<1>4. \A s \in accepted : request'[s] = request[s] BY <1>2, <1>3
<1>5. RequestType' BY <1>2 DEF TrackingInv, RequestType, Rows
<1>6. FinishedOnly'
  <2>1. CASE UNCHANGED queueVars
    BY <1>2, <1>4, <2>1 DEF queueVars, TrackingInv, FinishedOnly, Rows
  <2>2. CASE Finish(r)
    <3>1. /\ accepted' = accepted \union {r}
          /\ \/ writing' = [writing EXCEPT ![r] = 1] /\ queue' = queue
             \/ queue' = Append(queue, r) /\ writing' = writing
      BY <2>2 DEF Finish, Enqueue
    <3>2. request'[r].pc = "finished" /\ request'[r].shape.tracked
      <4>1. request[r] \in Requests /\ request[r].pc = "open" /\ request[r].shape.tracked
        BY <1>1, <2>2 DEF Finish, Stage
      <4>2. request'[r] = [request[r] EXCEPT !.pc = "finished"] BY <1>1, <2>2 DEF Finish
      <4> QED BY <4>1, <4>2 DEF Requests, NoRequest
    <3>3. \A i \in DOMAIN queue' : queue'[i] \in accepted'
      <4>1. CASE queue' = queue BY <3>1, <4>1 DEF TrackingInv, FinishedOnly
      <4>2. CASE queue' = Append(queue, r)
        <5>1. queue \in Seq(Record) BY DEF TrackingInv, QueueInv, TypeOK
        <5>2. /\ queue' \in Seq(Record) /\ Len(queue') = Len(queue) + 1
              /\ \A i \in 1..Len(queue) : queue'[i] = queue[i]
              /\ queue'[Len(queue) + 1] = r
          BY <4>2, <5>1, AppendProperties
        <5>3. /\ DOMAIN queue' = 1..Len(queue) + 1 /\ DOMAIN queue = 1..Len(queue)
              /\ Len(queue) \in Nat
          BY <5>1, <5>2, LenProperties
        <5>4. \A i \in 1..Len(queue) + 1 : i = Len(queue) + 1 \/ i \in 1..Len(queue) BY <5>3
        <5> QED BY <3>1, <5>2, <5>3, <5>4 DEF TrackingInv, FinishedOnly
      <4> QED BY <3>1, <4>1, <4>2
    <3>4. \A s \in Record : writing'[s] > 0 => s \in accepted'
      BY <3>1 DEF TrackingInv, FinishedOnly, QueueInv, TypeOK
    <3> QED BY <1>2, <1>4, <3>1, <3>2, <3>3, <3>4 DEF TrackingInv, FinishedOnly, Rows
  <2> QED BY <2>1, <2>2 DEF Arrive, Unrecorded
<1> QED BY <1>2, <1>4, <1>5, <1>6

\* Every step keeps what the table and the requests have to do with each other.
LEMMA TrackingStep == TrackingInv /\ [TrackingNext]_trackingVars => TrackingInv'
<1> SUFFICES ASSUME TrackingInv, [TrackingNext]_trackingVars PROVE TrackingInv' OBVIOUS
<1>1. QueueInv'
  <2>1. [TrackingNext]_trackingVars => [QueueNext]_queueVars
    BY DEF TrackingNext, QueueNext, Arrive, Finish, Unrecorded, Persist, Internal, Cleanup,
           StartListing, ReadPage, CountTotal, CountErrors, CountGroups, trackingVars,
           readVars
  <2> QED BY <2>1, QueueNextInv DEF TrackingInv
<1>2. FinishedOnly' /\ RequestType'
  <2>1. CASE UNCHANGED <<queueVars, request, rows>>
    BY <2>1 DEF queueVars, TrackingInv, FinishedOnly, RequestType, Rows
  <2>2. CASE TrackingNext
    BY <2>1, <2>2, RequestKeeps, PersistKeeps, CleanupKeeps, InternalKeeps
       DEF TrackingNext, StartListing, ReadPage, CountTotal, CountErrors, CountGroups
  <2> QED BY <2>1, <2>2 DEF trackingVars
<1> QED BY <1>1, <1>2 DEF TrackingInv

\* The invariant holds in every state.
THEOREM TrackingInvariance == TrackingSpec => []TrackingInv
<1>1. TrackingInit => TrackingInv
  <2> SUFFICES ASSUME TrackingInit PROVE TrackingInv OBVIOUS
  <2>1. QueueInv BY QueueInitInv DEF TrackingInit
  <2>2. Rows = {} /\ rows \in Seq(Record) BY DEF TrackingInit, Rows, ToSet
  <2>3. RequestType BY <2>2, FS_EmptySet DEF TrackingInit, RequestType, Requests
  <2>4. FinishedOnly BY <2>2 DEF TrackingInit, QueueInit, FinishedOnly
  <2> QED BY <2>1, <2>3, <2>4 DEF TrackingInv
<1> QED BY <1>1, TrackingStep, PTL DEF TrackingSpec

\* What the sanitizer leaves readable of a query and of a body.
LEMMA SanitizedQuery ==
  ASSUME NEW p \in Payload
  PROVE  /\ \A leaf \in SanitizePayload(p).readable : ~leaf.sensitive
         /\ (\E leaf \in p.leaves : leaf.sensitive /\ ~leaf.hidden) => SanitizePayload(p).redacted
<1>1. \A leaf \in p.leaves : leaf.sensitive => ~Readable(leaf)
  BY DEF Payload, Leaf, Readable, Visit
<1>2. \A leaf \in p.leaves : leaf.sensitive /\ ~leaf.hidden => Visit(leaf) = "[REDACTED]"
  BY DEF Payload, Leaf, Visit
<1> QED BY <1>1, <1>2 DEF SanitizePayload

\* Of a body only the email of an authentication route remains, and only if bodies are captured.
LEMMA SanitizedBody ==
  ASSUME NEW route \in Route, NEW email, NEW enabled \in BOOLEAN
  PROVE  LET body == SanitizeHttpBody(route, email, enabled)
         IN /\ body.readable \subseteq (IF route = "auth-email" THEN {"email"} ELSE {})
            /\ body.readable # {} => enabled /\ body.captured
<1>1. CASE ~enabled BY <1>1 DEF SanitizeHttpBody, NotCaptured
<1>2. CASE enabled /\ route = "auth-email"
  <2>1. SanitizeHttpBody(route, email, enabled)
          = [readable |-> {"email"} \cap email, captured |-> email # {}, truncated |-> FALSE,
             redacted |-> TRUE]
    BY <1>2 DEF SanitizeHttpBody
  <2>2. {"email"} \cap email \subseteq {"email"} /\ ({"email"} \cap email # {} => email # {})
    OBVIOUS
  <2> DEFINE body == SanitizeHttpBody(route, email, enabled)
  <2>3. body.readable = {"email"} \cap email /\ body.captured = (email # {}) BY <2>1
  <2> HIDE DEF body
  <2>4. /\ body.readable \subseteq {"email"}
        /\ body.readable # {} => enabled /\ body.captured
    BY <1>2, <2>2, <2>3
  <2> QED BY <1>2, <2>4 DEF body
<1>3. CASE enabled /\ route = "private"
  <2>1. SanitizeHttpBody(route, email, enabled) = NotCaptured(TRUE)
    BY <1>3 DEF SanitizeHttpBody
  <2> QED BY <2>1 DEF NotCaptured
<1>4. CASE enabled /\ route = "plain"
  <2>1. SanitizeHttpBody(route, email, enabled) = NotCaptured(FALSE)
    BY <1>4 DEF SanitizeHttpBody
  <2> QED BY <2>1 DEF NotCaptured
<1> QED BY <1>1, <1>2, <1>3, <1>4 DEF Route

\* No row shows what a sensitive name held, whatever requests arrive and whatever becomes of them.
THEOREM SecretsStayRedacted == TrackingSpec => []SecretsRedacted
<1>1. ASSUME TrackingInv, NEW r \in Rows
      PROVE  LET shape == request[r].shape
                 row == RecordOf(r)
             IN /\ shape.tracked
                /\ \A leaf \in row.query : ~leaf.sensitive
                /\ row.requestBody \subseteq (IF shape.route = "auth-email" THEN {"email"} ELSE {})
                /\ row.requestBody # {} => Capture /\ row.bodyCaptured
                /\ (\E leaf \in shape.query.leaves : leaf.sensitive /\ ~leaf.hidden)
                     => row.bodyRedacted
  <2>1. request[r].pc = "finished" /\ request[r].shape.tracked /\ request[r] \in Requests
    BY <1>1 DEF TrackingInv, FinishedOnly, QueueInv, TypeOK, RequestType
  <2>2. request[r].shape \in Shape BY <2>1 DEF Requests, NoRequest
  <2> DEFINE shape == request[r].shape
             query == SanitizePayload(shape.query)
             body == SanitizeHttpBody(shape.route, shape.email, Capture)
  <2>3. shape.route \in Route /\ shape.query \in Payload /\ Capture \in BOOLEAN
    BY <2>2, TrackingAssumption
  <2>4. /\ \A leaf \in query.readable : ~leaf.sensitive
        /\ (\E leaf \in shape.query.leaves : leaf.sensitive /\ ~leaf.hidden) => query.redacted
    BY <2>3, SanitizedQuery
  <2>5. /\ body.readable \subseteq (IF shape.route = "auth-email" THEN {"email"} ELSE {})
        /\ body.readable # {} => Capture /\ body.captured
    BY <2>3, SanitizedBody
  <2>6. /\ RecordOf(r).query = query.readable /\ RecordOf(r).requestBody = body.readable
        /\ RecordOf(r).bodyCaptured = body.captured
        /\ RecordOf(r).bodyRedacted = (body.redacted \/ query.redacted)
    BY DEF RecordOf
  <2> HIDE DEF query, body
  <2> QED BY <2>1, <2>4, <2>5, <2>6
<1>2. TrackingInv => SecretsRedacted BY <1>1 DEF SecretsRedacted
<1> QED BY <1>2, TrackingInvariance, PTL

-----------------------------------------------------------------------------
\* Two numbers no more than n apart.
Near(a, b, n) == a - b \in -n..n

Failed == {r \in Rows : Matches(r, "failed")}

\* What a report has counted is off by no more than what was written and deleted since.
ReportInv ==
  \/ report = NoReport
  \/ /\ report \in [pc : {"counting"}, total : Nat, changes : Nat]
     /\ Near(report.total, Cardinality(Rows), report.changes)
  \/ /\ report \in [pc : {"counting"}, total : Nat, changes : Nat, errors : Nat]
     /\ Near(report.total, Cardinality(Rows), report.changes)
     /\ Near(report.errors, Cardinality(Failed), report.changes)
  \/ report.pc = "done" /\ ReportAddsUp

\* Adding or removing one element moves a count by one.
LEMMA OneApart ==
  ASSUME NEW S, NEW T, NEW x, IsFiniteSet(S), IsFiniteSet(T),
         T \subseteq S \union {x}, S \subseteq T \union {x}
  PROVE  /\ Cardinality(S) \in Nat /\ Cardinality(T) \in Nat
         /\ Near(Cardinality(T), Cardinality(S), 1)
<1>1. Cardinality(S) \in Nat /\ Cardinality(T) \in Nat BY FS_CardinalityType
<1>2. Cardinality(T) <= Cardinality(S) + 1
  <2>1. /\ IsFiniteSet(S \union {x})
        /\ Cardinality(S \union {x}) = IF x \in S THEN Cardinality(S) ELSE Cardinality(S) + 1
    BY FS_AddElement
  <2>2. Cardinality(T) <= Cardinality(S \union {x}) BY <2>1, FS_Subset
  <2> QED BY <1>1, <2>1, <2>2
<1>3. Cardinality(S) <= Cardinality(T) + 1
  <2>1. /\ IsFiniteSet(T \union {x})
        /\ Cardinality(T \union {x}) = IF x \in T THEN Cardinality(T) ELSE Cardinality(T) + 1
    BY FS_AddElement
  <2>2. Cardinality(S) <= Cardinality(T \union {x}) BY <2>1, FS_Subset
  <2> QED BY <1>1, <2>1, <2>2
<1> QED BY <1>1, <1>2, <1>3 DEF Near

\* The table changed by one row and the report counted a change.
LEMMA CountedChange ==
  ASSUME TrackingInv, ReportInv, RequestType', NEW r,
         Rows' \subseteq Rows \union {r}, Rows \subseteq Rows' \union {r}, UNCHANGED request,
         report' = IF report.pc = "counting"
                   THEN [report EXCEPT !.changes = report.changes + 1] ELSE report
  PROVE  ReportInv'
<1>1. Failed \subseteq Rows /\ Failed' \subseteq Rows' BY DEF Failed
<1>2. Failed' \subseteq Failed \union {r} /\ Failed \subseteq Failed' \union {r}
  BY DEF Failed, Matches
<1>3. IsFiniteSet(Rows) /\ IsFiniteSet(Rows') BY DEF TrackingInv, RequestType
<1>4. IsFiniteSet(Failed) /\ IsFiniteSet(Failed') BY <1>1, <1>3, FS_Subset
<1> DEFINE n == Cardinality(Rows)
           m == Cardinality(Rows')
           f == Cardinality(Failed)
           g == Cardinality(Failed')
<1>5. n \in Nat /\ m \in Nat /\ Near(m, n, 1) BY <1>3, OneApart
<1>6. f \in Nat /\ g \in Nat /\ Near(g, f, 1) BY <1>2, <1>4, OneApart
<1> HIDE DEF n, m, f, g
<1>7. \A a, b, c, d \in Nat : Near(a, b, c) /\ Near(d, b, 1) => Near(a, d, c + 1) BY DEF Near
<1>8. CASE /\ report \in [pc : {"counting"}, total : Nat, changes : Nat]
           /\ Near(report.total, n, report.changes)
  <2>1. /\ report' \in [pc : {"counting"}, total : Nat, changes : Nat]
        /\ report'.total = report.total /\ report'.changes = report.changes + 1
    BY <1>8
  <2>2. Near(report'.total, m, report'.changes) BY <1>5, <1>7, <1>8, <2>1
  <2> QED BY <2>1, <2>2 DEF ReportInv, m
<1>9. CASE /\ report \in [pc : {"counting"}, total : Nat, changes : Nat, errors : Nat]
           /\ Near(report.total, n, report.changes)
           /\ Near(report.errors, f, report.changes)
  <2>1. /\ report' \in [pc : {"counting"}, total : Nat, changes : Nat, errors : Nat]
        /\ report'.total = report.total /\ report'.changes = report.changes + 1
        /\ report'.errors = report.errors
    BY <1>9
  <2>2. Near(report'.total, m, report'.changes) BY <1>5, <1>7, <1>9, <2>1
  <2>3. Near(report'.errors, g, report'.changes) BY <1>6, <1>7, <1>9, <2>1
  <2> QED BY <2>1, <2>2, <2>3 DEF ReportInv, m, g
<1>10. CASE report.pc = "done" /\ ReportAddsUp
  BY <1>10 DEF ReportInv, ReportAddsUp
<1>11. CASE report = NoReport
  BY <1>11 DEF ReportInv, NoReport
<1> QED BY <1>8, <1>9, <1>10, <1>11 DEF ReportInv, n, f

\* The table and the report stay, and with the table's rows their requests.
LEMMA ReportStays ==
  ASSUME TrackingInv, ReportInv, UNCHANGED <<rows, report>>,
         \A s \in accepted : request'[s] = request[s]
  PROVE  ReportInv'
<1>1. Rows' = Rows BY DEF Rows
<1>2. Failed' = Failed
  BY <1>1 DEF Failed, Matches, TrackingInv, FinishedOnly
<1> QED BY <1>1, <1>2 DEF ReportInv, ReportAddsUp

\* The statements of a report count what is there at their time.
LEMMA CountsAreNear ==
  ASSUME TrackingInv, ReportInv, CountTotal \/ CountErrors \/ CountGroups
  PROVE  ReportInv'
<1> DEFINE n == Cardinality(Rows)
           f == Cardinality(Failed)
           ok == {r \in Rows : request[r].shape.failed = FALSE}
<1>1. /\ Failed = {r \in Rows : request[r].shape.failed = TRUE}
      /\ Rows' = Rows /\ Failed' = Failed
  BY DEF Failed, Matches, CountTotal, CountErrors, CountGroups, Rows
<1>2. IsFiniteSet(Rows) /\ IsFiniteSet(Failed) /\ IsFiniteSet(ok)
  BY FS_Subset DEF TrackingInv, RequestType, Failed
<1>3. n \in Nat /\ f \in Nat /\ Cardinality(ok) \in Nat BY <1>2, FS_CardinalityType
<1>4. n = f + Cardinality(ok)
  <2>1. \A r \in Rows : request[r].shape.failed \in BOOLEAN
    <3>1. \A r \in Rows : request[r].pc = "finished" /\ request[r] \in Requests
      BY DEF TrackingInv, FinishedOnly, QueueInv, TypeOK, RequestType
    <3>2. \A r \in Rows : request[r].shape \in Shape BY <3>1 DEF Requests, NoRequest
    <3> QED BY <3>2, TrackingAssumption
  <2>2. Rows = Failed \union ok /\ Failed \cap ok = {} BY <1>1, <2>1
  <2>3. Cardinality(Failed \union ok) = f + Cardinality(ok) - Cardinality(Failed \cap ok)
    BY <1>2, FS_Union
  <2>4. Cardinality(Failed \cap ok) = 0 BY <2>2, FS_EmptySet
  <2>5. n = Cardinality(Failed \union ok) BY <2>2, Zenon
  <2> HIDE DEF n, f, ok
  <2> QED BY <1>3, <2>3, <2>4, <2>5
<1>5. \A a \in Nat : Near(a, a, 0) BY DEF Near
<1>6. \A a, b \in Nat, c \in Nat : Near(a, a, c) BY DEF Near
<1>7. CASE CountTotal
  <2>1. report' = [pc |-> "counting", total |-> n, changes |-> 0] BY <1>7 DEF CountTotal
  <2> HIDE DEF n
  <2>2. /\ report' \in [pc : {"counting"}, total : Nat, changes : Nat]
        /\ Near(report'.total, n, report'.changes)
    BY <1>3, <1>5, <2>1
  <2> QED BY <1>1, <2>2 DEF ReportInv, n
<1>8. CASE CountErrors
  <2>1. /\ report.pc = "counting" /\ "errors" \notin DOMAIN report
        /\ report' = [pc |-> "counting", total |-> report.total, changes |-> report.changes,
                      errors |-> f]
    BY <1>8 DEF CountErrors, Failed
  <2>2. /\ report \in [pc : {"counting"}, total : Nat, changes : Nat]
        /\ Near(report.total, n, report.changes)
    BY <2>1 DEF ReportInv, NoReport
  <2> HIDE DEF n, f
  <2>3. /\ report' \in [pc : {"counting"}, total : Nat, changes : Nat, errors : Nat]
        /\ Near(report'.total, n, report'.changes) /\ Near(report'.errors, f, report'.changes)
    BY <1>3, <1>6, <2>1, <2>2
  <2> QED BY <1>1, <2>3 DEF ReportInv, n, f
<1>9. CASE CountGroups
  <2> DEFINE by == [failed \in BOOLEAN |->
                      Cardinality({r \in Rows : request[r].shape.failed = failed})]
  <2>1. /\ report.pc = "counting" /\ "errors" \in DOMAIN report
        /\ report' = [pc |-> "done", total |-> report.total, changes |-> report.changes,
                      errors |-> report.errors, byStatus |-> by]
    BY <1>9 DEF CountGroups
  <2>2. /\ report \in [pc : {"counting"}, total : Nat, changes : Nat, errors : Nat]
        /\ Near(report.total, n, report.changes) /\ Near(report.errors, f, report.changes)
    BY <2>1 DEF ReportInv, NoReport
  <2>3. by[TRUE] = f /\ by[FALSE] = Cardinality(ok) BY <1>1
  <2> HIDE DEF n, f, by, ok
  <2>4. /\ report'.pc = "done"
        /\ report'.total - (report'.byStatus[TRUE] + report'.byStatus[FALSE])
             \in -report'.changes .. report'.changes
        /\ report'.errors - report'.byStatus[TRUE] \in -report'.changes .. report'.changes
    BY <1>4, <2>1, <2>2, <2>3 DEF Near
  <2> QED BY <2>4 DEF ReportInv, ReportAddsUp
<1> QED BY <1>7, <1>8, <1>9

\* A usage report is off by no more than the rows written and deleted while it was made.
THEOREM ReportsAddUp == TrackingSpec => []ReportAddsUp
<1>1. TrackingInit => ReportInv BY DEF TrackingInit, ReportInv
<1>2. ASSUME TrackingInv, ReportInv, [TrackingNext]_trackingVars PROVE ReportInv'
  <2>1. RequestType' BY <1>2, TrackingStep DEF TrackingInv
  <2>2. CASE UNCHANGED <<rows, report, request>>
    BY <1>2, <2>2, ReportStays
  <2>3. ASSUME NEW r \in Record,
               (\E shape \in Shape : Arrive(r, shape)) \/ Finish(r) \/ Unrecorded(r)
        PROVE  ReportInv'
    <3>1. rows' = rows /\ \A s \in accepted : request'[s] = request[s]
      BY <1>2, <2>3, RequestKeeps
    <3>2. report' = report BY <2>3 DEF Arrive, Finish, Unrecorded, readVars
    <3> QED BY <1>2, <3>1, <3>2, ReportStays
  <2>4. ASSUME NEW r \in Record, Persist(r) PROVE ReportInv'
    <3>1. CASE store' = store
      BY <1>2, <2>2, <2>4, <3>1 DEF Persist
    <3>2. CASE store' # store
      <4>1. Rows' = Rows \union {r} BY <1>2, <2>4, <3>2, PersistKeeps
      <4>2. /\ UNCHANGED request
            /\ report' = IF report.pc = "counting"
                         THEN [report EXCEPT !.changes = report.changes + 1] ELSE report
        BY <2>4, <3>2 DEF Persist
      <4>3. Rows' \subseteq Rows \union {r} /\ Rows \subseteq Rows' \union {r} BY <4>1
      <4> QED BY <1>2, <2>1, <4>2, <4>3, CountedChange
    <3> QED BY <3>1, <3>2
  <2>5. CASE Cleanup
    <3>1. Rows' \subseteq Rows /\ Rows \subseteq Rows' \union {Last(rows)}
      BY <1>2, <2>5, CleanupKeeps
    <3>2. /\ UNCHANGED request
          /\ report' = IF report.pc = "counting"
                       THEN [report EXCEPT !.changes = report.changes + 1] ELSE report
      BY <2>5 DEF Cleanup
    <3>3. Rows' \subseteq Rows \union {Last(rows)} BY <3>1
    <3> QED BY <1>2, <2>1, <3>1, <3>2, <3>3, CountedChange
  <2>6. CASE CountTotal \/ CountErrors \/ CountGroups BY <1>2, <2>6, CountsAreNear
  <2> QED
    BY <1>2, <2>2, <2>3, <2>4, <2>5, <2>6
       DEF TrackingNext, Internal, StartListing, ReadPage, trackingVars, readVars
<1>3. ASSUME ReportInv PROVE ReportAddsUp
  <2>1. report.pc = "done" => report.pc = "done" /\ ReportAddsUp
    BY <1>3 DEF ReportInv, NoReport
  <2> QED BY <2>1 DEF ReportAddsUp
<1> QED BY <1>1, <1>2, <1>3, TrackingInvariance, PTL DEF TrackingSpec

-----------------------------------------------------------------------------
(***************************************************************************)
(* Lists, page by page.  What orders the rows is kept by every write and   *)
(* every deletion, and of the row a page ended with it is enough to know   *)
(* that nothing after it was shown and everything up to it was.            *)
(***************************************************************************)
Distinct(s) == \A i, k \in DOMAIN s : s[i] = s[k] => i = k

Before(s, a, b) == \E i, k \in DOMAIN s : a = s[i] /\ b = s[k] /\ i < k

\* Rows that stand in a sequence once are in a strict order.
LEMMA OrderOfRows ==
  ASSUME NEW S, NEW s \in Seq(S), Distinct(s)
  PROVE  /\ \A a, b, c : Before(s, a, b) /\ Before(s, b, c) => Before(s, a, c)
         /\ \A a, b : Before(s, a, b) => a \in ToSet(s) /\ b \in ToSet(s) /\ ~Before(s, b, a)
         /\ \A a, b \in ToSet(s) : a = b \/ Before(s, a, b) \/ Before(s, b, a)
<1>1. DOMAIN s \subseteq Int BY LenProperties
<1>2. \A i, k, m \in DOMAIN s : i < k /\ k < m => i < m BY <1>1
<1>3. \A i, k \in DOMAIN s : (i = k \/ i < k \/ k < i) /\ (i < k => ~(k < i) /\ i # k) BY <1>1
<1>4. ASSUME NEW a, NEW b, NEW c, Before(s, a, b), Before(s, b, c) PROVE Before(s, a, c)
  <2>1. PICK i, k \in DOMAIN s : a = s[i] /\ b = s[k] /\ i < k BY <1>4 DEF Before
  <2>2. PICK l, m \in DOMAIN s : b = s[l] /\ c = s[m] /\ l < m BY <1>4 DEF Before
  <2>3. k = l BY <2>1, <2>2 DEF Distinct
  <2>4. i < m BY <1>2, <2>1, <2>2, <2>3
  <2> QED BY <2>1, <2>2, <2>4 DEF Before
<1>5. \A a, b : Before(s, a, b) => a \in ToSet(s) /\ b \in ToSet(s) /\ ~Before(s, b, a)
  BY <1>3 DEF Before, Distinct, ToSet
<1>6. \A a, b \in ToSet(s) : a = b \/ Before(s, a, b) \/ Before(s, b, a)
  BY <1>3 DEF Before, ToSet
<1> QED BY <1>4, <1>5, <1>6

\* A new row leaves the others in their order.
LEMMA InsertedOrder ==
  ASSUME NEW S, NEW s \in Seq(S), Distinct(s), NEW e \in S, e \notin ToSet(s),
         NEW i \in 1..Len(s) + 1
  PROVE  /\ Distinct(InsertAt(s, i, e))
         /\ \A a, b \in ToSet(s) : Before(InsertAt(s, i, e), a, b) <=> Before(s, a, b)
<1> DEFINE t == InsertAt(s, i, e)
           n == Len(s)
           Old(k) == IF k < i THEN k ELSE k - 1
           New(k) == IF k < i THEN k ELSE k + 1
<1>1. n \in Nat /\ DOMAIN s = 1..n /\ i \in 1..n + 1 BY LenProperties
<1>2. /\ DOMAIN t = 1..n + 1
      /\ \A k \in 1..i - 1 : t[k] = s[k]
      /\ t[i] = e
      /\ \A k \in i + 1 .. n + 1 : t[k] = s[k - 1]
  BY InsertedRow
<1> HIDE DEF t, n
<1>3. \A k \in 1..n + 1 : k # i => Old(k) \in 1..n /\ t[k] = s[Old(k)]
  <2> SUFFICES ASSUME NEW k \in 1..n + 1, k # i PROVE Old(k) \in 1..n /\ t[k] = s[Old(k)] OBVIOUS
  <2>1. CASE k < i
    <3>1. k \in 1..i - 1 /\ k \in 1..n BY <1>1, <2>1
    <3> QED BY <1>2, <2>1, <3>1
  <2>2. CASE ~(k < i)
    <3>1. k \in i + 1 .. n + 1 /\ k - 1 \in 1..n BY <1>1, <2>2
    <3> QED BY <1>2, <2>2, <3>1
  <2> QED BY <2>1, <2>2
<1>4. \A k \in 1..n : New(k) \in 1..n + 1 /\ New(k) # i /\ Old(New(k)) = k BY <1>1
<1>5. \A k \in 1..n : t[New(k)] = s[k] BY <1>3, <1>4
<1>6. /\ \A k, m \in 1..n + 1 : k # i /\ m # i => (k < m <=> Old(k) < Old(m))
      /\ \A k, m \in 1..n + 1 : k # i /\ m # i /\ Old(k) = Old(m) => k = m
  BY <1>1
<1>7. \A k, m \in 1..n : k < m <=> New(k) < New(m) BY <1>1
<1> HIDE DEF Old, New
<1>8. \A k \in 1..n : s[k] # e BY <1>1 DEF ToSet
<1>9. i \in 1..n + 1 /\ \A k \in 1..n + 1 : t[k] = e <=> k = i BY <1>1, <1>2, <1>3, <1>8
<1>10. Distinct(t)
  BY <1>1, <1>2, <1>3, <1>6, <1>9 DEF Distinct
<1>11. ASSUME NEW a \in ToSet(s), NEW b \in ToSet(s) PROVE Before(t, a, b) <=> Before(s, a, b)
  <2>1. a # e /\ b # e BY <1>1, <1>8 DEF ToSet
  <2>2. ASSUME Before(t, a, b) PROVE Before(s, a, b)
    <3>1. PICK k, m \in 1..n + 1 : a = t[k] /\ b = t[m] /\ k < m BY <1>2, <2>2 DEF Before
    <3>2. k # i /\ m # i BY <1>9, <2>1, <3>1
    <3>3. Old(k) \in 1..n /\ Old(m) \in 1..n /\ a = s[Old(k)] /\ b = s[Old(m)] /\ Old(k) < Old(m)
      BY <1>3, <1>6, <3>1, <3>2
    <3> QED BY <1>1, <3>3 DEF Before
  <2>3. ASSUME Before(s, a, b) PROVE Before(t, a, b)
    <3>1. PICK k, m \in 1..n : a = s[k] /\ b = s[m] /\ k < m BY <1>1, <2>3 DEF Before
    <3>2. /\ New(k) \in DOMAIN t /\ New(m) \in DOMAIN t
          /\ a = t[New(k)] /\ b = t[New(m)] /\ New(k) < New(m)
      BY <1>2, <1>4, <1>5, <1>7, <3>1
    <3> QED BY <3>2 DEF Before
  <2> QED BY <2>2, <2>3
<1> QED BY <1>10, <1>11 DEF t

\* Without the last row, before which all of them stood, they are in the same order.
LEMMA DeletedOrder ==
  ASSUME NEW S, NEW s \in Seq(S), s # << >>, Distinct(s)
  PROVE  /\ Distinct(Front(s))
         /\ \A a, b \in ToSet(Front(s)) : Before(Front(s), a, b) <=> Before(s, a, b)
         /\ Last(s) \notin ToSet(Front(s))
         /\ \A a : ~Before(s, Last(s), a)
<1> DEFINE t == Front(s)
           n == Len(s)
<1>1. n \in Nat \ {0} /\ DOMAIN s = 1..n /\ Last(s) = s[n] BY EmptySeq, LenProperties DEF Last
<1>2. DOMAIN t = 1..n - 1 /\ \A k \in 1..n - 1 : t[k] = s[k] BY DeletedRow
<1> HIDE DEF t, n
<1>3. n \in 1..n /\ \A k \in 1..n - 1 : k \in 1..n /\ k < n /\ k # n BY <1>1
<1>4. Distinct(t) BY <1>1, <1>2, <1>3 DEF Distinct
<1>5. Last(s) \notin ToSet(t) BY <1>1, <1>2, <1>3 DEF Distinct, ToSet
<1>6. \A k \in 1..n : ~(n < k) BY <1>1
<1>7. \A a : ~Before(s, Last(s), a) BY <1>1, <1>3, <1>6 DEF Before, Distinct
<1>8. ASSUME NEW a \in ToSet(t), NEW b \in ToSet(t) PROVE Before(t, a, b) <=> Before(s, a, b)
  <2>1. PICK i, k \in 1..n - 1 : a = t[i] /\ b = t[k] BY <1>2 DEF ToSet
  <2>2. \A m \in 1..n : (s[m] = a => m = i) /\ (s[m] = b => m = k)
    BY <1>1, <1>2, <1>3, <2>1 DEF Distinct
  <2>3. Before(s, a, b) <=> i < k BY <1>1, <1>2, <1>3, <2>1, <2>2 DEF Before
  <2>4. Before(t, a, b) <=> i < k BY <1>2, <1>3, <2>1, <2>2 DEF Before
  <2> QED BY <2>3, <2>4
<1> QED BY <1>4, <1>5, <1>7, <1>8 DEF t

\* Positions have a first and a last.
LEMMA Extremes ==
  ASSUME NEW n \in Nat, NEW T \in SUBSET (1..n), T # {}
  PROVE  (\E i \in T : \A k \in T : i <= k) /\ (\E i \in T : \A k \in T : k <= i)
<1> DEFINE R == {p \in Nat \X Nat : p[1] < p[2]}
<1>0. IsWellFoundedOn(R, Nat) BY NatLessThanWellFounded DEF OpToRel
<1>1. ASSUME NEW U \in SUBSET Nat, U # {} PROVE \E i \in U : \A k \in U : i <= k
  <2>1. PICK i \in U : \A k \in U : ~(<<k, i>> \in R)
    BY <1>0, <1>1, WFMin
  <2>2. \A k \in U : k \in Nat /\ i \in Nat OBVIOUS
  <2>3. \A k \in U : ~(k < i) BY <2>1, <2>2
  <2> QED BY <2>2, <2>3
<1>2. T \in SUBSET Nat OBVIOUS
<1>3. \E i \in T : \A k \in T : k <= i
  <2> DEFINE U == {n - k : k \in T}
  <2>0. \A k \in T : k \in Int /\ n - k \in Nat OBVIOUS
  <2>1. U \in SUBSET Nat /\ U # {} BY <2>0
  <2>2. PICK u \in U : \A k \in U : u <= k BY <1>1, <2>1
  <2>3. PICK i \in T : u = n - i OBVIOUS
  <2>4. \A k \in T : n - i <= n - k BY <2>2, <2>3
  <2> QED BY <2>0, <2>4
<1> QED BY <1>1, <1>2, <1>3

\* The rows in the order of the list.
FollowsIsBefore ==
  \A a, b : Follows(a, b) <=> IF listing.order = "desc" THEN Before(rows, b, a) ELSE Before(rows, a, b)

LEMMA ListOrder == FollowsIsBefore
  BY DEF FollowsIsBefore, Follows, Before

LEMMA FollowsOrders ==
  ASSUME rows \in Seq(Record), Distinct(rows)
  PROVE  /\ \A a, b, c : Follows(a, b) /\ Follows(b, c) => Follows(a, c)
         /\ \A a, b : Follows(a, b) => a \in Rows /\ b \in Rows /\ ~Follows(b, a)
         /\ \A a, b \in Rows : a = b \/ Follows(a, b) \/ Follows(b, a)
<1>1. FollowsIsBefore BY ListOrder
<1>2. /\ \A a, b, c : Before(rows, a, b) /\ Before(rows, b, c) => Before(rows, a, c)
      /\ \A a, b : Before(rows, a, b) => a \in Rows /\ b \in Rows /\ ~Before(rows, b, a)
      /\ \A a, b \in Rows : a = b \/ Before(rows, a, b) \/ Before(rows, b, a)
  BY OrderOfRows DEF Rows
<1>3. CASE listing.order = "desc" BY <1>1, <1>2, <1>3 DEF FollowsIsBefore
<1>4. CASE listing.order # "desc" BY <1>1, <1>2, <1>4 DEF FollowsIsBefore
<1> QED BY <1>3, <1>4

\* Any choice of rows has a first and a last, whichever way they are listed.
LEMMA FirstAndLastRow ==
  ASSUME rows \in Seq(Record), Distinct(rows), NEW T \in SUBSET Rows, T # {}
  PROVE  /\ \E r \in T : \A s \in T : ~Follows(r, s)
         /\ \E r \in T : \A s \in T : s = r \/ Follows(r, s)
<1> DEFINE n == Len(rows)
           Places == {i \in 1..n : rows[i] \in T}
<1>1. n \in Nat /\ DOMAIN rows = 1..n BY LenProperties
<1>2. Places \in SUBSET (1..n) /\ Places # {} BY <1>1 DEF Rows, ToSet
<1> HIDE DEF n
<1>3. PICK i \in Places : \A k \in Places : i <= k BY <1>1, <1>2, Extremes
<1>4. PICK m \in Places : \A k \in Places : k <= m BY <1>1, <1>2, Extremes
<1>5. \A s \in T : \E k \in Places : s = rows[k] BY <1>1 DEF Rows, ToSet
<1>6. \A k, l \in 1..n : rows[k] = rows[l] => k = l BY <1>1 DEF Distinct
<1>7. /\ rows[i] \in T /\ rows[m] \in T /\ i \in 1..n /\ m \in 1..n
      /\ \A k \in Places : k \in 1..n /\ (k = i \/ i < k) /\ (k = m \/ k < m)
  BY <1>3, <1>4
<1>8. FollowsIsBefore BY ListOrder
<1>9. \A s \in T : /\ s = rows[i] \/ Before(rows, rows[i], s)
                   /\ s = rows[m] \/ Before(rows, s, rows[m])
  BY <1>1, <1>5, <1>7 DEF Before
<1>10. /\ \A a, b : Before(rows, a, b) => ~Before(rows, b, a)
       /\ \A a : ~Before(rows, a, a)
  BY OrderOfRows
<1> HIDE DEF Places
<1>11. CASE listing.order = "desc"
  <2>1. \A s \in T : ~Follows(rows[i], s) BY <1>8, <1>9, <1>10, <1>11 DEF FollowsIsBefore
  <2>2. \A s \in T : s = rows[m] \/ Follows(rows[m], s) BY <1>8, <1>9, <1>11 DEF FollowsIsBefore
  <2> QED BY <1>7, <2>1, <2>2
<1>12. CASE listing.order # "desc"
  <2>1. \A s \in T : ~Follows(rows[m], s) BY <1>8, <1>9, <1>10, <1>12 DEF FollowsIsBefore
  <2>2. \A s \in T : s = rows[i] \/ Follows(rows[i], s) BY <1>8, <1>9, <1>12 DEF FollowsIsBefore
  <2> QED BY <1>7, <2>1, <2>2
<1> QED BY <1>11, <1>12

\* What matches among the rows that were there when the list began is among those shown.
AllShown ==
  {r \in listing.present \cap Rows : Matches(r, listing.outcome)} \subseteq listing.seen

\* Nothing after row c was shown, and everything up to it.
ShownUpTo(c) ==
  \A r \in Rows :
    IF Follows(r, c) THEN r \notin listing.seen
    ELSE r \in listing.present /\ Matches(r, listing.outcome) => r \in listing.seen

Listings ==
  [pc : {"reading", "done"}, order : {"asc", "desc"}, outcome : {"all", "failed"},
   present : SUBSET Record, seen : SUBSET Record, repeated : BOOLEAN,
   cursor : SUBSET Record, lost : BOOLEAN]

Reading ==
  \/ listing.cursor = {} /\ listing.seen = {}
  \/ \E c : /\ listing.cursor = {c} /\ c \in listing.seen
            /\ c \in Rows => ShownUpTo(c)
            /\ c \notin Rows /\ listing.order = "desc" => AllShown

ListInv ==
  /\ Distinct(rows)
  /\ \/ listing = NoListing
     \/ /\ listing \in Listings
        /\ ~listing.repeated
        /\ listing.present \subseteq store /\ listing.seen \subseteq store
        /\ listing.pc = "reading" => Reading
        /\ listing.pc = "done" /\ (listing.order = "desc" \/ ~listing.lost) => AllShown

\* A page is an initial part of what was found, with a last row, and empty only if nothing was.
LEMMA Pages ==
  ASSUME TrackingInv, Distinct(rows)
  PROVE  /\ Page \subseteq Found /\ Found \subseteq Rows
         /\ \A r \in Page, s \in Found : Follows(r, s) => s \in Page
         /\ Found # {} => \E r \in Page : \A s \in Page : s = r \/ Follows(r, s)
<1> DEFINE Up(r) == {s \in Found : Follows(r, s)}
<1>1. rows \in Seq(Record) /\ IsFiniteSet(Rows) BY DEF TrackingInv, RequestType
<1>2. /\ Found \subseteq Rows /\ Page \subseteq Found
      /\ \A r \in Found : r \in Page <=> Cardinality(Up(r)) < Limit
  BY DEF Found, Page
<1>3. IsFiniteSet(Found) BY <1>1, <1>2, FS_Subset
<1>4. \A r : IsFiniteSet(Up(r)) /\ Cardinality(Up(r)) \in Nat
  <2> SUFFICES ASSUME NEW r PROVE IsFiniteSet(Up(r)) /\ Cardinality(Up(r)) \in Nat OBVIOUS
  <2>1. Up(r) \in SUBSET Found OBVIOUS
  <2> HIDE DEF Up
  <2> QED BY <1>3, <2>1, FS_Subset, FS_CardinalityType
<1>5. Limit \in Nat \ {0} BY TrackingAssumption
<1>6. ASSUME NEW r \in Page, NEW s \in Found, Follows(r, s) PROVE s \in Page
  <2>1. Up(s) \in SUBSET Up(r) BY <1>1, <1>6, FollowsOrders
  <2> HIDE DEF Up
  <2>2. Cardinality(Up(s)) <= Cardinality(Up(r)) BY <1>4, <2>1, FS_Subset
  <2>3. Cardinality(Up(r)) < Limit BY <1>2
  <2> QED BY <1>2, <1>4, <1>5, <2>2, <2>3
<1>7. ASSUME Found # {} PROVE \E r \in Page : \A s \in Page : s = r \/ Follows(r, s)
  <2>1. PICK r \in Found : \A s \in Found : ~Follows(r, s)
    <3>1. Found \in SUBSET Rows BY <1>2
    <3> QED BY <1>1, <1>7, <3>1, FirstAndLastRow
  <2>2. Up(r) = {} BY <2>1
  <2>3. Cardinality(Up(r)) = 0 BY <2>2, FS_EmptySet
  <2>4. r \in Page BY <1>2, <1>5, <2>3
  <2>5. Page \in SUBSET Rows /\ Page # {} BY <1>2, <2>4
  <2> QED BY <1>1, <2>5, FirstAndLastRow
<1> QED BY <1>2, <1>6, <1>7

\* The next page shows nothing again, and with the last one everything was shown.
LEMMA NextPage ==
  ASSUME TrackingInv, ListInv, ReadPage
  PROVE  ListInv'
<1>1. /\ listing \in Listings /\ ~listing.repeated /\ Reading
      /\ listing.present \subseteq store /\ listing.seen \subseteq store
  BY DEF ListInv, ReadPage, NoListing
<1>2. PICK last : last = CHOOSE r \in Page : \A s \in Page : s = r \/ Follows(r, s) OBVIOUS
<1> DEFINE next == [listing EXCEPT
             !.seen = listing.seen \union Page,
             !.repeated = listing.repeated \/ listing.seen \intersect Page # {},
             !.cursor = IF Page = Found THEN {} ELSE {last},
             !.lost = listing.lost \/ ~(listing.cursor \subseteq Rows),
             !.pc = IF Page = Found THEN "done" ELSE "reading"]
<1>3. Distinct(rows) /\ rows \in Seq(Record) BY DEF ListInv, TrackingInv, RequestType
<1>4. /\ Page \subseteq Found /\ Found \subseteq Rows
      /\ \A r \in Page, s \in Found : Follows(r, s) => s \in Page
      /\ Found # {} => last \in Page /\ \A s \in Page : s = last \/ Follows(last, s)
  BY <1>2, <1>3, Pages
<1>5. /\ \A a, b, c : Follows(a, b) /\ Follows(b, c) => Follows(a, c)
      /\ \A a, b : Follows(a, b) => a \in Rows /\ b \in Rows /\ ~Follows(b, a)
      /\ \A a, b \in Rows : a = b \/ Follows(a, b) \/ Follows(b, a)
  BY <1>3, FollowsOrders
<1>6. \A r : r \in Found <=> /\ r \in Rows /\ Matches(r, listing.outcome)
                              /\ \A c \in listing.cursor : Follows(r, c)
  BY DEF Found
<1>7. listing' = next /\ UNCHANGED <<queueVars, request, rows>> BY <1>2 DEF ReadPage
<1>8. /\ next.pc = IF Page = Found THEN "done" ELSE "reading"
      /\ next.order = listing.order /\ next.outcome = listing.outcome
      /\ next.present = listing.present /\ next.seen = listing.seen \union Page
      /\ next.repeated = (listing.repeated \/ listing.seen \intersect Page # {})
      /\ next.cursor = IF Page = Found THEN {} ELSE {last}
      /\ next.lost = (listing.lost \/ ~(listing.cursor \subseteq Rows))
  BY <1>1 DEF Listings
<1>9. Rows \subseteq store /\ store \subseteq Record
  BY DEF TrackingInv, FinishedOnly, QueueInv, TypeOK
<1>10. listing.seen \intersect Page = {}
  <2>1. CASE listing.seen = {} BY <2>1
  <2>2. ASSUME NEW c, listing.cursor = {c}, c \in Rows => ShownUpTo(c), NEW r \in Page
        PROVE  r \notin listing.seen
    <3>1. Follows(r, c) /\ r \in Rows BY <1>4, <1>6, <2>2
    <3> QED BY <1>5, <2>2, <3>1 DEF ShownUpTo
  <2> QED BY <1>1, <2>1, <2>2 DEF Reading
<1>11. next \in Listings
  <2>1. last \in Record \/ Page = Found
    BY <1>4, <1>9
  <2>2. next.seen \subseteq Record /\ next.cursor \subseteq Record
    BY <1>1, <1>4, <1>8, <1>9, <2>1 DEF Listings
  <2>3. PICK s \in SUBSET Record, c \in SUBSET Record, pc \in {"reading", "done"} :
          s = next.seen /\ c = next.cursor /\ pc = next.pc
    BY <1>8, <2>2
  <2>4. PICK t \in BOOLEAN, u \in BOOLEAN : t = next.repeated /\ u = next.lost BY <1>8
  <2>5. next = [listing EXCEPT !.seen = s, !.repeated = t, !.cursor = c, !.lost = u, !.pc = pc]
    BY <1>8, <2>3, <2>4
  <2>6. [listing EXCEPT !.seen = s, !.repeated = t, !.cursor = c, !.lost = u, !.pc = pc] \in Listings
    BY <1>1 DEF Listings
  <2> HIDE DEF next
  <2> QED BY <2>5, <2>6, Zenon
<1>12. ~next.repeated /\ next.present \subseteq store /\ next.seen \subseteq store
  BY <1>1, <1>4, <1>8, <1>9, <1>10
\* A row that is not found was shown, or the row it follows is gone.
<1>13. ASSUME NEW r \in Rows, r \in listing.present, Matches(r, listing.outcome), r \notin Found,
              listing.order = "desc" \/ listing.cursor \subseteq Rows
       PROVE  r \in listing.seen
  <2>1. PICK c : /\ listing.cursor = {c} /\ ~Follows(r, c)
                 /\ c \in Rows => ShownUpTo(c)
                 /\ c \notin Rows /\ listing.order = "desc" => AllShown
    BY <1>1, <1>6, <1>13 DEF Reading
  <2>2. CASE c \in Rows BY <1>13, <2>1, <2>2 DEF ShownUpTo
  <2>3. CASE c \notin Rows BY <1>13, <2>1, <2>3 DEF AllShown
  <2> QED BY <2>2, <2>3
<1>14. ASSUME Page = Found, listing.order = "desc" \/ ~next.lost
       PROVE  {r \in listing.present \cap Rows : Matches(r, listing.outcome)} \subseteq next.seen
  <2>1. listing.order = "desc" \/ listing.cursor \subseteq Rows BY <1>8, <1>14
  <2> QED BY <1>8, <1>13, <1>14, <2>1
<1>15. ASSUME Page # Found
       PROVE  /\ last \in Rows
              /\ \A r \in Rows :
                   IF Follows(r, last) THEN r \notin next.seen
                   ELSE r \in listing.present /\ Matches(r, listing.outcome) => r \in next.seen
  <2>1. last \in Page /\ \A s \in Page : s = last \/ Follows(last, s) BY <1>4, <1>15
  <2>2. last \in Rows /\ \A c \in listing.cursor : Follows(last, c) BY <1>4, <1>6, <2>1
  <2>3. listing.cursor \subseteq Rows BY <1>5, <2>2
  <2>4. ASSUME NEW r \in Rows, Follows(r, last) PROVE r \notin next.seen
    <3>1. r \notin Page BY <1>5, <2>1, <2>4
    <3>2. r \notin listing.seen
      <4>1. CASE listing.seen = {} BY <4>1
      <4>2. ASSUME NEW c, listing.cursor = {c}, c \in Rows => ShownUpTo(c) PROVE r \notin listing.seen
        <5>1. c \in Rows /\ Follows(r, c) BY <1>5, <2>2, <2>3, <2>4, <4>2
        <5> QED BY <4>2, <5>1 DEF ShownUpTo
      <4> QED BY <1>1, <4>1, <4>2 DEF Reading
    <3> QED BY <1>8, <3>1, <3>2
  <2>5. ASSUME NEW r \in Rows, ~Follows(r, last), r \in listing.present, Matches(r, listing.outcome)
        PROVE  r \in next.seen
    <3>1. CASE r \in Found BY <1>4, <1>5, <1>8, <2>1, <2>2, <2>5, <3>1
    <3>2. CASE r \notin Found BY <1>8, <1>13, <2>3, <2>5, <3>2
    <3> QED BY <3>1, <3>2
  <2> QED BY <2>2, <2>4, <2>5
<1>16. /\ Rows' = Rows /\ store' = store /\ \A a, b : Follows(a, b)' <=> Follows(a, b)
       /\ \A r, o : Matches(r, o)' <=> Matches(r, o)
  BY <1>7, <1>8 DEF Rows, queueVars, Matches, Follows
<1> HIDE DEF next
<1>17. CASE Page = Found
  <2>1. next.pc = "done" BY <1>8, <1>17
  <2>2. next.order = "desc" \/ ~next.lost => AllShown'
    BY <1>7, <1>8, <1>14, <1>16, <1>17 DEF AllShown
  <2> QED BY <1>7, <1>11, <1>3, <1>12, <1>16, <2>1, <2>2 DEF ListInv
<1>18. CASE Page # Found
  <2>1. next.pc = "reading" /\ next.cursor = {last} /\ last \in next.seen BY <1>4, <1>8, <1>18
  <2>2. ShownUpTo(last)' BY <1>7, <1>8, <1>15, <1>16, <1>18 DEF ShownUpTo
  <2>3. Reading' BY <1>7, <1>15, <1>16, <1>18, <2>1, <2>2 DEF Reading
  <2> QED BY <1>7, <1>11, <1>3, <1>12, <1>16, <2>1, <2>3 DEF ListInv
<1> QED BY <1>17, <1>18

\* Writes, deletions and new requests between two pages.
LEMMA BetweenPages ==
  ASSUME TrackingInv, ListInv, UNCHANGED listing, Distinct(rows)', store \subseteq store',
         \A r \in Rows' : r \in Rows \/ r \notin store,
         \A r \in Rows \cap Rows' : \A o : Matches(r, o)' <=> Matches(r, o),
         \A a, b \in Rows \cap Rows' : Follows(a, b)' <=> Follows(a, b),
         \A c \in Rows : c \notin Rows' /\ listing.order = "desc" =>
                           \A r \in Rows' : ~Follows(r, c)
  PROVE  ListInv'
<1>1. CASE listing = NoListing BY <1>1 DEF ListInv
<1>2. CASE listing \in Listings /\ listing # NoListing
  <2>1. /\ ~listing.repeated /\ listing.present \subseteq store /\ listing.seen \subseteq store
        /\ listing.pc = "reading" => Reading
        /\ listing.pc = "done" /\ (listing.order = "desc" \/ ~listing.lost) => AllShown
    BY <1>2 DEF ListInv
  <2>2. AllShown => AllShown' BY <2>1 DEF AllShown
  <2>3. ASSUME NEW c \in Rows, ShownUpTo(c)
        PROVE  /\ c \in Rows' => ShownUpTo(c)'
               /\ c \notin Rows' /\ listing.order = "desc" => AllShown'
    <3>1. ASSUME c \in Rows' PROVE ShownUpTo(c)'
      <4> SUFFICES ASSUME NEW r \in Rows'
                   PROVE  /\ Follows(r, c)' => r \notin listing.seen
                          /\ ~Follows(r, c)' /\ r \in listing.present /\ Matches(r, listing.outcome)'
                               => r \in listing.seen
        BY DEF ShownUpTo
      <4>1. CASE r \notin Rows BY <2>1, <4>1
      <4>2. CASE r \in Rows BY <2>3, <3>1, <4>2 DEF ShownUpTo
      <4> QED BY <4>1, <4>2
    <3>2. ASSUME c \notin Rows', listing.order = "desc" PROVE AllShown'
      <4>1. \A r \in Rows' : r \in listing.present => r \in Rows /\ ~Follows(r, c) BY <2>1, <3>2
      <4> QED BY <2>3, <4>1 DEF ShownUpTo, AllShown
    <3> QED BY <3>1, <3>2
  <2>4. listing.pc = "reading" => Reading'
    <3>1. CASE listing.cursor = {} /\ listing.seen = {} BY <3>1 DEF Reading
    <3>2. ASSUME NEW c, listing.pc = "reading", listing.cursor = {c}, c \in Rows => ShownUpTo(c),
                 c \notin Rows /\ listing.order = "desc" => AllShown, c \in listing.seen
          PROVE  Reading'
      <4>1. CASE c \in Rows BY <2>3, <3>2, <4>1 DEF Reading
      <4>2. CASE c \notin Rows /\ c \notin Rows' BY <2>2, <3>2, <4>2 DEF Reading
      <4>3. CASE c \notin Rows /\ c \in Rows' BY <2>1, <3>2, <4>3
      <4> QED BY <4>1, <4>2, <4>3
    <3> QED BY <2>1, <3>1, <3>2 DEF Reading
  <2> QED BY <1>2, <2>1, <2>2, <2>4 DEF ListInv
<1> QED BY <1>1, <1>2 DEF ListInv

\* What a write and a deletion do to the rows' order.
LEMMA PersistOrder ==
  ASSUME TrackingInv, Distinct(rows), NEW r \in Record, Persist(r)
  PROVE  /\ Distinct(rows)' /\ store \subseteq store' /\ \A s \in Rows' : s \in Rows \/ s \notin store
         /\ Rows \subseteq Rows'
         /\ \A a, b \in Rows : Before(rows, a, b)' <=> Before(rows, a, b)
<1>1. store' \in {store, store \union {r}} BY DEF Persist, Upsert, UpsertSucceeds, UpsertFails
<1>2. CASE store' = store
  <2>1. rows' = rows BY <1>2 DEF Persist
  <2> QED BY <1>2, <2>1 DEF Rows, Before, Distinct
<1>3. CASE store' # store
  <2>1. PICK i \in 1..Len(rows) + 1 : rows' = InsertAt(rows, i, r) BY <1>3 DEF Persist
  <2>2. r \notin store BY <1>1, <1>3
  <2>3. rows \in Seq(Record) /\ r \notin ToSet(rows)
    BY <2>2 DEF TrackingInv, RequestType, FinishedOnly, Rows
  <2>4. Rows' = Rows \union {r} BY <2>1, <2>3, InsertedRow DEF Rows
  <2>5. /\ Distinct(InsertAt(rows, i, r))
        /\ \A a, b \in Rows : Before(InsertAt(rows, i, r), a, b) <=> Before(rows, a, b)
    BY <2>3, InsertedOrder DEF Rows
  <2>6. Distinct(rows)' BY <2>1, <2>5 DEF Distinct
  <2>7. \A a, b \in Rows : Before(rows, a, b)' <=> Before(rows, a, b)
    BY <2>1, <2>5 DEF Before
  <2> QED BY <1>1, <2>2, <2>4, <2>6, <2>7
<1> QED BY <1>2, <1>3

LEMMA CleanupOrder ==
  ASSUME TrackingInv, Distinct(rows), Cleanup
  PROVE  /\ Distinct(rows)' /\ Rows' \subseteq Rows
         /\ \A a, b \in Rows' : Before(rows, a, b)' <=> Before(rows, a, b)
         /\ \A c \in Rows : c \notin Rows' => \A a : ~Before(rows, c, a)
<1>1. rows # << >> /\ rows' = Front(rows) /\ rows \in Seq(Record)
  BY DEF Cleanup, TrackingInv, RequestType
<1>2. /\ Distinct(Front(rows))
      /\ \A a, b \in Rows' : Before(Front(rows), a, b) <=> Before(rows, a, b)
      /\ \A a : ~Before(rows, Last(rows), a)
  BY <1>1, DeletedOrder DEF Rows
<1>3. Rows' \subseteq Rows /\ Rows \subseteq Rows' \union {Last(rows)} BY CleanupKeeps
<1>4. Distinct(rows)' BY <1>1, <1>2 DEF Distinct
<1>5. \A a, b \in Rows' : Before(rows, a, b)' <=> Before(rows, a, b) BY <1>1, <1>2 DEF Before
<1> QED BY <1>2, <1>3, <1>4, <1>5

\* No step spoils a list that is being read.
LEMMA ListStep ==
  ASSUME TrackingInv, ListInv, [TrackingNext]_trackingVars
  PROVE  ListInv'
<1>1. Distinct(rows) BY DEF ListInv
<1>2. FollowsIsBefore /\ FollowsIsBefore'
  <2>1. FollowsIsBefore BY ListOrder
  <2>2. FollowsIsBefore' BY ListOrder, PTL
  <2> QED BY <2>1, <2>2
<1>3. CASE UNCHANGED <<queueVars, request, rows, listing>>
  BY <1>3 DEF ListInv, Reading, ShownUpTo, AllShown, Follows, Matches, Rows, Distinct, queueVars
<1>4. ASSUME UNCHANGED <<rows, listing>>, store \subseteq store',
             \A s \in accepted : request'[s] = request[s]
      PROVE  ListInv'
  <2>1. Rows' = Rows /\ Distinct(rows)' BY <1>1, <1>4 DEF Rows, Distinct
  <2>2. \A r \in Rows : \A o : Matches(r, o)' <=> Matches(r, o)
    BY <1>4 DEF Matches, TrackingInv, FinishedOnly
  <2>3. \A a, b \in Rows : Follows(a, b)' <=> Follows(a, b) BY <1>4 DEF Follows
  <2> QED BY <1>4, <2>1, <2>2, <2>3, BetweenPages
<1>5. ASSUME NEW r \in Record,
             (\E shape \in Shape : Arrive(r, shape)) \/ Finish(r) \/ Unrecorded(r)
      PROVE  ListInv'
  <2>1. rows' = rows /\ \A s \in accepted : request'[s] = request[s] BY <1>5, RequestKeeps
  <2>2. listing' = listing /\ store' = store
    BY <1>5 DEF Arrive, Finish, Unrecorded, Enqueue, readVars, queueVars
  <2> QED BY <1>4, <2>1, <2>2
<1>6. ASSUME NEW r \in Record, Persist(r) PROVE ListInv'
  <2>1. /\ Distinct(rows)' /\ store \subseteq store' /\ \A s \in Rows' : s \in Rows \/ s \notin store
        /\ Rows \subseteq Rows'
        /\ \A a, b \in Rows : Before(rows, a, b)' <=> Before(rows, a, b)
    BY <1>1, <1>6, PersistOrder
  <2>2. UNCHANGED <<request, listing>> BY <1>6 DEF Persist
  <2>3. \A s, o : Matches(s, o)' <=> Matches(s, o) BY <2>2 DEF Matches
  <2>4. \A a, b \in Rows : Follows(a, b)' <=> Follows(a, b)
    BY <1>2, <2>1, <2>2 DEF FollowsIsBefore
  <2> QED BY <2>1, <2>2, <2>3, <2>4, BetweenPages
<1>7. CASE Cleanup
  <2>1. /\ Distinct(rows)' /\ Rows' \subseteq Rows
        /\ \A a, b \in Rows' : Before(rows, a, b)' <=> Before(rows, a, b)
        /\ \A c \in Rows : c \notin Rows' => \A a : ~Before(rows, c, a)
    BY <1>1, <1>7, CleanupOrder
  <2>2. UNCHANGED <<request, listing>> /\ store' = store BY <1>7 DEF Cleanup, queueVars
  <2>3. \A s, o : Matches(s, o)' <=> Matches(s, o) BY <2>2 DEF Matches
  <2>4. \A a, b \in Rows' : Follows(a, b)' <=> Follows(a, b)
    BY <1>2, <2>1, <2>2 DEF FollowsIsBefore
  <2>5. \A c \in Rows : c \notin Rows' /\ listing.order = "desc" => \A s \in Rows' : ~Follows(s, c)
    BY <1>2, <2>1 DEF FollowsIsBefore
  <2> QED BY <2>1, <2>2, <2>3, <2>4, <2>5, BetweenPages
<1>8. CASE Internal
  <2>1. UNCHANGED <<rows, listing, request, store>>
    BY <1>8 DEF Internal, Flush, ShutdownStarts, Exit, ProcessStarts, ProcessEnds, LoopResumes,
                readVars
  <2> QED BY <1>4, <2>1
<1>9. ASSUME NEW order \in {"asc", "desc"}, NEW outcome \in {"all", "failed"},
             StartListing(order, outcome)
      PROVE  ListInv'
  <2>1. /\ listing' = [pc |-> "reading", order |-> order, outcome |-> outcome, present |-> Rows,
                       seen |-> {}, repeated |-> FALSE, cursor |-> {}, lost |-> FALSE]
        /\ UNCHANGED <<queueVars, request, rows>>
    BY <1>9 DEF StartListing
  <2>2. Rows \subseteq store /\ store \subseteq Record
    BY DEF TrackingInv, FinishedOnly, QueueInv, TypeOK
  <2>3. listing' \in Listings BY <2>1, <2>2 DEF Listings
  <2>4. Reading' BY <2>1 DEF Reading
  <2>5. Distinct(rows)' /\ store' = store BY <1>1, <2>1 DEF Distinct, queueVars
  <2> QED BY <2>1, <2>2, <2>3, <2>4, <2>5 DEF ListInv
<1>10. CASE ReadPage BY <1>10, NextPage
<1>11. CASE CountTotal \/ CountErrors \/ CountGroups
  BY <1>3, <1>11 DEF CountTotal, CountErrors, CountGroups
<1> QED
  BY <1>3, <1>5, <1>6, <1>7, <1>8, <1>9, <1>10, <1>11 DEF TrackingNext, trackingVars, readVars

\* A list read to its end shows no row twice, and every row that was there all the time, in
\* whatever order requests finish, are stored and are deleted between its pages.
THEOREM ListsAreComplete == TrackingSpec => []PagesComplete
<1>1. TrackingInit => ListInv BY DEF TrackingInit, ListInv, Distinct
<1>2. ListInv => PagesComplete BY DEF ListInv, PagesComplete, AllShown, NoListing
<1> QED BY <1>1, <1>2, ListStep, TrackingInvariance, PTL DEF TrackingSpec

\* What an administrator reads of the table is true of it.
THEOREM AdministratorsReadTheTruth == TrackingSpec => []ReadsAreTrue
<1>1. PagesComplete /\ ReportAddsUp => ReadsAreTrue BY DEF ReadsAreTrue
<1> QED BY <1>1, ListsAreComplete, ReportsAddUp, PTL

-----------------------------------------------------------------------------
(***************************************************************************)
(* Signing in: the inductive invariant.                                    *)
(***************************************************************************)
UserRow ==
  [origin : Account \union {"none", "password", "admin"}, status : Status,
   verified : BOOLEAN, deleted : BOOLEAN, code : Nat, codeUsed : BOOLEAN,
   reset : BOOLEAN, ended : Nat]

SessionRow ==
  [user : User \union {"none"}, revoked : BOOLEAN, current : Int, prev : Int, prevAt : Int,
   expiresAt : Int, issued : SUBSET Int, opened : Nat]

Calls ==
  [pc : {"idle"}]
    \union [pc : {"verifying"}, user : User, code : Nat]
    \union [pc : {"opening", "activating"}, user : User]
    \union [pc : {"changing"}, user : User, session : Session]
    \union [pc : {"unblocking"}, user : User, status : {"ACTIVE", "PENDING_VERIFICATION"}]

Flows ==
  [pc : {"none", "done"}]
    \union [pc : {"started"}, link : Session \union {"none"}]
    \union [pc : {"granted"}, link : Session \union {"none"}, account : Account]
    \union [pc : {"linking"}, user : User, account : Account,
            create : BOOLEAN, verify : BOOLEAN]
    \union [pc : {"signing", "proving"}, user : User]
    \union [pc : {"creating"}, account : Account]

TypeInv ==
  /\ user \in [User -> UserRow]
  /\ identity \in [Account -> User \union {"none"}]
  /\ session \in [Session -> SessionRow]
  /\ call \in [Caller -> Calls]
  /\ flow \in [Attempt -> Flows]
  /\ facts \in Profiles
  /\ now \in Nat

Registered(u) == user[u].status # "NONE"

\* A user who is not registered has an empty row; of one who is verified somebody showed that he
\* reads the mailbox.
UserFine(u) ==
  /\ ~Registered(u) => user[u] = NoUser
  /\ user[u].verified => user[u].origin = "admin" \/ user[u].codeUsed \/ u \in vouched

\* The user of an account is verified or was created by it.
IdentityFine(a) ==
  identity[a] # "none" =>
    /\ Registered(identity[a])
    /\ user[identity[a]].verified \/ user[identity[a]].origin = a

\* No user has two accounts of one provider.
OneEach ==
  \A a, b \in Account :
    facts[a].provider = facts[b].provider /\ identity[a] = identity[b] /\ identity[a] # "none"
      => a = b

\* Requests in progress are about registered users.
CallFine(c) == ~At(c, "idle") => Registered(call[c].user)

\* What a flow still knows of its account and its user when it writes.
Proves(a, u) == Profile(a).ok /\ Profile(a).trusted /\ Profile(a).email = u

FlowFine(x) ==
  /\ flow[x].pc \in {"granted", "creating"} => Profile(flow[x].account).ok
  /\ In(x, "creating") => Profile(flow[x].account).email # "none"
  /\ flow[x].pc \in {"linking", "signing", "proving"} => Registered(flow[x].user)
  /\ In(x, "linking") =>
       IF flow[x].verify THEN Proves(flow[x].account, flow[x].user)
                         ELSE user[flow[x].user].verified

\* A session belongs to a registered user, its token is not of the future, and it does not
\* outlive the end of all sessions of its user.
SessionFine(s) ==
  IF Exists(s)
  THEN /\ Registered(session[s].user)
       /\ 0 <= session[s].current /\ session[s].current <= now
       /\ Fresh(s) => session[s].opened = user[session[s].user].ended
  ELSE session[s] = Unused

Inv ==
  /\ TypeInv
  /\ \A u \in User : UserFine(u)
  /\ \A a \in Account : IdentityFine(a)
  /\ OneEach
  /\ \A c \in Caller : CallFine(c)
  /\ \A x \in Attempt : FlowFine(x)
  /\ \A s \in Session : SessionFine(s)

-----------------------------------------------------------------------------
(***************************************************************************)
(* What a step must show.                                                  *)
(***************************************************************************)

\* Rows of registered users keep their origin and their proof.
UsersGrow ==
  \A u \in User : Registered(u) =>
    /\ Registered(u)'
    /\ user[u].verified => user'[u].verified
    /\ user'[u].origin = user[u].origin

\* What a step leaves alone stays fine while users grow and time passes; the step has to show
\* the rest to be fine.
LEMMA Keeps ==
  ASSUME Inv, TypeInv', UNCHANGED facts, UsersGrow, now <= now', OneEach',
         \A u \in User : UserFine(u)',
         \A a \in Account : identity'[a] = identity[a] \/ IdentityFine(a)',
         \A c \in Caller : call'[c] = call[c] \/ CallFine(c)',
         \A x \in Attempt : flow'[x] = flow[x] \/ FlowFine(x)',
         \A s \in Session :
           \/ /\ session'[s] = session[s]
              /\ Exists(s) => user'[session[s].user].ended = user[session[s].user].ended
           \/ SessionFine(s)'
  PROVE  Inv'
<1>1. ASSUME NEW a \in Account, identity'[a] = identity[a] PROVE IdentityFine(a)'
  <2>1. identity[a] \in User \union {"none"} BY DEF Inv, TypeInv
  <2> QED BY <1>1, <2>1 DEF Inv, IdentityFine, UsersGrow, Registered
<1>2. ASSUME NEW c \in Caller, call'[c] = call[c] PROVE CallFine(c)'
  <2>1. ~At(c, "idle") => call[c].user \in User BY DEF Inv, TypeInv, At, Calls
  <2> QED BY <1>2, <2>1 DEF Inv, CallFine, UsersGrow, At, Registered
<1>3. ASSUME NEW x \in Attempt, flow'[x] = flow[x] PROVE FlowFine(x)'
  <2>1. flow[x].pc \in {"linking", "signing", "proving"} => flow[x].user \in User
    BY DEF Inv, TypeInv, Flows
  <2>2. FlowFine(x) BY DEF Inv
  <2>3. \A u \in User : user[u].status # "NONE" =>
          user'[u].status # "NONE" /\ (user[u].verified => user'[u].verified)
    BY DEF UsersGrow, Registered
  <2> QED BY <1>3, <2>1, <2>2, <2>3 DEF FlowFine, Registered, In, Proves, Profile
<1>4. ASSUME NEW s \in Session, session'[s] = session[s],
             Exists(s) => user'[session[s].user].ended = user[session[s].user].ended
      PROVE  SessionFine(s)'
  <2>1. Exists(s)' = Exists(s) BY <1>4 DEF Exists
  <2>2. CASE Exists(s)
    <3>1. session[s].user \in User /\ session[s].current \in Int /\ now \in Nat /\ now' \in Nat
      BY <2>2 DEF Inv, TypeInv, SessionRow, Exists
    <3>2. Registered(session[s].user) /\ 0 <= session[s].current /\ session[s].current <= now
          /\ (Fresh(s) => session[s].opened = user[session[s].user].ended)
      BY <2>2 DEF Inv, SessionFine
    <3>3. session[s].expiresAt \in Int BY DEF Inv, TypeInv, SessionRow
    <3>4. Fresh(s)' => Fresh(s) BY <1>4, <2>1, <3>1, <3>3 DEF Fresh
    <3>5. user'[session[s].user].status # "NONE" BY <3>1, <3>2 DEF UsersGrow, Registered
    <3> QED BY <1>4, <2>1, <2>2, <3>1, <3>2, <3>4, <3>5 DEF SessionFine, Registered
  <2>3. CASE ~Exists(s)
    BY <1>4, <2>1, <2>3 DEF Inv, SessionFine, Unused
  <2> QED BY <2>2, <2>3
<1> QED BY <1>1, <1>2, <1>3, <1>4, Zenon DEF Inv

\* Accounts are linked as they were.
LEMMA OneEachKept ==
  ASSUME Inv, UNCHANGED <<identity, facts>>
  PROVE  OneEach'
BY DEF Inv, OneEach
\* A row may replace the one of u: he is registered, keeps his origin and his proof, and a proof
\* of the row was earned.
Succeeds(row, u) ==
  /\ row \in UserRow /\ row.status # "NONE"
  /\ Registered(u) => /\ user[u].verified => row.verified
                      /\ row.origin = user[u].origin
  /\ row.verified => row.origin = "admin" \/ row.codeUsed \/ u \in vouched'

\* Writing such a row lets users grow and keeps them fine.
LEMMA RowSucceeds ==
  ASSUME Inv, NEW u \in User, NEW row, SetUser(u, row), Succeeds(row, u),
         vouched \subseteq vouched'
  PROVE  /\ user' \in [User -> UserRow]
         /\ UsersGrow
         /\ \A v \in User : UserFine(v)'
         /\ user'[u] = row
         /\ \A v \in User : v # u => user'[v] = user[v]
<1>1. user' \in [User -> UserRow] BY DEF Inv, TypeInv, SetUser, Succeeds
<1>2. user'[u] = row /\ \A v \in User : v # u => user'[v] = user[v]
  BY DEF Inv, TypeInv, SetUser
<1>3. UsersGrow BY <1>2 DEF UsersGrow, Succeeds, Registered
<1>4. UserFine(u)' BY <1>2 DEF UserFine, Succeeds, Registered
<1>5. ASSUME NEW v \in User, v # u PROVE UserFine(v)'
  BY <1>2, <1>5 DEF Inv, UserFine, Registered
<1> QED BY <1>1, <1>2, <1>3, <1>4, <1>5

\* A step that writes the row of one user and no session, and leaves his count of ends alone.
LEMMA SetUserKeeps ==
  ASSUME Inv, NEW u \in User, NEW row, SetUser(u, row), Succeeds(row, u),
         Registered(u) => row.ended = user[u].ended,
         UNCHANGED <<identity, session, now, facts, vouched>>,
         call' \in [Caller -> Calls], \A c \in Caller : call'[c] = call[c] \/ CallFine(c)',
         flow' \in [Attempt -> Flows], \A x \in Attempt : flow'[x] = flow[x] \/ FlowFine(x)'
  PROVE  Inv'
<1>1. /\ user' \in [User -> UserRow]
      /\ UsersGrow
      /\ \A v \in User : UserFine(v)'
      /\ user'[u] = row
      /\ \A v \in User : v # u => user'[v] = user[v]
  BY RowSucceeds
<1>2. TypeInv' BY <1>1 DEF Inv, TypeInv
<1>3. OneEach' BY OneEachKept
<1>4. ASSUME NEW s \in Session, Exists(s)
      PROVE  user'[session[s].user].ended = user[session[s].user].ended
  <2>1. session[s].user \in User BY <1>4 DEF Inv, TypeInv, SessionRow, Exists
  <2>2. Registered(session[s].user) BY <1>4 DEF Inv, SessionFine
  <2> QED BY <1>1, <2>1, <2>2
<1>5. now <= now' BY DEF Inv, TypeInv
<1> QED BY <1>1, <1>2, <1>3, <1>4, <1>5, Keeps

\* A step that writes no row: reads, and the passing of time.
LEMMA ReadKeeps ==
  ASSUME Inv, UNCHANGED <<user, identity, session, facts, vouched>>,
         now' \in Nat, now <= now',
         call' \in [Caller -> Calls], \A c \in Caller : call'[c] = call[c] \/ CallFine(c)',
         flow' \in [Attempt -> Flows], \A x \in Attempt : flow'[x] = flow[x] \/ FlowFine(x)'
  PROVE  Inv'
<1>1. UsersGrow BY DEF UsersGrow, Registered
<1>2. TypeInv' BY DEF Inv, TypeInv
<1>3. OneEach' BY OneEachKept
<1>4. \A u \in User : UserFine(u)' BY DEF Inv, UserFine, Registered
<1> QED BY <1>1, <1>2, <1>3, <1>4, Keeps

\* All sessions of a user end: those that are still fresh afterwards count as opened now.
LEMMA EndKeeps ==
  ASSUME Inv, NEW u \in User, NEW row, NEW kept, EndSessions(u, row, kept),
         Succeeds(row, u), row.ended = user[u].ended,
         UNCHANGED <<identity, now, facts, vouched, flow>>,
         call' \in [Caller -> Calls], \A c \in Caller : call'[c] = call[c] \/ CallFine(c)'
  PROVE  Inv'
<1> DEFINE new == [row EXCEPT !.ended = row.ended + 1]
<1>1. Succeeds(new, u) BY DEF Succeeds, UserRow
<1>2. new.ended = row.ended + 1 /\ row.ended \in Nat BY DEF Succeeds, UserRow
<1>3. SetUser(u, new) BY DEF EndSessions
<1> HIDE DEF new
<1>4. /\ user' \in [User -> UserRow]
      /\ UsersGrow
      /\ \A v \in User : UserFine(v)'
      /\ user'[u] = new
      /\ \A v \in User : v # u => user'[v] = user[v]
  BY <1>1, <1>3, RowSucceeds
<1> DEFINE next(s) ==
             IF session[s].user # u THEN session[s]
             ELSE IF s \in kept THEN [session[s] EXCEPT !.opened = row.ended + 1]
                                ELSE [session[s] EXCEPT !.revoked = TRUE]
<1>5. session' = [s \in Session |-> next(s)] BY DEF EndSessions
<1>5a. \A s \in Session : session[s] \in SessionRow BY DEF Inv, TypeInv
<1>6. session' \in [Session -> SessionRow]
  <2>1. ASSUME NEW s \in Session PROVE next(s) \in SessionRow
    <3>1. session[s] \in SessionRow /\ row.ended + 1 \in Nat BY <1>2, <1>5a
    <3>2. [session[s] EXCEPT !.opened = row.ended + 1] \in SessionRow
      BY <3>1 DEF SessionRow
    <3>3. [session[s] EXCEPT !.revoked = TRUE] \in SessionRow BY <3>1 DEF SessionRow
    <3> QED BY <3>1, <3>2, <3>3
  <2> HIDE DEF next
  <2> QED BY <1>5, <2>1
<1>7. TypeInv' BY <1>4, <1>6 DEF Inv, TypeInv
<1>8. OneEach' BY OneEachKept
<1>9. ASSUME NEW s \in Session, session[s].user # u
      PROVE  /\ session'[s] = session[s]
             /\ Exists(s) => user'[session[s].user].ended = user[session[s].user].ended
  <2>1. session'[s] = session[s] BY <1>5, <1>9
  <2>2. Exists(s) => session[s].user \in User BY DEF Inv, TypeInv, SessionRow, Exists
  <2> QED BY <1>4, <1>9, <2>1, <2>2
<1>10. ASSUME NEW s \in Session, session[s].user = u PROVE SessionFine(s)'
  <2>1. /\ session'[s].user = u
        /\ session'[s].current = session[s].current
        /\ s \notin kept => session'[s].revoked
        /\ s \in kept => session'[s].opened = row.ended + 1
    <3>1. session'[s] = next(s) BY <1>5
    <3>2. s \in kept => session'[s] = [session[s] EXCEPT !.opened = row.ended + 1]
      BY <1>10, <3>1
    <3>3. s \notin kept => session'[s] = [session[s] EXCEPT !.revoked = TRUE]
      BY <1>10, <3>1
    <3> HIDE DEF next
    <3> QED BY <1>10, <1>5a, <3>2, <3>3 DEF SessionRow
  <2>2. Exists(s) /\ u # "none" BY <1>10, NoneAssumption DEF Exists
  <2>3. /\ user[u].status # "NONE"
        /\ 0 <= session[s].current /\ session[s].current <= now
    BY <1>10, <2>2 DEF Inv, SessionFine, Registered
  <2>4. user'[u].status # "NONE" BY <2>3, <1>4 DEF UsersGrow, Registered
  <2>5. Fresh(s)' => session'[s].opened = user'[u].ended
    BY <1>2, <1>4, <2>1 DEF Fresh
  <2> QED BY <2>1, <2>2, <2>3, <2>4, <2>5 DEF SessionFine, Exists, Registered
<1>11. now <= now' BY DEF Inv, TypeInv
<1> QED BY <1>4, <1>7, <1>8, <1>9, <1>10, <1>11, Keeps

\* A session that exists is written: it keeps its user, and it is not fresh if it was not.
LEMMA SessionKeeps ==
  ASSUME Inv, UNCHANGED <<user, identity, call, now, facts, vouched, flow>>,
         NEW s \in Session, NEW row \in SessionRow, Exists(s),
         session' = [session EXCEPT ![s] = row],
         row.user = session[s].user, row.opened = session[s].opened,
         0 <= row.current, row.current <= now,
         row.revoked \/ Fresh(s)
  PROVE  Inv'
<1>1. UsersGrow BY DEF UsersGrow, Registered
<1>2. session' \in [Session -> SessionRow] /\ session'[s] = row
  BY DEF Inv, TypeInv
<1>3. TypeInv' BY <1>2 DEF Inv, TypeInv
<1>4. OneEach' BY OneEachKept
<1>5. \A u \in User : UserFine(u)' BY DEF Inv, UserFine, Registered
<1>6. SessionFine(s)'
  <2>1. /\ Registered(session[s].user)
        /\ Fresh(s) => session[s].opened = user[session[s].user].ended
    BY DEF Inv, SessionFine
  <2> QED BY <1>2, <2>1 DEF SessionFine, Registered, Exists, Fresh
<1>7. \A r \in Session : r # s => session'[r] = session[r] BY DEF Inv, TypeInv
<1>8. now <= now' BY DEF Inv, TypeInv
<1> QED BY <1>1, <1>3, <1>4, <1>5, <1>6, <1>7, <1>8, Keeps

\* The row of a session just opened.
LEMMA OpenedIsFine ==
  ASSUME Inv, NEW u \in User, NEW s \in Session, UNCHANGED now,
         session' = [session EXCEPT ![s] = NewSession(u)],
         user'[u].status # "NONE", user'[u].ended = user[u].ended
  PROVE  /\ session' \in [Session -> SessionRow]
         /\ SessionFine(s)'
         /\ \A r \in Session : r # s => session'[r] = session[r]
<1>1. NewSession(u) \in SessionRow
  <2>1. now \in Int /\ now + Ttl \in Int /\ Never \in Int
    BY BoundsAssumption DEF Inv, TypeInv, Never
  <2>2. user[u].ended \in Nat BY DEF Inv, TypeInv, UserRow
  <2> QED BY <2>1, <2>2 DEF NewSession, SessionRow
<1>2. /\ session' \in [Session -> SessionRow]
      /\ session'[s] = NewSession(u)
      /\ \A r \in Session : r # s => session'[r] = session[r]
  BY <1>1 DEF Inv, TypeInv
<1>3. /\ session'[s].user = u
      /\ session'[s].current = now
      /\ session'[s].opened = user[u].ended
  BY <1>2 DEF NewSession
<1>4. now \in Nat /\ u # "none" BY NoneAssumption DEF Inv, TypeInv
<1>5. SessionFine(s)' BY <1>3, <1>4 DEF SessionFine, Registered, Exists
<1> QED BY <1>2, <1>5

\* A step that opens a session and writes no other row.
LEMMA OpenKeeps ==
  ASSUME Inv, NEW u \in User, NEW s \in Session, Registered(u),
         session' = [session EXCEPT ![s] = NewSession(u)],
         UNCHANGED <<user, identity, now, facts, vouched>>,
         call' \in [Caller -> Calls], \A c \in Caller : call'[c] = call[c] \/ CallFine(c)',
         flow' \in [Attempt -> Flows], \A x \in Attempt : flow'[x] = flow[x] \/ FlowFine(x)'
  PROVE  Inv'
<1>1. UsersGrow BY DEF UsersGrow, Registered
<1>2. /\ session' \in [Session -> SessionRow]
      /\ SessionFine(s)'
      /\ \A r \in Session : r # s => session'[r] = session[r]
  BY OpenedIsFine DEF Registered
<1>3. TypeInv' BY <1>2 DEF Inv, TypeInv
<1>4. OneEach' BY OneEachKept
<1>5. \A v \in User : UserFine(v)' BY DEF Inv, UserFine, Registered
<1>6. now <= now' BY DEF Inv, TypeInv
<1> QED BY <1>1, <1>2, <1>3, <1>4, <1>5, <1>6, Keeps
\* A request goes on about a registered user, or ends.
LEMMA GoFine ==
  ASSUME Inv, NEW c \in Caller, NEW to \in Calls, Go(c, to),
         to.pc # "idle" => user'[to.user].status # "NONE"
  PROVE  /\ call' \in [Caller -> Calls]
         /\ \A d \in Caller : call'[d] = call[d] \/ CallFine(d)'
<1>1. call' \in [Caller -> Calls] BY DEF Inv, TypeInv, Go
<1>2. call'[c] = to /\ \A d \in Caller : d # c => call'[d] = call[d] BY DEF Inv, TypeInv, Go
<1>3. CallFine(c)' BY <1>2 DEF CallFine, At, Registered
<1> QED BY <1>1, <1>2, <1>3

-----------------------------------------------------------------------------
(***************************************************************************)
(* The steps of Accounts.                                                  *)
(***************************************************************************)

\* Whoever registers was not there before; the other steps that write a user's row keep what he
\* has proved.
LEMMA UserStepKeeps ==
  ASSUME Inv, NEW u \in User, UserStep(u), UNCHANGED <<flow, facts, vouched>>
  PROVE  Inv'
<1>a. /\ user[u] \in UserRow /\ UserFine(u)
      /\ call \in [Caller -> Calls] /\ flow \in [Attempt -> Flows]
  BY DEF Inv, TypeInv
<1>1. ASSUME NEW row \in UserRow, user[u].status = "NONE", SetUser(u, row),
             row.status # "NONE", row.verified => row.origin = "admin",
             UNCHANGED <<identity, session, call, now>>
      PROVE  Inv'
  <2>1. Succeeds(row, u) BY <1>1 DEF Succeeds, Registered
  <2> QED BY <1>a, <1>1, <2>1, SetUserKeeps DEF Registered
<1>2. CASE Register(u)
  <2>1. /\ NewUser("password", "PENDING_VERIFICATION", FALSE, 1) \in UserRow
        /\ NewUser("password", "ACTIVE", FALSE, 0) \in UserRow
    BY DEF NewUser, UserRow, Status
  <2>2. \A status \in Status, code \in Nat :
          /\ NewUser("password", status, FALSE, code).status = status
          /\ ~NewUser("password", status, FALSE, code).verified
    BY DEF NewUser
  <2>3. CASE Required BY <1>1, <1>2, <2>1, <2>2, <2>3 DEF Register, Status
  <2>4. CASE ~Required BY <1>1, <1>2, <2>1, <2>2, <2>4 DEF Register, Status
  <2> QED BY <2>3, <2>4
<1>3. CASE CreateUser(u)
  <2>1. NewUser("admin", "ACTIVE", TRUE, 0) \in UserRow BY DEF NewUser, UserRow, Status
  <2>2. /\ NewUser("admin", "ACTIVE", TRUE, 0).status = "ACTIVE"
        /\ NewUser("admin", "ACTIVE", TRUE, 0).origin = "admin"
    BY DEF NewUser
  <2> QED BY <1>1, <1>3, <2>1, <2>2 DEF CreateUser
<1>4. CASE ResendVerification(u)
  <2> DEFINE row == [user[u] EXCEPT !.code = user[u].code + 1, !.codeUsed = FALSE]
  <2>1. SetUser(u, row) /\ ~user[u].verified BY <1>4 DEF ResendVerification, SendCode
  <2>2. /\ row \in UserRow /\ row.status = user[u].status /\ row.origin = user[u].origin
        /\ row.verified = user[u].verified /\ row.ended = user[u].ended
    <3>1. user[u].code + 1 \in Nat BY <1>a DEF UserRow
    <3> QED BY <1>a, <3>1 DEF UserRow
  <2> HIDE DEF row
  <2>3. Succeeds(row, u)
    BY <1>4, <2>1, <2>2 DEF Succeeds, Registered, ResendVerification, Verifiable
  <2> QED BY <1>a, <1>4, <2>1, <2>2, <2>3, SetUserKeeps DEF ResendVerification
<1>5. CASE ForgotPassword(u)
  <2> DEFINE row == [user[u] EXCEPT !.reset = TRUE]
  <2>1. SetUser(u, row) BY <1>5 DEF ForgotPassword
  <2>2. /\ row \in UserRow /\ row.status = user[u].status /\ row.origin = user[u].origin
        /\ row.verified = user[u].verified /\ row.ended = user[u].ended
        /\ row.codeUsed = user[u].codeUsed
    BY <1>a DEF UserRow
  <2> HIDE DEF row
  <2>3. Succeeds(row, u)
    BY <1>a, <1>5, <2>2 DEF Succeeds, UserFine, Registered, ForgotPassword
  <2> QED BY <1>a, <1>5, <2>1, <2>2, <2>3, SetUserKeeps DEF ForgotPassword
<1>6. CASE ResetPassword(u)
  <2> DEFINE row == [user[u] EXCEPT !.reset = FALSE]
  <2>1. EndSessions(u, row, {}) /\ user[u].reset BY <1>6 DEF ResetPassword
  <2>2. /\ row \in UserRow /\ row.status = user[u].status /\ row.origin = user[u].origin
        /\ row.verified = user[u].verified /\ row.ended = user[u].ended
        /\ row.codeUsed = user[u].codeUsed
    BY <1>a DEF UserRow
  <2> HIDE DEF row
  <2>3. Registered(u) BY <1>a, <2>1 DEF UserFine, NoUser, NewUser
  <2>4. Succeeds(row, u) BY <1>a, <2>2, <2>3 DEF Succeeds, UserFine, Registered
  <2> QED BY <1>a, <1>6, <2>1, <2>2, <2>4, EndKeeps DEF ResetPassword
<1>7. CASE Block(u)
  <2> DEFINE row == [user[u] EXCEPT !.status = "BLOCKED"]
  <2>1. EndSessions(u, row, {}) BY <1>7 DEF Block
  <2>2. /\ row \in UserRow /\ row.status = "BLOCKED" /\ row.origin = user[u].origin
        /\ row.verified = user[u].verified /\ row.ended = user[u].ended
        /\ row.codeUsed = user[u].codeUsed
    BY <1>a DEF UserRow, Status
  <2> HIDE DEF row
  <2>3. Succeeds(row, u) BY <1>a, <2>2 DEF Succeeds, UserFine, Registered
  <2> QED BY <1>a, <1>7, <2>1, <2>2, <2>3, EndKeeps DEF Block
<1>8. CASE AdminResetPassword(u)
  <2>1. Succeeds(user[u], u)
    BY <1>a, <1>8 DEF Succeeds, UserFine, Registered, AdminResetPassword
  <2>2. EndSessions(u, user[u], {}) BY <1>8 DEF AdminResetPassword
  <2> QED BY <1>a, <1>8, <2>1, <2>2, EndKeeps DEF AdminResetPassword
<1> QED BY <1>2, <1>3, <1>4, <1>5, <1>6, <1>7, <1>8 DEF UserStep, UserStep

\* Refreshing asks for a fresh session and writes a token of now; the other steps end sessions.
LEMMA SessionStepKeeps ==
  ASSUME Inv, NEW s \in Session, SessionStep(s), UNCHANGED <<flow, facts, vouched>>
  PROVE  Inv'
<1>a. /\ session[s] \in SessionRow /\ now \in Nat /\ SessionFine(s)
      /\ call \in [Caller -> Calls] /\ flow \in [Attempt -> Flows]
  BY DEF Inv, TypeInv
<1>b. Usable(s) => /\ Exists(s) /\ Fresh(s)
                   /\ session[s].user \in User /\ Registered(session[s].user)
                   /\ user[session[s].user] \in UserRow
                   /\ UserFine(session[s].user)
                   /\ 0 <= session[s].current /\ session[s].current <= now
  BY <1>a DEF Usable, Fresh, Inv, TypeInv, SessionRow, Exists, SessionFine
<1>1. ASSUME NEW t \in Time, RefreshRotates(s, t) PROVE Inv'
  <2> DEFINE row == Rotated(session[s])
  <2>1. /\ Usable(s)
        /\ session' = [session EXCEPT ![s] = row]
        /\ UNCHANGED <<user, identity, call, now>>
    BY <1>1 DEF RefreshRotates, Presented
  <2>2. /\ row \in SessionRow /\ row.user = session[s].user
        /\ row.opened = session[s].opened /\ row.current = now
    <3>1. now + Ttl \in Int /\ now \in Int BY <1>a, BoundsAssumption
    <3>2. session[s].issued \union {now} \in SUBSET Int BY <1>a, <3>1 DEF SessionRow
    <3>3. session[s].current \in Int BY <1>a DEF SessionRow
    <3>4. row \in SessionRow BY <1>a, <3>1, <3>2, <3>3 DEF Rotated, SessionRow
    <3> QED BY <1>a, <3>4 DEF Rotated, SessionRow
  <2> HIDE DEF row
  <2>3. 0 <= row.current /\ row.current <= now BY <1>a, <2>2
  <2>4. Exists(s) /\ Fresh(s) BY <1>b, <2>1
  <2> QED BY <2>1, <2>2, <2>3, <2>4, SessionKeeps
<1>2. ASSUME NEW t \in Time, RefreshTolerates(s, t) PROVE Inv'
  <2> DEFINE row == [session[s] EXCEPT !.expiresAt = now + Ttl]
  <2>1. Usable(s) /\ session' = [session EXCEPT ![s] = row]
    BY <1>2 DEF RefreshTolerates, Presented
  <2>2. /\ row \in SessionRow /\ row.user = session[s].user
        /\ row.opened = session[s].opened /\ row.current = session[s].current
    <3>1. now + Ttl \in Int BY <1>a, BoundsAssumption
    <3> QED BY <1>a, <3>1 DEF SessionRow
  <2> HIDE DEF row
  <2> QED BY <1>2, <1>a, <1>b, <2>1, <2>2, SessionKeeps DEF RefreshTolerates
<1> DEFINE gone == [session[s] EXCEPT !.revoked = TRUE]
<1>3. /\ gone \in SessionRow /\ gone.user = session[s].user /\ gone.revoked
      /\ gone.opened = session[s].opened /\ gone.current = session[s].current
  BY <1>a DEF SessionRow
<1>4. ASSUME NEW t \in Time, RefreshDetectsReuse(s, t) PROVE Inv'
  <2>1. Usable(s) /\ session' = [session EXCEPT ![s] = gone]
    BY <1>4 DEF RefreshDetectsReuse, Presented
  <2> HIDE DEF gone
  <2> QED BY <1>4, <1>a, <1>b, <1>3, <2>1, SessionKeeps DEF RefreshDetectsReuse
<1>5. ASSUME NEW by \in Session, Logout(s, by) PROVE Inv'
  <2>1. session' = [session EXCEPT ![s] = gone] BY <1>5 DEF Logout
  <2>2. Exists(s) BY <1>5 DEF Logout, Usable, Fresh, Exists
  <2>3. 0 <= session[s].current /\ session[s].current <= now BY <1>a, <2>2 DEF SessionFine
  <2> HIDE DEF gone
  <2> QED BY <1>5, <1>a, <1>3, <2>1, <2>2, <2>3, SessionKeeps DEF Logout
<1>6. CASE LogoutAll(s)
  <2> DEFINE u == session[s].user
  <2>1. Usable(s) /\ EndSessions(u, user[u], {}) BY <1>6 DEF LogoutAll
  <2>2. Succeeds(user[u], u) BY <1>b, <2>1 DEF Succeeds, UserFine, Registered
  <2> QED BY <1>6, <1>a, <1>b, <2>1, <2>2, EndKeeps DEF LogoutAll
<1>7. CASE DeleteMe(s)
  <2> DEFINE u == session[s].user
             row == [user[u] EXCEPT !.status = "DELETED", !.deleted = TRUE]
  <2>1. Usable(s) /\ EndSessions(u, row, {}) BY <1>7 DEF DeleteMe
  <2>2. /\ row \in UserRow /\ row.status = "DELETED" /\ row.origin = user[u].origin
        /\ row.verified = user[u].verified /\ row.ended = user[u].ended
        /\ row.codeUsed = user[u].codeUsed
    BY <1>b, <2>1 DEF UserRow, Status
  <2> HIDE DEF row
  <2>3. Succeeds(row, u) BY <1>b, <2>1, <2>2 DEF Succeeds, UserFine, Registered
  <2> QED BY <1>7, <1>a, <1>b, <2>1, <2>2, <2>3, EndKeeps DEF DeleteMe
<1> QED BY <1>1, <1>2, <1>4, <1>5, <1>6, <1>7 DEF SessionStep
\* Requests that hash a password or send another statement between their reads and their writes.
LEMMA CallerStepKeeps ==
  ASSUME Inv, NEW c \in Caller, CallerStep(c), UNCHANGED <<flow, facts, vouched>>
  PROVE  Inv'
<1>a. /\ call[c] \in Calls /\ CallFine(c) /\ now \in Nat /\ now <= now
      /\ flow \in [Attempt -> Flows]
      /\ \A u \in User : user[u] \in UserRow /\ UserFine(u)
  BY DEF Inv, TypeInv
<1>b. Idle \in Calls /\ Idle.pc = "idle" BY DEF Idle, Calls
<1>1. ASSUME NEW u \in User, VerifyEmailRead(c, u) PROVE Inv'
  <2> DEFINE to == [pc |-> "verifying", user |-> u, code |-> user[u].code]
  <2>1. to \in Calls /\ to.user = u BY <1>a DEF Calls, UserRow
  <2>2. Go(c, to) /\ user'[u].status # "NONE" BY <1>1 DEF VerifyEmailRead, Verifiable
  <2> HIDE DEF to
  <2> QED BY <1>1, <1>a, <2>1, <2>2, GoFine, ReadKeeps DEF VerifyEmailRead
<1>2. ASSUME NEW u \in User, LoginRead(c, u) PROVE Inv'
  <2>1. PICK pc \in {"opening", "activating"} : Go(c, [pc |-> pc, user |-> u])
    BY <1>2 DEF LoginRead
  <2>2. user'[u].status # "NONE" BY <1>2 DEF LoginRead
  <2>3. [pc |-> pc, user |-> u] \in Calls BY DEF Calls
  <2> QED BY <1>2, <1>a, <2>1, <2>2, <2>3, GoFine, ReadKeeps DEF LoginRead
<1>3. ASSUME NEW u \in User, UnblockRead(c, u) PROVE Inv'
  <2>1. PICK status \in {"ACTIVE", "PENDING_VERIFICATION"} :
          Go(c, [pc |-> "unblocking", user |-> u, status |-> status])
    BY <1>3 DEF UnblockRead
  <2>2. user'[u].status # "NONE" BY <1>3 DEF UnblockRead
  <2>3. [pc |-> "unblocking", user |-> u, status |-> status] \in Calls BY DEF Calls
  <2> QED BY <1>3, <1>a, <2>1, <2>2, <2>3, GoFine, ReadKeeps DEF UnblockRead
<1>4. ASSUME NEW s \in Session, LoginOpen(c, s) PROVE Inv'
  <2>1. call[c].user \in User /\ Registered(call[c].user)
    BY <1>4, <1>a DEF LoginOpen, At, Calls, CallFine
  <2>2. /\ call' \in [Caller -> Calls]
        /\ \A d \in Caller : call'[d] = call[d] \/ CallFine(d)'
    BY <1>4, <1>b, GoFine DEF LoginOpen
  <2> QED BY <1>4, <1>a, <2>1, <2>2, OpenKeeps DEF LoginOpen
<1>5. ASSUME NEW s \in Session, ChangePasswordRead(c, s) PROVE Inv'
  <2> DEFINE u == session[s].user
             to == [pc |-> "changing", user |-> u, session |-> s]
  <2>1. u \in User /\ user[u].status = "ACTIVE"
    BY <1>5 DEF ChangePasswordRead, Usable, Fresh, Exists, Inv, TypeInv, SessionRow
  <2>2. to \in Calls /\ to.user = u BY <2>1 DEF Calls
  <2>3. Go(c, to) /\ user' = user BY <1>5 DEF ChangePasswordRead
  <2> HIDE DEF to, u
  <2> QED BY <1>5, <1>a, <2>1, <2>2, <2>3, GoFine, ReadKeeps DEF ChangePasswordRead
<1>6. CASE VerifyEmailWrite(c)
  <2> DEFINE u == call[c].user
             row == [user[u] EXCEPT !.codeUsed = TRUE, !.status = "ACTIVE", !.verified = TRUE]
  <2>1. u \in User /\ Registered(u)
    BY <1>6, <1>a DEF VerifyEmailWrite, At, Calls, CallFine
  <2>2. /\ row \in UserRow /\ row.status = "ACTIVE" /\ row.origin = user[u].origin
        /\ row.verified /\ row.ended = user[u].ended /\ row.codeUsed
    BY ZenonT(90), <1>a, <2>1 DEF UserRow, Status
  <2>3. /\ call' \in [Caller -> Calls]
        /\ \A d \in Caller : call'[d] = call[d] \/ CallFine(d)'
    BY <1>6, <1>b, GoFine DEF VerifyEmailWrite
  <2>4. SetUser(u, row) \/ UNCHANGED user BY <1>6 DEF VerifyEmailWrite
  <2>5. UNCHANGED <<identity, session, now>> BY <1>6 DEF VerifyEmailWrite
  <2> HIDE DEF row, u
  <2>6. Succeeds(row, u) BY <2>2 DEF Succeeds
  <2>7. CASE SetUser(u, row)
    BY <1>a, <2>1, <2>2, <2>3, <2>5, <2>6, <2>7, SetUserKeeps
  <2>8. CASE UNCHANGED user BY <1>a, <2>3, <2>5, <2>8, ReadKeeps
  <2> QED BY <2>4, <2>7, <2>8
<1>7. CASE LoginActivate(c)
  <2> DEFINE u == call[c].user
             row == [user[u] EXCEPT !.status = "ACTIVE"]
             to == [call[c] EXCEPT !.pc = "opening"]
  <2>1. u \in User /\ Registered(u)
    BY <1>7, <1>a DEF LoginActivate, At, Calls, CallFine
  <2>2. /\ row \in UserRow /\ row.status = "ACTIVE" /\ row.origin = user[u].origin
        /\ row.verified = user[u].verified /\ row.ended = user[u].ended
        /\ row.codeUsed = user[u].codeUsed
    BY <1>a, <2>1 DEF UserRow, Status
  <2>3. to \in Calls /\ to.user = u BY <1>7, <1>a DEF LoginActivate, At, Calls
  <2>4. SetUser(u, row) /\ Go(c, to) /\ UNCHANGED <<identity, session, now>>
    BY <1>7 DEF LoginActivate
  <2> HIDE DEF row, u, to
  <2>5. Succeeds(row, u) BY <1>a, <2>1, <2>2 DEF Succeeds, UserFine
  <2>6. user'[u].status # "NONE" BY <2>1, <2>2, <2>4, <2>5, RowSucceeds
  <2>7. /\ call' \in [Caller -> Calls]
        /\ \A d \in Caller : call'[d] = call[d] \/ CallFine(d)'
    BY <2>3, <2>4, <2>6, GoFine
  <2> QED BY <1>a, <2>1, <2>2, <2>4, <2>5, <2>7, SetUserKeeps
<1>8. CASE ChangePasswordWrite(c)
  <2> DEFINE u == call[c].user
  <2>1. u \in User /\ Registered(u)
    BY <1>8, <1>a DEF ChangePasswordWrite, At, Calls, CallFine
  <2>2. Succeeds(user[u], u) BY <1>a, <2>1 DEF Succeeds, UserFine, Registered
  <2>3. /\ call' \in [Caller -> Calls]
        /\ \A d \in Caller : call'[d] = call[d] \/ CallFine(d)'
    BY <1>8, <1>b, GoFine DEF ChangePasswordWrite
  <2>4. EndSessions(u, user[u], {call[c].session}) /\ UNCHANGED <<identity, now>>
    BY <1>8 DEF ChangePasswordWrite
  <2> QED BY <2>1, <2>2, <2>3, <2>4, EndKeeps
<1>9. CASE UnblockWrite(c)
  <2> DEFINE u == call[c].user
             row == [user[u] EXCEPT !.status = call[c].status]
  <2>1. /\ u \in User /\ Registered(u)
        /\ call[c].status \in {"ACTIVE", "PENDING_VERIFICATION"}
    BY <1>9, <1>a DEF UnblockWrite, At, Calls, CallFine
  <2>2. /\ row \in UserRow /\ row.status # "NONE" /\ row.origin = user[u].origin
        /\ row.verified = user[u].verified /\ row.ended = user[u].ended
        /\ row.codeUsed = user[u].codeUsed
    BY <1>a, <2>1 DEF UserRow, Status
  <2>3. SetUser(u, row) /\ UNCHANGED <<identity, session, now>> BY <1>9 DEF UnblockWrite
  <2>4. /\ call' \in [Caller -> Calls]
        /\ \A d \in Caller : call'[d] = call[d] \/ CallFine(d)'
    BY <1>9, <1>b, GoFine DEF UnblockWrite
  <2> HIDE DEF row, u
  <2>5. Succeeds(row, u) BY <1>a, <2>1, <2>2 DEF Succeeds, UserFine
  <2> QED BY <1>a, <2>1, <2>2, <2>3, <2>4, <2>5, SetUserKeeps
<1> QED
  BY <1>1, <1>2, <1>3, <1>4, <1>5, <1>6, <1>7, <1>8, <1>9 DEF CallerStep
-----------------------------------------------------------------------------
(***************************************************************************)
(* The steps of the flows.                                                 *)
(***************************************************************************)

\* A flow goes on with what it has just read, or ends.
LEMMA StepFine ==
  ASSUME Inv, UNCHANGED facts, NEW x \in Attempt, NEW to \in Flows, Step(x, to),
         to.pc \in {"granted", "creating"} => Profile(to.account).ok,
         to.pc = "creating" => Profile(to.account).email # "none",
         to.pc \in {"linking", "signing", "proving"} => user'[to.user].status # "NONE",
         to.pc = "linking" => IF to.verify THEN Proves(to.account, to.user)
                                           ELSE user'[to.user].verified
  PROVE  /\ flow' \in [Attempt -> Flows]
         /\ \A y \in Attempt : flow'[y] = flow[y] \/ FlowFine(y)'
<1>1. flow' \in [Attempt -> Flows] BY DEF Inv, TypeInv, Step
<1>2. flow'[x] = to /\ \A y \in Attempt : y # x => flow'[y] = flow[y]
  BY DEF Inv, TypeInv, Step
<1>3. FlowFine(x)' BY <1>2 DEF FlowFine, In, Proves, Profile, Registered
<1> QED BY <1>1, <1>2, <1>3

\* An attempt that ends leaves nothing to be fine about.
LEMMA DoneFine ==
  ASSUME Inv, UNCHANGED facts, NEW x \in Attempt, Done(x)
  PROVE  /\ flow' \in [Attempt -> Flows]
         /\ \A y \in Attempt : flow'[y] = flow[y] \/ FlowFine(y)'
<1>1. [pc |-> "done"] \in Flows BY DEF Flows
<1> QED BY <1>1, StepFine DEF Done

\* A trusted profile that a provider vouched for is of somebody who reads its mailbox.
LEMMA TrustedOwns ==
  ASSUME Inv, NEW a \in Account, Profile(a).ok, Profile(a).trusted
  PROVE  facts[a].owns /\ facts[a].email = Profile(a).email
<1> DEFINE f == facts[a]
<1>1. f \in P!AccountFacts /\ P!Guaranteed(f) BY ProfileAssumption DEF Inv, TypeInv
<1>2. Profile(a) = P!ProfileForCode(f) BY DEF Profile
<1> HIDE DEF f
<1>3. CASE f.provider = "google"
  <2>1. P!ProfileForCode(f) = P!Google(f) BY <1>3 DEF P!ProfileForCode
  <2> QED BY <1>1, <1>2, <1>3, <2>1 DEF P!Google, P!Guaranteed, P!AccountFacts, f
<1>4. CASE f.provider = "github"
  <2>1. P!ProfileForCode(f) = P!GitHub(f) BY <1>4 DEF P!ProfileForCode
  <2> QED BY <1>1, <1>2, <1>4, <2>1 DEF P!GitHub, P!Guaranteed, P!AccountFacts, f
<1>5. CASE f.provider = "facebook"
  <2>1. P!ProfileForCode(f) = P!Facebook(f) BY <1>5 DEF P!ProfileForCode
  <2> QED BY <1>2, <2>1 DEF P!Facebook
<1> QED BY <1>1, <1>3, <1>4, <1>5 DEF P!AccountFacts, P!SocialProvider

\* The email of a profile is a user's or none.
LEMMA EmailIsUser ==
  ASSUME Inv, NEW a \in Account
  PROVE  Profile(a).email \in User \union {"none"}
<1> DEFINE f == facts[a]
<1>1. f \in P!AccountFacts BY ProfileAssumption DEF Inv, TypeInv
<1>2. Profile(a) = P!ProfileForCode(f) BY DEF Profile
<1> HIDE DEF f
<1>3. f.email \in User \union {"none"} BY <1>1 DEF P!AccountFacts
<1>4. CASE f.provider = "google" BY <1>2, <1>3, <1>4 DEF P!ProfileForCode, P!Google
<1>5. CASE f.provider = "github" BY <1>2, <1>3, <1>5 DEF P!ProfileForCode, P!GitHub
<1>6. CASE f.provider = "facebook" BY <1>2, <1>3, <1>6 DEF P!ProfileForCode, P!Facebook
<1> QED BY <1>1, <1>4, <1>5, <1>6 DEF P!AccountFacts, P!SocialProvider

\* The steps of a flow that write nothing but the flow.
LEMMA FlowReads ==
  ASSUME Inv, NEW x \in Attempt, UNCHANGED facts,
         \/ Start(x) \/ Abandon(x) \/ LinkRead(x) \/ SignInRead(x) \/ SignUpRead(x)
         \/ \E s \in Session : StartLink(x, s)
         \/ \E a \in Account : Callback(x, a)
  PROVE  Inv'
<1>b. UNCHANGED <<user, identity, session, call, now, vouched>>
  BY DEF Start, Abandon, LinkRead, SignInRead, SignUpRead, StartLink, Callback
<1>a. /\ UNCHANGED <<user, identity, session, call, now, vouched>>
      /\ call' \in [Caller -> Calls] /\ now' \in Nat /\ now <= now'
      /\ flow[x] \in Flows /\ FlowFine(x)
      /\ \A a \in Account : identity[a] \in User \union {"none"} /\ IdentityFine(a)
  BY <1>b DEF Inv, TypeInv
<1>1. ASSUME flow' \in [Attempt -> Flows],
             \A y \in Attempt : flow'[y] = flow[y] \/ FlowFine(y)'
      PROVE  Inv'
  BY <1>a, <1>1, ReadKeeps
<1>2. CASE Start(x)
  <2>1. [pc |-> "started", link |-> "none"] \in Flows BY DEF Flows
  <2> QED BY <1>1, <1>2, <2>1, StepFine DEF Start
<1>3. CASE Abandon(x) BY <1>1, <1>3, DoneFine DEF Abandon
<1>4. ASSUME NEW s \in Session, StartLink(x, s) PROVE Inv'
  <2>1. [pc |-> "started", link |-> s] \in Flows BY DEF Flows
  <2> QED BY <1>1, <1>4, <2>1, StepFine DEF StartLink
<1>5. ASSUME NEW a \in Account, Callback(x, a) PROVE Inv'
  <2> DEFINE to == [pc |-> "granted", link |-> flow[x].link, account |-> a]
  <2>1. to \in Flows BY <1>5, <1>a DEF Callback, In, Flows
  <2> QED BY <1>1, <1>5, <2>1, StepFine DEF Callback
<1>6. CASE LinkRead(x)
  <2> DEFINE a == flow[x].account
             s == flow[x].link
             u == session[s].user
             linking == [pc |-> "linking", user |-> u, account |-> a,
                         create |-> identity[a] = "none", verify |-> ~user[u].verified]
             proving == [pc |-> "proving", user |-> u]
  <2>1. In(x, "granted") /\ s # "none" /\ MayLink(s) BY <1>6 DEF LinkRead
  <2>2. a \in Account /\ s \in Session /\ Profile(a).ok
    BY <1>a, <2>1 DEF In, Flows, FlowFine
  <2>3. u \in User /\ user[u].status = "ACTIVE"
    BY <2>1, <2>2 DEF MayLink, Usable, Fresh, Exists, Inv, TypeInv, SessionRow
  <2>4. user[u].verified \in BOOLEAN BY <2>3 DEF Inv, TypeInv, UserRow
  <2>5. linking \in Flows /\ proving \in Flows BY <2>2, <2>3, <2>4 DEF Flows
  <2>6. CASE user[u].verified \/ (Profile(a).trusted /\ Profile(a).email = u)
    <3>1. Step(x, linking) BY <1>6, <2>6 DEF LinkRead
    <3>2. IF linking.verify THEN Proves(linking.account, linking.user)
                            ELSE user'[linking.user].verified
      BY <1>a, <2>2, <2>4, <2>6 DEF Proves
    <3>3. linking.pc = "linking" /\ linking.user = u OBVIOUS
    <3> HIDE DEF linking, u
    <3> QED BY <1>1, <1>a, <2>3, <2>5, <3>1, <3>2, <3>3, StepFine
  <2>7. CASE ~(user[u].verified \/ (Profile(a).trusted /\ Profile(a).email = u))
    <3>1. Step(x, proving) BY <1>6, <2>7 DEF LinkRead
    <3>2. proving.pc = "proving" /\ proving.user = u OBVIOUS
    <3> HIDE DEF proving, u
    <3> QED BY <1>1, <1>a, <2>3, <2>5, <3>1, <3>2, StepFine
  <2> QED BY <2>6, <2>7
<1>7. CASE SignInRead(x)
  <2> DEFINE u == identity[flow[x].account]
  <2>1. u \in User /\ u # "none" BY <1>7, <1>a DEF SignInRead, In, Flows
  <2>2. PICK pc \in {"signing", "proving"} : Step(x, [pc |-> pc, user |-> u])
    BY <1>7 DEF SignInRead
  <2>3. user'[u].status # "NONE" BY <1>7, <1>a DEF SignInRead
  <2>4. [pc |-> pc, user |-> u] \in Flows BY <2>1 DEF Flows
  <2> HIDE DEF u
  <2> QED BY <1>1, <1>a, <2>2, <2>3, <2>4, StepFine
<1>8. CASE SignUpRead(x)
  <2> DEFINE a == flow[x].account
             to == [pc |-> "creating", account |-> a]
  <2>1. a \in Account /\ Profile(a).ok BY <1>8, <1>a DEF SignUpRead, In, Flows, FlowFine
  <2>2. Profile(a).email # "none" /\ Step(x, to) BY <1>8 DEF SignUpRead
  <2>3. to \in Flows BY <2>1 DEF Flows
  <2>4. to.pc = "creating" /\ to.account = a OBVIOUS
  <2> HIDE DEF to, a
  <2> QED BY <1>1, <1>a, <2>1, <2>2, <2>3, <2>4, StepFine
<1> QED BY <1>2, <1>3, <1>4, <1>5, <1>6, <1>7, <1>8
\* A sign-in opens the session of the user that the account had.
LEMMA SignInWriteKeeps ==
  ASSUME Inv, UNCHANGED facts, NEW x \in Attempt, NEW s \in Session, SignInWrite(x, s)
  PROVE  Inv'
<1>1. flow[x].user \in User /\ Registered(flow[x].user)
  BY DEF SignInWrite, In, Inv, TypeInv, Flows, FlowFine
<1>2. /\ flow' \in [Attempt -> Flows]
      /\ \A y \in Attempt : flow'[y] = flow[y] \/ FlowFine(y)'
  BY DoneFine DEF SignInWrite
<1>3. call' \in [Caller -> Calls] BY DEF SignInWrite, Inv, TypeInv
<1> QED BY <1>1, <1>2, <1>3, OpenKeeps DEF SignInWrite

\* A code is mailed to a user who has not proved his mailbox.
LEMMA SendProofKeeps ==
  ASSUME Inv, UNCHANGED facts, NEW x \in Attempt, SendProof(x)
  PROVE  Inv'
<1> DEFINE u == flow[x].user
           row == [user[u] EXCEPT !.code = user[u].code + 1, !.codeUsed = FALSE]
<1>1. u \in User /\ user[u] \in UserRow /\ Registered(u)
  BY DEF SendProof, In, Inv, TypeInv, Flows, FlowFine
<1>2. SetUser(u, row) /\ ~user[u].verified BY DEF SendProof, SendCode
<1>3. /\ row \in UserRow /\ row.status = user[u].status /\ row.origin = user[u].origin
      /\ row.verified = user[u].verified /\ row.ended = user[u].ended
  <2>1. user[u].code + 1 \in Nat BY <1>1 DEF UserRow
  <2> QED BY <1>1, <2>1 DEF UserRow
<1>4. /\ flow' \in [Attempt -> Flows]
      /\ \A y \in Attempt : flow'[y] = flow[y] \/ FlowFine(y)'
  BY DoneFine DEF SendProof
<1>5. call' \in [Caller -> Calls] BY DEF SendProof, Inv, TypeInv
<1>6. UNCHANGED <<identity, session, call, now, vouched>> BY DEF SendProof
<1> HIDE DEF u, row
<1>7. Succeeds(row, u) BY <1>1, <1>2, <1>3 DEF Succeeds, Registered
<1> QED BY <1>1, <1>2, <1>3, <1>4, <1>5, <1>6, <1>7, SetUserKeeps

\* Linking an account that nobody has to a user who has none of that provider, or one that
\* signs up with it.
LEMMA LinkedIsFine ==
  ASSUME Inv, UNCHANGED facts, NEW u \in User, NEW a \in Account,
         identity' = [identity EXCEPT ![a] = u],
         identity[a] = "none", ~LinkedAt(u, a),
         user'[u].status # "NONE", user'[u].verified \/ user'[u].origin = a
  PROVE  /\ identity' \in [Account -> User \union {"none"}]
         /\ OneEach'
         /\ \A b \in Account : identity'[b] = identity[b] \/ IdentityFine(b)'
<1>1. /\ identity' \in [Account -> User \union {"none"}]
      /\ identity'[a] = u
      /\ \A b \in Account : b # a => identity'[b] = identity[b]
  BY DEF Inv, TypeInv
<1>2. IdentityFine(a)' BY <1>1 DEF IdentityFine, Registered
<1>3. \A b \in Account : facts[b].provider = facts[a].provider => identity[b] # u
  BY DEF LinkedAt, SameProvider
<1>4. OneEach'
  <2>1. SUFFICES ASSUME NEW b \in Account, NEW d \in Account,
                        facts[b].provider = facts[d].provider, identity'[b] = identity'[d],
                        identity'[b] # "none"
                 PROVE  b = d
    BY DEF OneEach
  <2>2. CASE b = a \/ d = a BY <1>1, <1>3, <2>1, <2>2
  <2>3. CASE b # a /\ d # a BY <1>1, <2>1, <2>3 DEF Inv, OneEach
  <2> QED BY <2>2, <2>3
<1> QED BY <1>1, <1>2, <1>4

\* What the exchange found when it read still proves the mailbox, and the constraints it meets
\* when it writes keep accounts apart.
LEMMA LinkWriteKeeps ==
  ASSUME Inv, UNCHANGED facts, NEW x \in Attempt, NEW s \in Session, LinkWrite(x, s)
  PROVE  Inv'
<1> DEFINE f == flow[x]
           u == f.user
           a == f.account
           row == [user[u] EXCEPT !.verified = user[u].verified \/ f.verify]
<1>1. /\ In(x, "linking")
      /\ f.create => identity[a] = "none" /\ ~LinkedAt(u, a)
      /\ user[u].status = "ACTIVE"
      /\ SetUser(u, row)
      /\ Vouch(a, f.verify)
      /\ identity' = IF f.create THEN [identity EXCEPT ![a] = u] ELSE identity
      /\ session' = [session EXCEPT ![s] = NewSession(u)]
      /\ Done(x)
      /\ UNCHANGED <<call, now>>
  BY DEF LinkWrite
<1>2. /\ u \in User /\ a \in Account /\ f.verify \in BOOLEAN
      /\ IF f.verify THEN Proves(a, u) ELSE user[u].verified
  BY <1>1 DEF In, Inv, TypeInv, Flows, FlowFine
<1>3. user[u] \in UserRow /\ UserFine(u) BY <1>2 DEF Inv, TypeInv
<1>4. /\ row \in UserRow /\ row.status = "ACTIVE" /\ row.origin = user[u].origin
      /\ row.verified /\ row.ended = user[u].ended /\ row.codeUsed = user[u].codeUsed
  <2>1. user[u].verified \/ f.verify
    BY <1>2, <1>3 DEF UserRow
  <2> QED BY <1>1, <1>3, <2>1 DEF UserRow
<1> HIDE DEF row, a, u, f
<1>5. vouched \subseteq vouched' /\ (f.verify => u \in vouched')
  <2>1. f.verify => facts[a].owns /\ facts[a].email = u
    BY <1>2, TrustedOwns DEF Proves
  <2> QED BY <1>1, <2>1 DEF Vouch
<1>6. Succeeds(row, u) BY <1>2, <1>3, <1>4, <1>5 DEF Succeeds, UserFine, Registered
<1>7. /\ user' \in [User -> UserRow]
      /\ UsersGrow
      /\ \A v \in User : UserFine(v)'
      /\ user'[u] = row
      /\ \A v \in User : v # u => user'[v] = user[v]
  BY <1>1, <1>2, <1>5, <1>6, RowSucceeds
<1>8. /\ identity' \in [Account -> User \union {"none"}]
      /\ OneEach'
      /\ \A b \in Account : identity'[b] = identity[b] \/ IdentityFine(b)'
  <2>1. CASE f.create BY <1>1, <1>2, <1>4, <1>7, <2>1, LinkedIsFine
  <2>2. CASE ~f.create
    <3>1. identity' = identity BY <1>1, <2>2
    <3> QED BY <3>1, OneEachKept DEF Inv, TypeInv
  <2> QED BY <2>1, <2>2
<1>9. /\ session' \in [Session -> SessionRow]
      /\ SessionFine(s)'
      /\ \A r \in Session : r # s => session'[r] = session[r]
  BY <1>1, <1>2, <1>4, <1>7, OpenedIsFine
<1>10. /\ flow' \in [Attempt -> Flows]
       /\ \A y \in Attempt : flow'[y] = flow[y] \/ FlowFine(y)'
  BY <1>1, DoneFine
<1>11. TypeInv' /\ now <= now' BY <1>1, <1>7, <1>8, <1>9, <1>10 DEF Inv, TypeInv
<1>12. ASSUME NEW r \in Session, Exists(r)
       PROVE  user'[session[r].user].ended = user[session[r].user].ended
  BY <1>4, <1>7, <1>12 DEF Inv, TypeInv, SessionRow, Exists
<1> QED BY <1>1, <1>7, <1>8, <1>9, <1>10, <1>11, <1>12, Keeps

\* A new user and the account that created him.
LEMMA SignUpKeeps ==
  ASSUME Inv, UNCHANGED facts, NEW a \in Account, NEW u \in User, NEW row \in UserRow,
         u = Profile(a).email, Vacant(a), SetUser(u, row),
         row.status # "NONE", row.origin = a, row.ended = 0,
         vouched \subseteq vouched', row.verified => u \in vouched',
         identity' = [identity EXCEPT ![a] = u],
         UNCHANGED <<call, now>>, flow' \in [Attempt -> Flows],
         \A y \in Attempt : flow'[y] = flow[y] \/ FlowFine(y)',
         \/ UNCHANGED session
         \/ \E s \in Session : session' = [session EXCEPT ![s] = NewSession(u)]
  PROVE  Inv'
<1>1. identity[a] = "none" /\ user[u].status = "NONE" BY DEF Vacant
<1>2. user[u].ended = 0 BY <1>1 DEF Inv, UserFine, Registered, NoUser, NewUser
<1>3. Succeeds(row, u) BY <1>1 DEF Succeeds, Registered
<1>4. /\ user' \in [User -> UserRow]
      /\ UsersGrow
      /\ \A v \in User : UserFine(v)'
      /\ user'[u] = row
      /\ \A v \in User : v # u => user'[v] = user[v]
  BY <1>3, RowSucceeds
<1>5. ~LinkedAt(u, a)
  <2>1. u # "none" BY NoneAssumption
  <2>2. \A b \in Account : identity[b] # u
    BY <1>1, <2>1 DEF Inv, IdentityFine, Registered
  <2> QED BY <2>2 DEF LinkedAt, SameProvider
<1>6. /\ identity' \in [Account -> User \union {"none"}]
      /\ OneEach'
      /\ \A b \in Account : identity'[b] = identity[b] \/ IdentityFine(b)'
  BY ZenonT(90), <1>1, <1>4, <1>5, LinkedIsFine
<1>7. ASSUME NEW r \in Session, Exists(r)
      PROVE  user'[session[r].user].ended = user[session[r].user].ended
  <2>1. session[r].user \in User BY <1>7 DEF Inv, TypeInv, SessionRow, Exists
  <2>2. user'[u].ended = user[u].ended BY <1>2, <1>4
  <2> QED BY <1>4, <2>1, <2>2
<1>8. call' \in [Caller -> Calls] /\ now' \in Nat /\ now <= now' BY DEF Inv, TypeInv
<1>9. CASE UNCHANGED session
  <2>1. TypeInv' BY <1>4, <1>6, <1>8, <1>9 DEF Inv, TypeInv
  <2> QED BY <1>4, <1>6, <1>7, <1>8, <1>9, <2>1, Keeps
<1>10. ASSUME NEW s \in Session, session' = [session EXCEPT ![s] = NewSession(u)]
       PROVE  Inv'
  <2>1. /\ session' \in [Session -> SessionRow]
        /\ SessionFine(s)'
        /\ \A r \in Session : r # s => session'[r] = session[r]
    BY <1>2, <1>4, <1>10, OpenedIsFine
  <2>2. TypeInv' BY <1>4, <1>6, <1>8, <2>1 DEF Inv, TypeInv
  <2> QED BY <1>4, <1>6, <1>7, <1>8, <2>1, <2>2, Keeps
<1> QED BY <1>9, <1>10

\* Signing up with a mailbox that the provider guarantees.
LEMMA TrustedKeeps ==
  ASSUME Inv, UNCHANGED facts, NEW x \in Attempt, NEW s \in Session, SignUpTrusted(x, s)
  PROVE  Inv'
<1> DEFINE a == flow[x].account
           u == Profile(a).email
           row == NewUser(a, "ACTIVE", TRUE, 0)
<1>1. /\ In(x, "creating") /\ Profile(a).trusted /\ Vacant(a)
      /\ SetUser(u, row) /\ Vouch(a, TRUE)
      /\ identity' = [identity EXCEPT ![a] = u]
      /\ session' = [session EXCEPT ![s] = NewSession(u)]
      /\ Done(x)
      /\ UNCHANGED <<call, now>>
  BY DEF SignUpTrusted
<1>2. a \in Account /\ Profile(a).ok /\ u # "none"
  BY <1>1 DEF In, Inv, TypeInv, Flows, FlowFine
<1>3. u \in User BY <1>2, EmailIsUser
<1>4. /\ row \in UserRow /\ row.status # "NONE" /\ row.origin = a /\ row.ended = 0
  BY <1>2 DEF NewUser, UserRow, Status
<1>5. vouched \subseteq vouched' /\ u \in vouched'
  BY <1>1, <1>2, TrustedOwns DEF Vouch
<1>6. /\ flow' \in [Attempt -> Flows]
      /\ \A y \in Attempt : flow'[y] = flow[y] \/ FlowFine(y)'
  BY <1>1, DoneFine
<1>u. u = Profile(a).email OBVIOUS
<1> HIDE DEF row, u, a
<1> QED BY <1>1, <1>2, <1>3, <1>4, <1>5, <1>6, <1>u, SignUpKeeps

\* Signing up with a mailbox that is to be proved.
LEMMA UntrustedKeeps ==
  ASSUME Inv, UNCHANGED facts, NEW x \in Attempt, SignUpUntrusted(x)
  PROVE  Inv'
<1> DEFINE a == flow[x].account
           u == Profile(a).email
           row == NewUser(a, "PENDING_VERIFICATION", FALSE, 0)
           to == [pc |-> "proving", user |-> u]
<1>1. /\ In(x, "creating") /\ Vacant(a)
      /\ SetUser(u, row)
      /\ identity' = [identity EXCEPT ![a] = u]
      /\ Step(x, to)
      /\ UNCHANGED <<session, call, now, vouched>>
  BY DEF SignUpUntrusted
<1>2. a \in Account /\ u # "none"
  BY <1>1 DEF In, Inv, TypeInv, Flows, FlowFine
<1>3. u \in User BY <1>2, EmailIsUser
<1>4. /\ row \in UserRow /\ row.status # "NONE" /\ row.origin = a /\ row.ended = 0
      /\ ~row.verified
  BY <1>2 DEF NewUser, UserRow, Status
<1>5. to \in Flows /\ to.pc = "proving" /\ to.user = u BY <1>3 DEF Flows
<1>u. u = Profile(a).email OBVIOUS
<1> HIDE DEF row, u, a, to
<1>6. user'[u].status # "NONE" BY <1>1, <1>3, <1>4 DEF SetUser, Inv, TypeInv
<1>7. /\ flow' \in [Attempt -> Flows]
      /\ \A y \in Attempt : flow'[y] = flow[y] \/ FlowFine(y)'
  BY <1>1, <1>5, <1>6, StepFine
<1> QED BY <1>1, <1>2, <1>3, <1>4, <1>7, <1>u, SignUpKeeps
-----------------------------------------------------------------------------
(***************************************************************************)
(* The invariance theorems.                                                *)
(***************************************************************************)

\* Some users wait for verification; there is no session and no request yet.
LEMMA SignInInit == SocialInit => Inv
<1> SUFFICES ASSUME SocialInit PROVE Inv OBVIOUS
<1>1. ASSUME NEW u \in User PROVE user[u] \in UserRow /\ UserFine(u)
  <2>1. user[u] \in {NoUser, NewUser("password", "PENDING_VERIFICATION", FALSE, 1)}
    BY DEF SocialInit, Init
  <2>2. CASE user[u] = NoUser
    BY <2>2 DEF NoUser, NewUser, UserRow, Status, UserFine, Registered
  <2>3. CASE user[u] = NewUser("password", "PENDING_VERIFICATION", FALSE, 1)
    BY <2>3 DEF NewUser, UserRow, Status, UserFine, Registered
  <2> QED BY <2>1, <2>2, <2>3
<1>2. \A s \in Session : session[s] = Unused /\ Unused \in SessionRow /\ ~Exists(s)
  BY DEF SocialInit, Init, Unused, SessionRow, Never, Exists
<1>3. TypeInv
  <2>1. user \in [User -> UserRow]
    <3>1. user = [u \in User |-> user[u]] BY DEF SocialInit, Init
    <3> QED BY <1>1, <3>1
  <2> QED BY <2>1, <1>2 DEF SocialInit, Init, TypeInv, Idle, Calls, NoFlow, Flows
<1>4. /\ \A a \in Account : IdentityFine(a)
      /\ OneEach
      /\ \A c \in Caller : CallFine(c)
      /\ \A x \in Attempt : FlowFine(x)
  BY DEF SocialInit, Init, IdentityFine, OneEach, CallFine, At, Idle, FlowFine, In, NoFlow
<1>5. \A s \in Session : SessionFine(s) BY <1>2 DEF SessionFine
<1> QED BY <1>1, <1>3, <1>4, <1>5 DEF Inv

\* Every step keeps the invariant.
LEMMA SignInStep == ASSUME Inv, [Next]_socialVars PROVE Inv'
<1>1. CASE AccountsNext /\ UNCHANGED <<flow, facts, vouched>>
  <2>1. CASE Tick
    <3>1. now' \in Nat /\ now <= now' BY <2>1 DEF Tick, Inv, TypeInv
    <3>2. call' \in [Caller -> Calls] /\ flow' \in [Attempt -> Flows]
      BY <1>1, <2>1 DEF Tick, Inv, TypeInv
    <3> QED BY <1>1, <2>1, <3>1, <3>2, ReadKeeps DEF Tick
  <2> QED
    BY <1>1, <2>1, UserStepKeeps, SessionStepKeeps, CallerStepKeeps DEF AccountsNext
<1>2. ASSUME NEW x \in Attempt, FlowStep(x), UNCHANGED facts PROVE Inv'
  <2>1. CASE \/ Start(x) \/ Abandon(x) \/ LinkRead(x) \/ SignInRead(x) \/ SignUpRead(x)
             \/ \E s \in Session : StartLink(x, s)
             \/ \E a \in Account : Callback(x, a)
    BY <1>2, <2>1, FlowReads
  <2> QED
    BY <1>2, <2>1, LinkWriteKeeps, SignInWriteKeeps, TrustedKeeps, UntrustedKeeps,
       SendProofKeeps DEF FlowStep
<1>3. CASE UNCHANGED socialVars
  <2>1. /\ UNCHANGED <<user, identity, session, call, now, flow, facts, vouched>>
        /\ call' \in [Caller -> Calls] /\ flow' \in [Attempt -> Flows]
        /\ now' \in Nat /\ now <= now'
    BY <1>3 DEF socialVars, vars, Inv, TypeInv
  <2> QED BY <2>1, ReadKeeps
<1> QED BY <1>1, <1>2, <1>3 DEF Next

\* The inductive invariant holds in every state.
THEOREM SignInInvariance == Spec => []Inv
<1> QED BY SignInInit, SignInStep, PTL DEF Spec

\* Ending the sessions of a user leaves none alive but those opened afterwards and the one the
\* password was changed from.
THEOREM EndedSessionsStayEnded == Spec => []SessionsEnd
<1>1. Inv => SessionsEnd BY DEF Inv, SessionFine, SessionsEnd, Fresh
<1> QED BY <1>1, SignInInvariance, PTL

\* A user signs in through an account that created him or was linked when his mailbox was
\* proved, a proof of a mailbox was earned, and no user has two accounts of one provider.
THEOREM SignInProvesIdentity == Spec => []IdentityProved
<1>1. ASSUME Inv PROVE IdentityProved
  <2>1. \A a \in Account :
          identity[a] # "none" => user[identity[a]].verified \/ user[identity[a]].origin = a
    BY <1>1 DEF Inv, IdentityFine
  <2>2. \A u \in User :
          user[u].verified => user[u].origin = "admin" \/ user[u].codeUsed \/ u \in vouched
    BY <1>1 DEF Inv, UserFine
  <2>3. ASSUME NEW u \in User, NEW a \in Account
        PROVE  Cardinality({b \in SameProvider(a) : identity[b] = u}) <= 1
    <3> DEFINE B == {b \in SameProvider(a) : identity[b] = u}
    <3>1. u # "none" BY NoneAssumption
    <3>2. \A b, d \in B : b = d BY <1>1, <3>1 DEF Inv, OneEach, SameProvider
    <3> HIDE DEF B
    <3>3. CASE B = {} BY <3>3, FS_EmptySet DEF B
    <3>4. CASE B # {}
      <4>1. PICK b \in B : B = {b} BY <3>2, <3>4
      <4>2. Cardinality({b}) = 1 BY FS_Singleton
      <4>3. Cardinality(B) = 1 BY <4>1, <4>2, Zenon
      <4> QED BY <4>3 DEF B
    <3> QED BY <3>3, <3>4
  <2> QED BY <2>1, <2>2, <2>3 DEF IdentityProved
<1> QED BY <1>1, SignInInvariance, PTL
-----------------------------------------------------------------------------
(***************************************************************************)
(* Sessions are families.                                                  *)
(***************************************************************************)
Phase(s) == IF ~Exists(s) THEN "unused" ELSE IF Fresh(s) THEN "live" ELSE "closed"
Stale(s) == {t \in {session[s].prev} : t # Never /\ now <= session[s].prevAt + Grace}

\* A step of the sessions that only ends some of them.
OnlyEnds ==
  \A s \in Session :
    /\ session'[s].user = session[s].user
    /\ session'[s].current = session[s].current
    /\ session'[s].prev = session[s].prev
    /\ session'[s].prevAt = session[s].prevAt
    /\ session'[s].expiresAt = session[s].expiresAt
    /\ session[s].revoked => session'[s].revoked

\* Such a step is a decay of the families.
LEMMA EndsAreDecay ==
  ASSUME Inv, Quiet, OnlyEnds, now' \in Nat, now <= now'
  PROVE  Families!Decay
<1>1. \A s \in Session :
        /\ session[s].expiresAt \in Int /\ session[s].prevAt \in Int
        /\ session[s].revoked \in BOOLEAN
  BY DEF Inv, TypeInv, SessionRow
<1>2. now \in Nat /\ Grace \in Nat BY BoundsAssumption DEF Inv, TypeInv
<1>3. \A s \in Session : Exists(s)' = Exists(s) BY DEF OnlyEnds, Exists
<1>4. \A s \in Session : Fresh(s)' => Fresh(s)
  BY <1>1, <1>2, <1>3 DEF OnlyEnds, Fresh
<1>5. \A s \in Session : Phase(s)' # Phase(s) => Phase(s) = "live" /\ Phase(s)' = "closed"
  BY <1>3, <1>4 DEF Phase
<1>6. \A s \in Session : Stale(s)' \subseteq Stale(s)
  BY <1>1, <1>2 DEF OnlyEnds, Stale
<1>7. [s \in Session |-> session'[s].current] = [s \in Session |-> session[s].current]
  BY DEF OnlyEnds
<1>8. answer' = [result |-> "none"] BY DEF Quiet, NoAnswer
<1> QED BY <1>5, <1>6, <1>7, <1>8 DEF Families!Decay, Families!NoAnswer, Phase, Stale
\* Sessions that a step leaves alone are where they were.
LEMMA SameFamily ==
  ASSUME NEW r \in Session, session'[r] = session[r], UNCHANGED now
  PROVE  Phase(r)' = Phase(r) /\ Stale(r)' = Stale(r) /\ session'[r].current = session[r].current
BY DEF Phase, Stale, Exists, Fresh

\* A login opens a family, with a token of now.
LEMMA OpensFamily ==
  ASSUME Inv, Ttl # 0, NEW s \in Session, NEW u \in User, ~Exists(s), Quiet, UNCHANGED now,
         session' = [session EXCEPT ![s] = NewSession(u)]
  PROVE  Families!Open(s)
<1>1. session'[s] = NewSession(u) /\ \A r \in Session : r # s => session'[r] = session[r]
  BY DEF Inv, TypeInv
<1>2. now \in Nat /\ Ttl \in Nat /\ u # "none" BY BoundsAssumption, NoneAssumption DEF Inv, TypeInv
<1>3. /\ session'[s].user = u /\ ~session'[s].revoked /\ session'[s].current = now
      /\ session'[s].prev = Never /\ session'[s].expiresAt = now + Ttl
  BY <1>1 DEF NewSession
<1>4. session[s] = Unused BY DEF Inv, SessionFine
<1>5. Phase(s) = "unused" /\ Phase(s)' = "live"
  BY <1>2, <1>3 DEF Phase, Exists, Fresh
<1>6. Stale(s) = {} /\ Stale(s)' = {} BY <1>3, <1>4 DEF Stale, Unused
<1>7. \A r \in Session : r # s => /\ Phase(r)' = Phase(r) /\ Stale(r)' = Stale(r)
                                  /\ session'[r].current = session[r].current
  BY <1>1, SameFamily
<1> DEFINE phase == [r \in Session |-> Phase(r)]
           newest == [r \in Session |-> session[r].current]
           stale == [r \in Session |-> Stale(r)]
<1>8. phase[s] = "unused" /\ phase' = [phase EXCEPT ![s] = "live"] BY <1>5, <1>7
<1>9. newest'[s] \in Nat /\ newest' = [newest EXCEPT ![s] = newest'[s]]
  <2>1. \A r \in Session :
          session'[r].current = IF r = s THEN now ELSE session[r].current
    BY <1>3, <1>7
  <2>2. newest' = [r \in Session |-> IF r = s THEN now ELSE session[r].current] BY <2>1
  <2>3. newest' = [newest EXCEPT ![s] = now] BY <2>2
  <2>4. newest'[s] = now BY <2>2
  <2> QED BY <1>2, <2>3, <2>4
<1>10. stale' = stale BY <1>6, <1>7
<1>11. answer' = [result |-> "none"] BY DEF Quiet, NoAnswer
<1> QED
  BY <1>8, <1>9, <1>10, <1>11 DEF Families!Open, Families!NoAnswer, Phase, Stale

\* What a client presents is honoured in the family exactly when the code compares it so.
LEMMA HonouredTokens ==
  ASSUME Inv, NEW s \in Session, NEW t \in Time
  PROVE  t \in Stale(s) <=> InGrace(s, t)
<1>1. now \in Nat /\ Grace \in Nat /\ session[s].prevAt \in Int
  BY BoundsAssumption DEF Inv, TypeInv, SessionRow
<1> QED BY <1>1 DEF Stale, InGrace

\* A refresh is a step of its session's family.
LEMMA RefreshesFamily ==
  ASSUME Inv, Ttl # 0, NEW s \in Session, NEW t \in Time,
         RefreshRotates(s, t) \/ RefreshTolerates(s, t) \/ RefreshDetectsReuse(s, t)
  PROVE  Families!Next
<1>a. /\ session[s] \in SessionRow /\ now \in Nat /\ Ttl \in Nat /\ Grace \in Nat
      /\ Never = -1
  BY BoundsAssumption DEF Inv, TypeInv, Never
<1>b. Usable(s) /\ UNCHANGED now
  BY DEF RefreshRotates, RefreshTolerates, RefreshDetectsReuse, Presented
<1>c. Fresh(s) /\ Exists(s) /\ ~session[s].revoked BY <1>b DEF Usable, Fresh
<1>d. 0 <= session[s].current /\ session[s].current <= now /\ session[s].current \in Int
  BY <1>a, <1>c DEF Inv, SessionFine, SessionRow
<1>e. Phase(s) = "live" BY <1>c DEF Phase
<1> DEFINE phase == [r \in Session |-> Phase(r)]
           newest == [r \in Session |-> session[r].current]
           stale == [r \in Session |-> Stale(r)]
<1>1. CASE RefreshRotates(s, t)
  <2> DEFINE row == Rotated(session[s])
  <2>1. /\ session'[s] = row
        /\ \A r \in Session : r # s => session'[r] = session[r]
    BY <1>1 DEF RefreshRotates, Inv, TypeInv
  <2>2. /\ row.user = session[s].user /\ row.revoked = session[s].revoked
        /\ row.current = now /\ row.prev = session[s].current /\ row.prevAt = now
        /\ row.expiresAt = now + Ttl
    BY <1>a DEF Rotated, SessionRow
  <2> HIDE DEF row
  <2>3. Phase(s)' = "live" BY <1>a, <1>b, <1>c, <2>1, <2>2 DEF Phase, Exists, Fresh
  <2>4. Stale(s)' = {session[s].current}
    BY <1>a, <1>b, <1>d, <2>1, <2>2 DEF Stale
  <2>5. \A r \in Session : r # s => /\ Phase(r)' = Phase(r) /\ Stale(r)' = Stale(r)
                                    /\ session'[r].current = session[r].current
    BY <1>b, <2>1, SameFamily
  <2>6. phase[s] = "live" /\ phase' = phase BY <1>e, <2>3, <2>5
  <2>7. newest'[s] >= newest[s] /\ newest' = [newest EXCEPT ![s] = newest'[s]]
    BY <1>a, <1>d, <2>1, <2>2, <2>5
  <2>8. stale' = [stale EXCEPT ![s] = {newest[s]}] BY <2>4, <2>5
  <2>9. answer' = [result |-> "pair", session |-> s, token |-> t]
    BY <1>1 DEF RefreshRotates, Answer
  <2>10. t \in {newest[s]} \union stale[s]
    BY <1>1, HonouredTokens DEF RefreshRotates
  <2>11. Families!Rotate(s)
    BY <2>6, <2>7, <2>8, <2>9, <2>10
    DEF Families!Rotate, Families!Answer, Families!Honoured, Phase, Stale
  <2> QED BY <2>11 DEF Families!Next
<1>2. CASE RefreshTolerates(s, t)
  <2> DEFINE row == [session[s] EXCEPT !.expiresAt = now + Ttl]
  <2>1. /\ session'[s] = row
        /\ \A r \in Session : r # s => session'[r] = session[r]
    BY <1>2 DEF RefreshTolerates, Inv, TypeInv
  <2>2. /\ row.user = session[s].user /\ row.revoked = session[s].revoked
        /\ row.current = session[s].current /\ row.prev = session[s].prev
        /\ row.prevAt = session[s].prevAt /\ row.expiresAt = now + Ttl
    BY <1>a DEF SessionRow
  <2> HIDE DEF row
  <2>3. Phase(s)' = "live" BY <1>a, <1>b, <1>c, <2>1, <2>2 DEF Phase, Exists, Fresh
  <2>4. Stale(s)' = Stale(s) BY <1>b, <2>1, <2>2 DEF Stale
  <2>5. \A r \in Session : r # s => /\ Phase(r)' = Phase(r) /\ Stale(r)' = Stale(r)
                                    /\ session'[r].current = session[r].current
    BY <1>b, <2>1, SameFamily
  <2>6. phase[s] = "live" /\ phase' = phase BY <1>e, <2>3, <2>5
  <2>7. newest' = newest BY <2>1, <2>2, <2>5
  <2>8. stale' = stale BY <2>4, <2>5
  <2>9. answer' = [result |-> "access", session |-> s, token |-> t]
    BY <1>2 DEF RefreshTolerates, Answer
  <2>10. t \in stale[s] BY <1>2, HonouredTokens DEF RefreshTolerates
  <2>11. Families!Tolerate(s)
    BY <2>6, <2>7, <2>8, <2>9, <2>10 DEF Families!Tolerate, Families!Answer, Phase, Stale
  <2> QED BY <2>11 DEF Families!Next
<1>3. CASE RefreshDetectsReuse(s, t)
  <2> DEFINE row == [session[s] EXCEPT !.revoked = TRUE]
  <2>1. /\ session'[s] = row
        /\ \A r \in Session : r # s => session'[r] = session[r]
    BY <1>3 DEF RefreshDetectsReuse, Inv, TypeInv
  <2>2. /\ row.user = session[s].user /\ row.revoked
        /\ row.current = session[s].current /\ row.prev = session[s].prev
        /\ row.prevAt = session[s].prevAt
    BY <1>a DEF SessionRow
  <2> HIDE DEF row
  <2>3. Phase(s)' = "closed" BY <1>c, <2>1, <2>2 DEF Phase, Exists, Fresh
  <2>4. Stale(s)' = Stale(s) BY <1>b, <2>1, <2>2 DEF Stale
  <2>5. \A r \in Session : r # s => /\ Phase(r)' = Phase(r) /\ Stale(r)' = Stale(r)
                                    /\ session'[r].current = session[r].current
    BY <1>b, <2>1, SameFamily
  <2>6. phase[s] = "live" /\ phase' = [phase EXCEPT ![s] = "closed"] BY <1>e, <2>3, <2>5
  <2>7. newest' = newest BY <2>1, <2>2, <2>5
  <2>8. stale' = stale BY <2>4, <2>5
  <2>9. answer' = [result |-> "reuse", session |-> s, token |-> t]
    BY <1>3 DEF RefreshDetectsReuse, Answer
  <2>10. t \notin {newest[s]} \union stale[s]
    BY <1>3, HonouredTokens DEF RefreshDetectsReuse
  <2>11. Families!Reuse(s)
    BY <2>6, <2>7, <2>8, <2>9, <2>10
    DEF Families!Reuse, Families!Answer, Families!Honoured, Phase, Stale
  <2> QED BY <2>11 DEF Families!Next
<1> QED BY <1>1, <1>2, <1>3

\* Ending the sessions of a user ends families only.
LEMMA EndSessionsOnlyEnds ==
  ASSUME Inv, NEW u, NEW row, NEW kept, EndSessions(u, row, kept)
  PROVE  OnlyEnds
<1> SUFFICES ASSUME NEW s \in Session
             PROVE  /\ session'[s].user = session[s].user
                    /\ session'[s].current = session[s].current
                    /\ session'[s].prev = session[s].prev
                    /\ session'[s].prevAt = session[s].prevAt
                    /\ session'[s].expiresAt = session[s].expiresAt
                    /\ session[s].revoked => session'[s].revoked
  BY DEF OnlyEnds
<1>1. session[s] \in SessionRow BY DEF Inv, TypeInv
<1>2. \/ session'[s] = session[s]
      \/ session'[s] = [session[s] EXCEPT !.opened = row.ended + 1]
      \/ session'[s] = [session[s] EXCEPT !.revoked = TRUE]
  BY DEF EndSessions
<1> QED BY <1>1, <1>2 DEF SessionRow
\* Every step is one of the families'.
LEMMA StepOfFamilies ==
  ASSUME Inv, Ttl # 0, [Next]_socialVars
  PROVE  [Families!Next]_(Families!vars)
<1>a. now \in Nat /\ now <= now /\ \A s \in Session : session[s] \in SessionRow
  BY DEF Inv, TypeInv
<1>b. UNCHANGED session => OnlyEnds BY DEF OnlyEnds
<1>c. ASSUME Quiet, OnlyEnds, UNCHANGED now PROVE Families!Next
  BY <1>a, <1>c, EndsAreDecay DEF Families!Next
<1>1. ASSUME NEW u \in User, UserStep(u) PROVE Families!Next
  <2>1. Quiet /\ UNCHANGED now
    BY <1>1 DEF UserStep, Register, CreateUser, ResendVerification, ForgotPassword,
                ResetPassword, Block, AdminResetPassword
  <2>2. UNCHANGED session \/ \E row : EndSessions(u, row, {})
    BY <1>1 DEF UserStep, Register, CreateUser, ResendVerification, ForgotPassword,
                ResetPassword, Block, AdminResetPassword
  <2> QED BY <1>b, <1>c, <2>1, <2>2, EndSessionsOnlyEnds
<1>2. ASSUME NEW s \in Session, SessionStep(s) PROVE Families!Next
  <2>1. CASE \E t \in Time : RefreshRotates(s, t) \/ RefreshTolerates(s, t)
                               \/ RefreshDetectsReuse(s, t)
    BY <2>1, RefreshesFamily
  <2>2. CASE \E by \in Session : Logout(s, by)
    <3>1. Quiet /\ UNCHANGED now BY <2>2 DEF Logout
    <3>2. OnlyEnds BY <1>a, <2>2 DEF Logout, OnlyEnds, SessionRow, Inv, TypeInv
    <3> QED BY <1>c, <3>1, <3>2
  <2>3. CASE LogoutAll(s) \/ DeleteMe(s)
    <3>1. Quiet /\ UNCHANGED now BY <2>3 DEF LogoutAll, DeleteMe
    <3>2. \E u, row : EndSessions(u, row, {}) BY <2>3 DEF LogoutAll, DeleteMe
    <3> QED BY <1>c, <3>1, <3>2, EndSessionsOnlyEnds
  <2> QED BY <1>2, <2>1, <2>2, <2>3 DEF SessionStep
<1>3. ASSUME NEW c \in Caller, CallerStep(c) PROVE Families!Next
  <2>1. Quiet /\ UNCHANGED now
    BY <1>3 DEF CallerStep, VerifyEmailRead, LoginRead, UnblockRead, LoginOpen,
                ChangePasswordRead, VerifyEmailWrite, LoginActivate, ChangePasswordWrite,
                UnblockWrite
  <2>2. CASE \E s \in Session : LoginOpen(c, s)
    <3>1. PICK s \in Session : LoginOpen(c, s) BY <2>2
    <3>2. call[c].user \in User BY <3>1 DEF LoginOpen, At, Inv, TypeInv, Calls
    <3>3. Families!Open(s) BY <2>1, <3>1, <3>2, OpensFamily DEF LoginOpen
    <3> QED BY <3>3 DEF Families!Next
  <2>3. CASE ChangePasswordWrite(c)
    <3>1. \E u, row, kept : EndSessions(u, row, kept) BY <2>3 DEF ChangePasswordWrite
    <3> QED BY <1>c, <2>1, <3>1, EndSessionsOnlyEnds
  <2>4. CASE ~ChangePasswordWrite(c) /\ ~\E s \in Session : LoginOpen(c, s)
    <3>1. UNCHANGED session
      BY <1>3, <2>4 DEF CallerStep, VerifyEmailRead, LoginRead, UnblockRead,
                        ChangePasswordRead, VerifyEmailWrite, LoginActivate, UnblockWrite
    <3> QED BY <1>b, <1>c, <2>1, <3>1
  <2> QED BY <2>2, <2>3, <2>4
<1>4. CASE Tick
  <2>1. Quiet /\ OnlyEnds /\ now' \in Nat /\ now <= now' BY <1>a, <1>4 DEF Tick, OnlyEnds
  <2> QED BY <2>1, EndsAreDecay DEF Families!Next
<1>5. ASSUME NEW x \in Attempt, FlowStep(x) PROVE Families!Next
  <2>1. Quiet /\ UNCHANGED now
    BY <1>5 DEF FlowStep, Start, Abandon, Callback, LinkRead, SignInRead, SignUpRead,
                SignUpUntrusted, SendProof, StartLink, LinkWrite, SignInWrite, SignUpTrusted
  <2>2. flow[x] \in Flows /\ FlowFine(x) BY DEF Inv, TypeInv
  <2>3. CASE UNCHANGED session BY <1>b, <1>c, <2>1, <2>3
  <2>4. ASSUME NEW s \in Session, NEW u \in User, ~Exists(s),
               session' = [session EXCEPT ![s] = NewSession(u)]
        PROVE  Families!Next
    BY <2>1, <2>4, OpensFamily DEF Families!Next
  <2>5. ASSUME NEW s \in Session, LinkWrite(x, s) \/ SignInWrite(x, s) PROVE Families!Next
    <3>1. /\ flow[x].user \in User /\ ~Exists(s)
          /\ session' = [session EXCEPT ![s] = NewSession(flow[x].user)]
      BY <2>2, <2>5 DEF LinkWrite, SignInWrite, In, Flows
    <3> QED BY <2>4, <3>1
  <2>6. ASSUME NEW s \in Session, SignUpTrusted(x, s) PROVE Families!Next
    <3> DEFINE u == Profile(flow[x].account).email
    <3>1. /\ ~Exists(s)
          /\ session' = [session EXCEPT ![s] = NewSession(u)]
          /\ In(x, "creating")
      BY <2>6 DEF SignUpTrusted
    <3>2. flow[x].account \in Account /\ u # "none"
      BY <2>2, <3>1 DEF In, Flows, FlowFine
    <3>3. u \in User BY <3>2, EmailIsUser
    <3> HIDE DEF u
    <3> QED BY <2>4, <3>1, <3>3
  <2>7. UNCHANGED session \/ \E s \in Session : LinkWrite(x, s) \/ SignInWrite(x, s)
                                                  \/ SignUpTrusted(x, s)
    BY <1>5 DEF FlowStep, Start, Abandon, Callback, LinkRead, SignInRead, SignUpRead,
                SignUpUntrusted, SendProof, StartLink
  <2> QED BY <2>3, <2>5, <2>6, <2>7
<1>6. CASE UNCHANGED socialVars
  <2>1. UNCHANGED <<session, answer, now>> BY <1>6 DEF socialVars, vars
  <2>2. \A s \in Session : Phase(s)' = Phase(s) /\ Stale(s)' = Stale(s)
    BY <2>1 DEF Phase, Stale, Exists, Fresh
  <2> QED BY <2>1, <2>2 DEF Families!vars, Phase, Stale
<1> QED BY <1>1, <1>2, <1>3, <1>4, <1>5, <1>6 DEF Next, AccountsNext

\* Every session is a family of tokens, wherever refresh tokens live for some time.
THEOREM SessionsImplementFamilies == ASSUME Ttl # 0 PROVE Spec => SessionsAreFamilies
<1>1. ASSUME SocialInit PROVE Families!Init
  <2>1. \A s \in Session : /\ session[s].current = -1 /\ Phase(s) = "unused"
                           /\ Stale(s) = {}
    BY <1>1 DEF SocialInit, Init, Unused, Never, Phase, Exists, Stale
  <2>2. answer = [result |-> "none"] BY <1>1 DEF SocialInit, Init, NoAnswer
  <2> QED BY <2>1, <2>2 DEF Families!Init, Families!NoAnswer, Phase, Stale
<1>2. Inv /\ [Next]_socialVars => [Families!Next]_(Families!vars) BY StepOfFamilies
<1> QED
  BY <1>1, <1>2, SignInInvariance, PTL DEF Spec, SessionsAreFamilies, Families!Spec

===============================================================================
