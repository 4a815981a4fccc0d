----------------------------- MODULE ContentProofs -----------------------------
(***************************************************************************)
(* Safety of a template with its shares, and of a WordPress domain, for    *)
(* any number of versions, requests, shares, visits, users, sites, keys,   *)
(* edit sessions and assets, on either storage driver.                     *)
(*                                                                         *)
(* What is public depends on requests that are half done, so the           *)
(* strengthening says what each of them may rely on: a version being       *)
(* created has no row yet and nobody else creates it, and a bundle being   *)
(* published is stored and nobody else publishes it, unless S3 wrote it    *)
(* over another.  Of WordPress it says that whoever is about to decide an   *)
(* approved request overlapped its approval, and what an operation on an   *)
(* edit session read stays past changing.                                  *)
(***************************************************************************)
EXTENDS TemplateShares, WordPress, FiniteSetTheorems, TLAPS

-----------------------------------------------------------------------------
(***************************************************************************)
(* Templates and shares.                                                   *)
(***************************************************************************)
Requests ==
  [pc : {"idle", "item", "created", "reviewing"}]
    \union [pc : {"creating"}, version : Version, bulk : BOOLEAN]
    \union [pc : {"publishing"}, version : Version]

TypeInv ==
  /\ template \in [exists : BOOLEAN, review : {"DRAFT", "PENDING", "APPROVED", "REJECTED"},
                   current : Version \union {"none"}, visibility : Visibility,
                   archived : BOOLEAN, deleted : BOOLEAN]
  /\ version \in [Version -> [number : Nat, immutable : BOOLEAN]]
  /\ call \in [Caller -> Requests]

\* The rows are numbered 1, 2, ... and no number is given twice.
Numbered ==
  /\ IsFiniteSet(Rows)
  /\ {version[v].number : v \in Rows} = 1 .. Cardinality(Rows)
  /\ \A v, w \in Rows : version[v].number = version[w].number => v = w

\* A version that is being created has its manifest, no row, and one creator.
CreatedAlone ==
  \A c \in Caller : At(c, "creating") =>
    /\ version[call[c].version] = NoVersion
    /\ <<"manifest", call[c].version>> \in stored
    /\ \A d \in Caller : At(d, "creating") /\ call[d].version = call[c].version => d = c

\* What a reviewer would approve now has been submitted, or was written behind his back.
Reviewable ==
  /\ template.review = "PENDING" => Rows # {} /\ Latest \in submitted
  /\ \A c \in Caller : At(c, "reviewing") => Rows # {} /\ Latest \in submitted \union late

\* What is being published is such a version; unless its bundle was replaced, the bundle is there,
\* the version is not immutable yet and nobody else is publishing it.
PublishedAlone ==
  \A c \in Caller : At(c, "publishing") =>
    LET v == call[c].version
    IN /\ v \in Rows /\ v \in submitted \union late
       /\ \/ v \in replaced
          \/ /\ <<"bundle", v>> \in stored
             /\ ~version[v].immutable
             /\ \A d \in Caller : At(d, "publishing") /\ call[d].version = v => d = c

ApprovedCurrent ==
  template.review = "APPROVED" => template.current = "none" \/ version[template.current].immutable

Inv ==
  /\ TypeInv
  /\ Numbered
  /\ CreatedAlone
  /\ Reviewable
  /\ PublishedAlone
  /\ ApprovedCurrent
  /\ OnlySubmittedApproved
  /\ RowsAreStored
  /\ \A v \in Version : version[v].immutable => v \in Rows

\* What an open visit has read admits one more use.
VisitsFit ==
  \A x \in View : view[x].pc = "reading" =>
    /\ view[x].share \in Share /\ share[view[x].share].exists
    /\ ~view[x].row.revoked
    /\ \A n \in view[x].row.limit : view[x].row.uses < n

ShareType ==
  /\ share \in [Share -> {NoShare} \union
       [exists : {TRUE}, limit : SUBSET (Nat \ {0}), uses : Nat, revoked : BOOLEAN,
        expired : BOOLEAN, final : Nat]]
  /\ view \in [View -> [pc : {"idle", "shown"}] \union
       [pc : {"reading"}, share : Share,
        row : [exists : {TRUE}, limit : SUBSET (Nat \ {0}), uses : Nat, revoked : BOOLEAN,
               expired : BOOLEAN, final : Nat]]]

ShareInv == ShareType /\ VisitsFit /\ SharesHold

-----------------------------------------------------------------------------
\* With the rows numbered so, the newest is the one numbered Cardinality(Rows), and the next
\* number is that of one row more.
LEMMA LatestIsLast ==
  ASSUME Numbered, Rows # {}
  PROVE  /\ Latest \in Rows
         /\ version[Latest].number = Cardinality(Rows)
<1>1. Cardinality(Rows) \in Nat /\ Cardinality(Rows) # 0
  BY FS_CardinalityType, FS_EmptySet DEF Numbered
<1>2. \A v \in Rows : version[v].number \in 1 .. Cardinality(Rows)
  BY DEF Numbered
<1>3. PICK v \in Rows : version[v].number = Cardinality(Rows)
  <2>1. Cardinality(Rows) \in {version[v].number : v \in Rows} BY <1>1 DEF Numbered
  <2> QED BY <2>1
<1>4. \A w \in Rows : version[w].number <= version[v].number BY <1>1, <1>2, <1>3
<1>5. /\ Latest \in Rows
      /\ \A w \in Rows : version[w].number <= version[Latest].number
  BY <1>3, <1>4 DEF Latest
<1>6. version[v].number <= version[Latest].number BY <1>3, <1>5
<1>7. version[Latest].number \in 1 .. Cardinality(Rows) BY <1>2, <1>5
<1> QED BY <1>1, <1>3, <1>5, <1>6, <1>7

\* A row that no other is newer than is the newest.
\* The number of a new version is one more than the rows.
LEMMA NewNumberIsNext ==
  ASSUME TypeInv, Numbered, Version # {}
  PROVE  NewNumber = Cardinality(Rows) + 1
<1> DEFINE N == {version[v].number : v \in Version}
<1>1. Cardinality(Rows) \in Nat BY FS_CardinalityType DEF Numbered
<1>2. \A n \in N : n \in Nat /\ n <= Cardinality(Rows)
  <2> SUFFICES ASSUME NEW v \in Version
               PROVE  version[v].number \in Nat /\ version[v].number <= Cardinality(Rows)
    OBVIOUS
  <2>1. version[v].number \in Nat BY DEF TypeInv
  <2>2. CASE v \in Rows
    <3>1. version[v].number \in 1 .. Cardinality(Rows) BY <2>2 DEF Numbered
    <3> QED BY <2>1, <3>1, <1>1
  <2>3. CASE v \notin Rows
    <3>1. version[v].number = 0 BY <2>1, <2>3 DEF Rows
    <3> QED BY <3>1, <1>1
  <2> QED BY <2>2, <2>3
<1>3. Cardinality(Rows) \in N
  <2>1. CASE Rows = {}
    <3>1. Cardinality(Rows) = 0 BY <2>1, FS_EmptySet
    <3>2. PICK v \in Version : TRUE OBVIOUS
    <3>3. version[v].number = 0 BY <2>1, <3>2 DEF Rows, TypeInv
    <3> QED BY <3>1, <3>2, <3>3
  <2>2. CASE Rows # {}
    BY <2>2, LatestIsLast DEF Rows
  <2> QED BY <2>1, <2>2
<1>4. \A m \in N : (\A n \in N : m >= n) => m = Cardinality(Rows)
  BY <1>1, <1>2, <1>3
<1>5. \A n \in N : Cardinality(Rows) >= n BY <1>1, <1>2
<1>6. Max(N) = Cardinality(Rows)
  <2>1. Max(N) \in N /\ \A n \in N : Max(N) >= n BY <1>3, <1>5 DEF Max
  <2> QED BY <2>1, <1>4
<1>7. NewNumber = 1 + Max(N) BY DEF NewNumber
<1> QED BY <1>1, <1>6, <1>7

\* What only depends on the rows' numbers.
LEMMA SameNumbers ==
  ASSUME TypeInv, \A v \in Version : version'[v].number = version[v].number
  PROVE  Rows' = Rows /\ (Numbered => Numbered') /\ (Numbered /\ Rows # {} => Latest' = Latest)
<1>1. Rows' = Rows BY DEF Rows
<1>2. \A v \in Rows : version'[v].number = version[v].number BY DEF Rows
<1>3. {version'[v].number : v \in Rows} = {version[v].number : v \in Rows} BY <1>2
<1>4. ASSUME Numbered PROVE Numbered'
  BY <1>1, <1>2, <1>3, <1>4 DEF Numbered
<1>5. ASSUME Numbered, Rows # {} PROVE Latest' = Latest
  <2>1. /\ Latest \in Rows
        /\ \A w \in Rows : version'[w].number <= version'[Latest].number
    <3>1. \A w \in Rows : version[w].number \in 1 .. Cardinality(Rows) BY <1>5 DEF Numbered
    <3> QED BY <1>2, <1>5, <3>1, LatestIsLast
  <2>2. /\ Latest' \in Rows
        /\ \A w \in Rows : version'[w].number <= version'[Latest'].number
    BY <1>1, <2>1 DEF Latest
  <2>3. version[Latest'].number = version[Latest].number
    BY <1>2, <2>1, <2>2 DEF TypeInv, Rows
  <2> QED BY <1>5, <2>1, <2>2, <2>3 DEF Numbered
<1> QED BY <1>1, <1>4, <1>5

-----------------------------------------------------------------------------
\* No rows, no objects and nobody at work is a consistent start.
LEMMA TemplateInit == Init => Inv
<1> SUFFICES ASSUME Init PROVE Inv OBVIOUS
<1>1. TypeInv BY DEF Init, TypeInv, NoTemplate, NoVersion, Idle, Requests, Visibility
<1>2. Rows = {} BY DEF Init, Rows, NoVersion
<1>3. Numbered /\ 1 .. Cardinality(Rows) = {} BY <1>2, FS_EmptySet DEF Numbered
<1>4. OnlySubmittedApproved /\ RowsAreStored
  BY <1>2, <1>3 DEF Init, OnlySubmittedApproved, RowsAreStored, NoTemplate, NoVersion
<1>5. CreatedAlone /\ Reviewable /\ PublishedAlone /\ ApprovedCurrent
  BY DEF Init, CreatedAlone, Reviewable, PublishedAlone, ApprovedCurrent, At, Idle, NoTemplate
<1> QED BY <1>1, <1>3, <1>4, <1>5 DEF Inv, Init, NoVersion


\* No request takes up anything it could rely on; some may end.
Ending ==
  \A d \in Caller : call'[d] = call[d] \/ call'[d].pc \in {"idle", "item", "created"}

\* A caller that goes idle or on with its bulk holds no version any more.
LEMMA GoEnds ==
  ASSUME TypeInv, NEW c \in Caller, NEW r \in [pc : {"idle", "item", "created"}], Go(c, r)
  PROVE  call' \in [Caller -> Requests] /\ Ending
BY DEF TypeInv, Go, Ending, Requests

\* A step that changes the template's row only, and perhaps ends a request, and leaves there
\* neither PENDING nor approved content that was not.
LEMMA StatementKeeps ==
  ASSUME Inv,
         UNCHANGED <<version, stored, submitted, late, replaced>>,
         call' \in [Caller -> Requests], Ending,
         template' \in [exists : BOOLEAN, review : {"DRAFT", "PENDING", "APPROVED", "REJECTED"},
                        current : Version \union {"none"}, visibility : Visibility,
                        archived : BOOLEAN, deleted : BOOLEAN],
         template'.current \in {template.current, "none"},
         template'.review \in {template.review, "DRAFT", "REJECTED"}
  PROVE  Inv'
<1>1. Rows' = Rows BY DEF Rows
<1>2. Latest' = Latest BY <1>1 DEF Latest
<1>3. TypeInv' BY DEF Inv, TypeInv
<1>4. Numbered' BY <1>1 DEF Inv, Numbered
<1>5. \A d \in Caller : At(d, "creating")' \/ At(d, "reviewing")' \/ At(d, "publishing")' =>
                          call'[d] = call[d]
  BY DEF Ending, At
<1>6. CreatedAlone' BY <1>5 DEF Inv, CreatedAlone, At
<1>7. Reviewable' BY <1>1, <1>2, <1>5 DEF Inv, Reviewable, At
<1>8. PublishedAlone' BY SMTT(30), <1>1, <1>5 DEF Inv, PublishedAlone, At
<1>9. ApprovedCurrent' BY DEF Inv, ApprovedCurrent
<1>10. OnlySubmittedApproved' BY DEF Inv, OnlySubmittedApproved
<1>11. RowsAreStored' BY <1>1 DEF Inv, RowsAreStored
<1> QED BY <1>1, <1>3, <1>4, <1>6, <1>7, <1>8, <1>9, <1>10, <1>11 DEF Inv

\* createVersion's check: the version it starts is nobody else's and its manifest new.
LEMMA CheckKeeps ==
  ASSUME Inv, NEW c \in Caller, NEW v \in Version, VersionCheck(c, v)
  PROVE  Inv'
<1> DEFINE r == [pc |-> "creating", version |-> v, bulk |-> At(c, "item")]
<1>1. /\ call' = [call EXCEPT ![c] = r]
      /\ stored' = stored \union {<<"manifest", v>>}
      /\ UNCHANGED <<template, version, submitted, late, replaced>>
      /\ At(c, "idle") \/ At(c, "item")
      /\ version[v] = NoVersion
      /\ \A d \in Caller : At(d, "creating") => call[d].version # v
  BY DEF VersionCheck, Go, Fresh
<1>2. r \in Requests BY DEF Requests, At
<1>3. TypeInv' BY <1>1, <1>2 DEF Inv, TypeInv
<1>4. Rows' = Rows /\ Latest' = Latest BY <1>1 DEF Rows, Latest
<1>5. call'[c] = r /\ \A d \in Caller : d # c => call'[d] = call[d]
  BY <1>1 DEF Inv, TypeInv
<1>6. Numbered' BY <1>1, <1>4 DEF Inv, Numbered
<1>7. CreatedAlone'
  <2> SUFFICES ASSUME NEW d \in Caller, At(d, "creating")'
               PROVE  /\ version[call'[d].version] = NoVersion
                      /\ <<"manifest", call'[d].version>> \in stored'
                      /\ \A e \in Caller : At(e, "creating")' /\ call'[e].version = call'[d].version
                                             => e = d
    BY <1>1 DEF CreatedAlone
  <2> QED BY <1>1, <1>5 DEF Inv, CreatedAlone, At
<1>8. Reviewable' BY <1>1, <1>4, <1>5 DEF Inv, Reviewable, At
<1>9. PublishedAlone' BY <1>1, <1>4, <1>5 DEF Inv, PublishedAlone, At
<1>10. ApprovedCurrent' /\ OnlySubmittedApproved' /\ RowsAreStored'
  BY <1>1, <1>4 DEF Inv, ApprovedCurrent, OnlySubmittedApproved, RowsAreStored
<1> QED BY <1>1, <1>3, <1>4, <1>6, <1>7, <1>8, <1>9, <1>10 DEF Inv

\* createVersion's transaction: the new row is the newest, its number the next, and no request
\* published it.
LEMMA WriteKeeps ==
  ASSUME Inv, NEW c \in Caller, VersionWrite(c)
  PROVE  Inv'
<1> DEFINE v == call[c].version
           r == IF call[c].bulk THEN [pc |-> "created"] ELSE Idle
<1>1. /\ At(c, "creating")
      /\ call' = [call EXCEPT ![c] = r]
      /\ version' = [version EXCEPT ![v].number = NewNumber]
      /\ template' = [template EXCEPT !.review = "DRAFT", !.current = v]
      /\ late' = IF \E d \in Caller : At(d, "reviewing") THEN late \union {v} ELSE late
      /\ UNCHANGED <<stored, submitted, replaced>>
  BY DEF VersionWrite, Go
<1>2. v \in Version /\ r \in [pc : {"idle", "created"}]
  BY <1>1 DEF Inv, TypeInv, Requests, At, Idle
<1>3. /\ version[v] = NoVersion /\ <<"manifest", v>> \in stored
      /\ \A d \in Caller : At(d, "creating") /\ call[d].version = v => d = c
  BY <1>1 DEF Inv, CreatedAlone
<1>4. NewNumber = Cardinality(Rows) + 1 /\ Cardinality(Rows) \in Nat
  BY <1>2, NewNumberIsNext, FS_CardinalityType DEF Inv, Numbered
<1>5. /\ v \notin Rows
      /\ version' \in [Version -> [number : Nat, immutable : BOOLEAN]]
      /\ version'[v].number = Cardinality(Rows) + 1 /\ ~version'[v].immutable
      /\ \A w \in Version : w # v => version'[w] = version[w]
  <2>1. /\ version \in [Version -> [number : Nat, immutable : BOOLEAN]]
        /\ version[v].number = 0 /\ version[v].immutable = FALSE
    BY <1>3 DEF Inv, TypeInv, NoVersion
  <2>2. version'[v] = [version[v] EXCEPT !.number = NewNumber]
    BY <1>1, <1>2, <2>1
  <2>3. version'[v].number = NewNumber /\ version'[v].immutable = FALSE
    BY <1>2, <2>1, <2>2
  <2>4. [version[v] EXCEPT !.number = NewNumber] \in [number : Nat, immutable : BOOLEAN]
    BY <1>2, <1>4, <2>1
  <2> QED BY <1>1, <1>2, <1>4, <2>1, <2>2, <2>3, <2>4 DEF Rows
<1>6. Rows' = Rows \union {v} BY <1>2, <1>4, <1>5 DEF Rows
<1>7. TypeInv'
  <2>1. call' \in [Caller -> Requests] BY <1>1, <1>2 DEF Inv, TypeInv, Requests
  <2>2. template' \in [exists : BOOLEAN, review : {"DRAFT", "PENDING", "APPROVED", "REJECTED"},
                   current : Version \union {"none"}, visibility : Visibility,
                   archived : BOOLEAN, deleted : BOOLEAN]
    BY <1>1, <1>2 DEF Inv, TypeInv
  <2> QED BY <1>5, <2>1, <2>2 DEF TypeInv
<1>8. IsFiniteSet(Rows') /\ Cardinality(Rows') = Cardinality(Rows) + 1
  BY <1>5, <1>6, FS_AddElement DEF Inv, Numbered
<1>9. {version'[w].number : w \in Rows'} = 1 .. Cardinality(Rows')
  <2>1. \A w \in Rows : /\ version'[w].number = version[w].number
                       /\ version[w].number \in 1 .. Cardinality(Rows)
    BY <1>5 DEF Inv, Numbered, Rows
  <2>2. {version'[w].number : w \in Rows'} =
          {version[w].number : w \in Rows} \union {Cardinality(Rows) + 1}
    BY <1>5, <1>6, <2>1
  <2>3. {version[w].number : w \in Rows} = 1 .. Cardinality(Rows) BY DEF Inv, Numbered
  <2> QED BY <1>4, <1>8, <2>2, <2>3
<1>10. Numbered'
  <2>1. \A w \in Rows : /\ version'[w].number = version[w].number
                       /\ version[w].number \in 1 .. Cardinality(Rows)
    BY <1>5 DEF Inv, Numbered, Rows
  <2>2. \A w, x \in Rows' : version'[w].number = version'[x].number => w = x
    BY <1>4, <1>5, <1>6, <2>1 DEF Inv, Numbered
  <2> QED BY <1>8, <1>9, <2>2 DEF Numbered
<1>11. Latest' = v
  <2>1. \A w \in Rows : version'[w].number <= Cardinality(Rows)
    BY <1>4, <1>5 DEF Inv, Numbered, Rows
  <2>2. \A w \in Rows' : version'[w].number <= version'[v].number
    BY <1>4, <1>5, <1>6, <2>1 DEF Rows, Inv, TypeInv
  <2>3. \A w \in Rows : ~(version'[v].number <= version'[w].number)
    BY <1>4, <1>5, <2>1 DEF Rows
  <2> QED BY <1>6, <2>2, <2>3 DEF Latest
<1>12. /\ call'[c].pc \in {"idle", "created"}
       /\ \A d \in Caller : d # c => call'[d] = call[d]
  BY <1>1, <1>2 DEF Inv, TypeInv
<1>13. CreatedAlone' BY <1>1, <1>3, <1>5, <1>12 DEF Inv, CreatedAlone, At, TypeInv, Requests
<1>14. Reviewable'
  <2>1. template'.review = "DRAFT" BY <1>1 DEF Inv, TypeInv
  <2>2. \A d \in Caller : At(d, "reviewing")' => v \in late'
    BY <1>1, <1>12 DEF At
  <2> QED BY <1>1, <1>6, <1>11, <2>1, <2>2 DEF Reviewable
<1>15. PublishedAlone'
  <2>1. \A d \in Caller : At(d, "publishing")' =>
           At(d, "publishing") /\ call'[d] = call[d] /\ call[d].version \in Rows
    BY <1>12 DEF At, Inv, PublishedAlone
  <2>2. \A d \in Caller :
         At(d, "publishing")' => version'[call[d].version] = version[call[d].version]
    BY <1>5, <2>1 DEF Rows
  <2> SUFFICES ASSUME NEW d \in Caller, At(d, "publishing")'
               PROVE  LET w == call'[d].version
                      IN /\ w \in Rows' /\ w \in submitted' \union late'
                         /\ \/ w \in replaced'
                            \/ /\ <<"bundle", w>> \in stored'
                               /\ ~version'[w].immutable
                               /\ \A e \in Caller :
                                    At(e, "publishing")' /\ call'[e].version = w => e = d
    BY DEF PublishedAlone
  <2>3. /\ call[d].version \in submitted \union late
        /\ \/ call[d].version \in replaced
           \/ /\ <<"bundle", call[d].version>> \in stored
              /\ ~version[call[d].version].immutable
              /\ \A e \in Caller :
                   At(e, "publishing") /\ call[e].version = call[d].version => e = d
    BY <2>1 DEF Inv, PublishedAlone
  <2> QED BY <1>1, <1>6, <2>1, <2>2, <2>3
<1>16. ApprovedCurrent' BY <1>1 DEF ApprovedCurrent, Inv, TypeInv
<1>17. OnlySubmittedApproved' BY <1>1, <1>5 DEF Inv, OnlySubmittedApproved
<1>18. RowsAreStored'
  <2>1. template'.current = v BY <1>1 DEF Inv, TypeInv
  <2>2. \A w \in Rows' : <<"manifest", w>> \in stored' BY <1>1, <1>3, <1>6 DEF Inv, RowsAreStored
  <2>3. \A w \in Rows' : version'[w].immutable => <<"bundle", w>> \in stored' \/ w \in replaced'
    BY <1>1, <1>5, <1>6 DEF Inv, RowsAreStored, Rows
  <2> QED BY <1>6, <1>9, <2>1, <2>2, <2>3 DEF RowsAreStored
<1>19. \A w \in Version : version'[w].immutable => w \in Rows'
  BY <1>5, <1>6 DEF Inv
<1> QED BY <1>7, <1>10, <1>13, <1>14, <1>15, <1>16, <1>17, <1>18, <1>19 DEF Inv

\* What is being created has no row.
LEMMA CreatingHasNoRow ==
  ASSUME Inv, NEW c \in Caller, At(c, "creating")
  PROVE  call[c].version \in Version /\ call[c].version \notin Rows
<1>1. call[c].version \in Version BY DEF Inv, TypeInv, Requests, At
<1>2. version[call[c].version].number = 0
  <2>1. version[call[c].version] = NoVersion BY DEF Inv, CreatedAlone
  <2> QED BY <2>1 DEF NoVersion
<1> QED BY <1>1, <1>2 DEF Rows

\* A manifest is deleted only while its version has no row.
LEMMA UndoKeeps ==
  ASSUME Inv, NEW c \in Caller, VersionUndo(c)
  PROVE  Inv'
<1> DEFINE v == call[c].version
           r == IF call[c].bulk THEN [pc |-> "created"] ELSE Idle
<1>1. /\ At(c, "creating")
      /\ Go(c, r)
      /\ stored' = stored \ {<<"manifest", v>>}
      /\ UNCHANGED <<template, version, submitted, late, replaced>>
  BY DEF VersionUndo
<1>2. call' \in [Caller -> Requests] /\ Ending BY <1>1, GoEnds DEF Inv, Idle
<1>3. v \notin Rows /\ \A d \in Caller : At(d, "creating") /\ call[d].version = v => d = c
  BY <1>1, CreatingHasNoRow DEF Inv, CreatedAlone
<1>4. Rows' = Rows /\ Latest' = Latest BY <1>1 DEF Rows, Latest
<1>5. \A d \in Caller : At(d, "creating")' \/ At(d, "reviewing")' \/ At(d, "publishing")' =>
                          d # c /\ call'[d] = call[d]
  BY <1>1, <1>2 DEF Ending, At, Go, Idle, Inv, TypeInv
<1>6. TypeInv' /\ Numbered' BY <1>1, <1>2, <1>4 DEF Inv, TypeInv, Numbered
<1>7. CreatedAlone' BY <1>1, <1>3, <1>5 DEF Inv, CreatedAlone, At
<1>8. Reviewable' BY <1>1, <1>4, <1>5 DEF Inv, Reviewable, At
<1>9. PublishedAlone' BY <1>1, <1>4, <1>5 DEF Inv, PublishedAlone, At
<1>10. ApprovedCurrent' /\ OnlySubmittedApproved' /\ RowsAreStored'
  BY <1>1, <1>3, <1>4 DEF Inv, ApprovedCurrent, OnlySubmittedApproved, RowsAreStored
<1> QED BY <1>1, <1>4, <1>6, <1>7, <1>8, <1>9, <1>10 DEF Inv

\* Submitting writes the latest version as reviewable.
LEMMA SubmitKeeps == ASSUME Inv, Submit PROVE Inv'
<1>1. /\ Rows # {}
      /\ template' = [template EXCEPT !.review = "PENDING"]
      /\ submitted' = submitted \union {Latest}
      /\ UNCHANGED <<version, stored, call, late, replaced>>
  BY DEF Submit
<1>2. Rows' = Rows /\ Latest' = Latest BY <1>1 DEF Rows, Latest
<1>3. TypeInv' /\ Numbered' BY <1>1, <1>2 DEF Inv, TypeInv, Numbered
<1>4. CreatedAlone' BY <1>1 DEF Inv, CreatedAlone, At
<1>5. Reviewable' BY <1>1, <1>2 DEF Inv, Reviewable, At
<1>6. PublishedAlone' BY <1>1, <1>2 DEF Inv, PublishedAlone, At
<1>7. ApprovedCurrent' BY <1>1 DEF ApprovedCurrent, Inv, TypeInv
<1>8. OnlySubmittedApproved' BY <1>1 DEF Inv, OnlySubmittedApproved
<1>9. RowsAreStored' BY <1>1, <1>2 DEF Inv, TypeInv, RowsAreStored
<1> QED BY <1>1, <1>2, <1>3, <1>4, <1>5, <1>6, <1>7, <1>8, <1>9 DEF Inv

\* A reviewer finds the template pending and the latest version submitted.
LEMMA ReviewKeeps == ASSUME Inv, NEW c \in Caller, ReviewCheck(c) PROVE Inv'
<1>1. /\ template.review = "PENDING"
      /\ call' = [call EXCEPT ![c] = [pc |-> "reviewing"]]
      /\ UNCHANGED <<template, version, stored, submitted, late, replaced>>
  BY DEF ReviewCheck, Go
<1>2. Rows' = Rows /\ Latest' = Latest BY <1>1 DEF Rows, Latest
<1>3. call' \in [Caller -> Requests] BY <1>1 DEF Inv, TypeInv, Requests
<1>4. TypeInv' /\ Numbered' BY <1>1, <1>2, <1>3 DEF Inv, TypeInv, Numbered
<1>5. /\ call'[c].pc = "reviewing" /\ \A d \in Caller : d # c => call'[d] = call[d]
  BY <1>1 DEF Inv, TypeInv
<1>6. CreatedAlone' BY <1>1, <1>5 DEF Inv, CreatedAlone, At
<1>7. Reviewable' BY <1>1, <1>2, <1>5 DEF Inv, Reviewable, At
<1>8. PublishedAlone' BY <1>1, <1>2, <1>5 DEF Inv, PublishedAlone, At
<1>9. ApprovedCurrent' /\ OnlySubmittedApproved' /\ RowsAreStored'
  BY <1>1, <1>2 DEF Inv, ApprovedCurrent, OnlySubmittedApproved, RowsAreStored
<1> QED BY <1>1, <1>2, <1>4, <1>6, <1>7, <1>8, <1>9 DEF Inv

\* publish's object: where a bundle was, it is now replaced; where none was, nobody else relies on
\* one.
LEMMA PutKeeps == ASSUME Inv, NEW c \in Caller, PublishPut(c) PROVE Inv'
<1> DEFINE v == Latest
           r == [pc |-> "publishing", version |-> v]
<1>1. /\ At(c, "reviewing")
      /\ stored' = stored \union {<<"bundle", v>>}
      /\ replaced' = IF <<"bundle", v>> \in stored THEN replaced \union {v} ELSE replaced
      /\ call' = [call EXCEPT ![c] = r]
      /\ UNCHANGED <<template, version, submitted, late>>
  BY DEF PublishPut, Go
<1>2. v \in Rows /\ v \in submitted \union late /\ v \in Version
  BY <1>1, LatestIsLast DEF Inv, Reviewable, Rows
<1>3. Rows' = Rows /\ Latest' = Latest BY <1>1 DEF Rows, Latest
<1>4. call' \in [Caller -> Requests] BY <1>1, <1>2 DEF Inv, TypeInv, Requests
<1>5. TypeInv' /\ Numbered' BY <1>1, <1>3, <1>4 DEF Inv, TypeInv, Numbered
<1>6. call'[c] = r /\ \A d \in Caller : d # c => call'[d] = call[d]
  BY <1>1 DEF Inv, TypeInv
<1>7. CreatedAlone' BY <1>1, <1>6 DEF Inv, CreatedAlone, At
<1>8. Reviewable' BY <1>1, <1>3, <1>6 DEF Inv, Reviewable, At
<1>9. PublishedAlone'
  <2> SUFFICES ASSUME NEW d \in Caller, At(d, "publishing")'
               PROVE  LET w == call'[d].version
                      IN /\ w \in Rows' /\ w \in submitted' \union late'
                         /\ \/ w \in replaced'
                            \/ /\ <<"bundle", w>> \in stored'
                               /\ ~version'[w].immutable
                               /\ \A e \in Caller :
                                    At(e, "publishing")' /\ call'[e].version = w => e = d
    BY DEF PublishedAlone
  <2>1. CASE call'[d].version # v
    <3>1. d # c /\ call'[d] = call[d] /\ At(d, "publishing") BY <1>6, <2>1 DEF At
    <3>2. call[d].version \in Rows /\ call[d].version \in submitted \union late
      BY <3>1 DEF Inv, PublishedAlone
    <3>3. CASE call[d].version \in replaced BY <1>1, <1>3, <3>1, <3>2, <3>3
    <3>4. CASE /\ <<"bundle", call[d].version>> \in stored
               /\ ~version[call[d].version].immutable
               /\ \A e \in Caller :
                    At(e, "publishing") /\ call[e].version = call[d].version => e = d
      BY <1>1, <1>3, <1>6, <2>1, <3>1, <3>2, <3>4 DEF At
    <3> QED BY <3>1, <3>3, <3>4 DEF Inv, PublishedAlone
  <2>2. CASE call'[d].version = v /\ <<"bundle", v>> \in stored
    BY <1>1, <1>2, <1>3, <2>2
  <2>3. CASE call'[d].version = v /\ <<"bundle", v>> \notin stored
    <3>1. CASE v \in replaced BY <1>1, <1>2, <1>3, <2>3, <3>1
    <3>2. CASE v \notin replaced
      <4>1. ~version[v].immutable BY <1>2, <2>3, <3>2 DEF Inv, RowsAreStored
      <4>2. \A e \in Caller : At(e, "publishing") => call[e].version # v
        BY <2>3, <3>2 DEF Inv, PublishedAlone
      <4>3. \A e \in Caller : At(e, "publishing")' /\ call'[e].version = v => e = c
        BY <1>6, <4>2 DEF At
      <4> QED BY <1>1, <1>2, <1>3, <2>3, <4>1, <4>3
    <3> QED BY <3>1, <3>2
  <2> QED BY <2>1, <2>2, <2>3
<1>10. ApprovedCurrent' /\ OnlySubmittedApproved'
  BY <1>1 DEF Inv, ApprovedCurrent, OnlySubmittedApproved
<1>11. RowsAreStored' BY <1>1, <1>3 DEF Inv, RowsAreStored
<1> QED BY <1>1, <1>3, <1>5, <1>7, <1>8, <1>9, <1>10, <1>11 DEF Inv

\* publish's transaction: the version becomes immutable and current, its bundle is there or was
\* replaced, and nobody else publishes it unless it was.
LEMMA PublishKeeps == ASSUME Inv, NEW c \in Caller, PublishWrite(c) PROVE Inv'
<1> DEFINE v == call[c].version
<1>1. /\ At(c, "publishing")
      /\ version' = [version EXCEPT ![v].immutable = TRUE]
      /\ template' = [template EXCEPT !.review = "APPROVED", !.current = v]
      /\ Go(c, Idle)
      /\ UNCHANGED <<stored, submitted, late, replaced>>
  BY DEF PublishWrite
<1>2. /\ v \in Rows /\ v \in Version /\ v \in submitted \union late
      /\ v \in replaced \/ <<"bundle", v>> \in stored
  BY <1>1 DEF Inv, PublishedAlone, Rows
<1>3. /\ version' \in [Version -> [number : Nat, immutable : BOOLEAN]]
      /\ version'[v].immutable = TRUE
      /\ \A w \in Version : w # v => version'[w] = version[w]
      /\ \A w \in Version : version'[w].number = version[w].number
  BY <1>1, <1>2 DEF Inv, TypeInv
<1>4. Rows' = Rows /\ Numbered' /\ (Rows # {} => Latest' = Latest)
  BY <1>3, SameNumbers DEF Inv
<1>5. call' \in [Caller -> Requests] /\ Ending BY <1>1, GoEnds DEF Inv, Idle
<1>6. TypeInv' BY <1>1, <1>2, <1>3, <1>5 DEF Inv, TypeInv
<1>7. \A d \in Caller : At(d, "creating")' \/ At(d, "reviewing")' \/ At(d, "publishing")' =>
                          d # c /\ call'[d] = call[d]
  BY <1>1, <1>5 DEF Ending, At, Go, Idle, Inv, TypeInv
<1>8. template'.review = "APPROVED" /\ template'.current = v BY <1>1 DEF Inv, TypeInv
<1>9. CreatedAlone'
  <2>1. \A d \in Caller : At(d, "creating") => /\ call[d].version \in Version
                                               /\ call[d].version # v
    BY <1>2, CreatingHasNoRow
  <2> QED BY <1>1, <1>3, <1>7, <2>1 DEF Inv, CreatedAlone, At
<1>10. Reviewable' BY <1>1, <1>4, <1>7, <1>8 DEF Inv, Reviewable, At
<1>11. PublishedAlone'
  <2> SUFFICES ASSUME NEW d \in Caller, At(d, "publishing")'
               PROVE  LET w == call'[d].version
                      IN /\ w \in Rows' /\ w \in submitted' \union late'
                         /\ \/ w \in replaced'
                            \/ /\ <<"bundle", w>> \in stored'
                               /\ ~version'[w].immutable
                               /\ \A e \in Caller :
                                    At(e, "publishing")' /\ call'[e].version = w => e = d
    BY DEF PublishedAlone
  <2>1. d # c /\ call'[d] = call[d] /\ At(d, "publishing") BY <1>7 DEF At
  <2>2. call[d].version \in Rows /\ call[d].version \in submitted \union late
        /\ call[d].version \in Version
    BY <2>1 DEF Inv, PublishedAlone, Rows
  <2>3. CASE call[d].version \in replaced BY <1>1, <1>4, <2>1, <2>2, <2>3
  <2>4. CASE /\ <<"bundle", call[d].version>> \in stored
             /\ ~version[call[d].version].immutable
             /\ \A e \in Caller :
                  At(e, "publishing") /\ call[e].version = call[d].version => e = d
    <3>1. call[d].version # v BY <1>1, <2>1, <2>4
    <3>2. version'[call[d].version] = version[call[d].version] BY <1>3, <2>2, <3>1
    <3> QED BY <1>1, <1>4, <1>7, <2>1, <2>2, <2>4, <3>2 DEF At
  <2> QED BY <2>1, <2>3, <2>4 DEF Inv, PublishedAlone
<1>12. ApprovedCurrent' BY <1>3, <1>8 DEF ApprovedCurrent
<1>13. OnlySubmittedApproved' BY <1>1, <1>2, <1>3 DEF Inv, OnlySubmittedApproved
<1>14. RowsAreStored'
  <2>1. {version'[w].number : w \in Rows'} = 1 .. Cardinality(Rows') BY <1>4 DEF Numbered
  <2>2. \A w \in Rows : w \in Version BY DEF Rows
  <2>3. \A w \in Rows' : version'[w].immutable => <<"bundle", w>> \in stored' \/ w \in replaced'
    BY <1>1, <1>2, <1>3, <1>4, <2>2 DEF Inv, RowsAreStored
  <2> QED BY <1>1, <1>2, <1>4, <1>8, <2>1, <2>3 DEF Inv, RowsAreStored
<1>15. \A w \in Version : version'[w].immutable => w \in Rows'
  BY <1>2, <1>3, <1>4 DEF Inv
<1> QED BY <1>4, <1>6, <1>9, <1>10, <1>11, <1>12, <1>13, <1>14, <1>15 DEF Inv

\* A bundle is deleted while its version is not immutable, unless it was replaced.
LEMMA PublishUndoKeeps == ASSUME Inv, NEW c \in Caller, PublishUndo(c) PROVE Inv'
<1> DEFINE v == call[c].version
<1>1. /\ At(c, "publishing")
      /\ stored' = stored \ {<<"bundle", v>>}
      /\ Go(c, Idle)
      /\ UNCHANGED <<template, version, submitted, late, replaced>>
  BY DEF PublishUndo
<1>2. call' \in [Caller -> Requests] /\ Ending BY <1>1, GoEnds DEF Inv, Idle
<1>3. \/ v \in replaced
      \/ /\ ~version[v].immutable
         /\ \A d \in Caller : At(d, "publishing") /\ call[d].version = v => d = c
  BY <1>1 DEF Inv, PublishedAlone
<1>4. Rows' = Rows /\ Latest' = Latest BY <1>1 DEF Rows, Latest
<1>5. \A d \in Caller : At(d, "creating")' \/ At(d, "reviewing")' \/ At(d, "publishing")' =>
                          d # c /\ call'[d] = call[d]
  BY <1>1, <1>2 DEF Ending, At, Go, Idle, Inv, TypeInv
<1>6. TypeInv' /\ Numbered' BY <1>1, <1>2, <1>4 DEF Inv, TypeInv, Numbered
<1>7. CreatedAlone' BY <1>1, <1>5 DEF Inv, CreatedAlone, At
<1>8. Reviewable' BY <1>1, <1>4, <1>5 DEF Inv, Reviewable, At
<1>9. PublishedAlone' BY <1>1, <1>3, <1>4, <1>5 DEF Inv, PublishedAlone, At
<1>10. ApprovedCurrent' /\ OnlySubmittedApproved'
  BY <1>1 DEF Inv, ApprovedCurrent, OnlySubmittedApproved
<1>11. RowsAreStored' BY <1>1, <1>3, <1>4 DEF Inv, RowsAreStored
<1> QED BY <1>1, <1>4, <1>6, <1>7, <1>8, <1>9, <1>10, <1>11 DEF Inv

-----------------------------------------------------------------------------
\* Every step of the template keeps the invariant: one case per action.
LEMMA TemplateStep == ASSUME Inv, [Next]_vars PROVE Inv'
<1> DEFINE Template == [exists : BOOLEAN, review : {"DRAFT", "PENDING", "APPROVED", "REJECTED"},
                        current : Version \union {"none"}, visibility : Visibility,
                        archived : BOOLEAN, deleted : BOOLEAN]
<1>a. template \in Template /\ call \in [Caller -> Requests] BY DEF Inv, TypeInv
<1>b. UNCHANGED call => call' \in [Caller -> Requests] /\ Ending BY <1>a DEF Ending
<1>c. Idle \in [pc : {"idle", "item", "created"}] BY DEF Idle
<1>d. ASSUME NEW c \in Caller, Go(c, Idle) PROVE call' \in [Caller -> Requests] /\ Ending
  BY <1>c, <1>d, GoEnds DEF Inv
<1>1. ASSUME NEW x \in Visibility, Create(x) PROVE Inv'
  <2>1. /\ template'.current = "none" /\ template'.review = "DRAFT" /\ template' \in Template
    BY <1>1 DEF Create, NoTemplate, Visibility
  <2> QED BY <1>1, <1>b, <2>1, StatementKeeps DEF Create
<1>2. ASSUME NEW x \in Visibility, Update(x) PROVE Inv'
  <2>1. /\ template'.current = template.current /\ template'.review = template.review
        /\ template' \in Template
    BY <1>2, <1>a DEF Update
  <2> QED BY <1>2, <1>b, <2>1, StatementKeeps DEF Update
<1>3. CASE Remove
  <2>1. /\ template'.current = template.current /\ template'.review = template.review
        /\ template' \in Template
    BY <1>3, <1>a DEF Remove
  <2> QED BY <1>3, <1>b, <2>1, StatementKeeps DEF Remove
<1>4. CASE AdminRemove
  <2>1. /\ template'.current = template.current /\ template'.review = template.review
        /\ template' \in Template
    BY <1>4, <1>a DEF AdminRemove, Visibility
  <2> QED BY <1>4, <1>b, <2>1, StatementKeeps DEF AdminRemove
<1>5. CASE Unpublish
  <2>1. /\ template'.current = "none" /\ template'.review = template.review
        /\ template' \in Template
    BY <1>5, <1>a DEF Unpublish, Visibility
  <2> QED BY <1>5, <1>b, <2>1, StatementKeeps DEF Unpublish
<1>6. CASE Submit BY <1>6, SubmitKeeps
<1>7. ASSUME NEW b \in BOOLEAN, Lifecycle(b) PROVE Inv'
  <2>1. /\ template'.current = template.current /\ template'.review = template.review
        /\ template' \in Template
    BY <1>7, <1>a DEF Lifecycle
  <2> QED BY <1>7, <1>b, <2>1, StatementKeeps DEF Lifecycle
<1>8. ASSUME NEW c \in Caller, NEW x \in Visibility, CreateItem(c, x) PROVE Inv'
  <2>1. /\ template'.current = "none" /\ template'.review = "DRAFT" /\ template' \in Template
    BY <1>8 DEF CreateItem, NoTemplate, Visibility
  <2>2. call' \in [Caller -> Requests] /\ Ending BY <1>8, GoEnds DEF CreateItem, Inv
  <2> QED BY <1>8, <2>1, <2>2, StatementKeeps DEF CreateItem
<1>9. ASSUME NEW c \in Caller, NEW v \in Version, VersionCheck(c, v) PROVE Inv'
  BY <1>9, CheckKeeps
<1>10. ASSUME NEW c \in Caller, VersionWrite(c) PROVE Inv' BY <1>10, WriteKeeps
<1>11. ASSUME NEW c \in Caller, VersionUndo(c) PROVE Inv' BY <1>11, UndoKeeps
<1>12. ASSUME NEW c \in Caller, BulkEnd(c) PROVE Inv'
  BY <1>12, <1>a, <1>d, StatementKeeps DEF BulkEnd
<1>13. ASSUME NEW c \in Caller, BulkUndo(c) PROVE Inv'
  <2>1. /\ template'.current = template.current /\ template'.review = template.review
        /\ template' \in Template
    BY <1>13, <1>a DEF BulkUndo
  <2> QED BY <1>13, <1>d, <2>1, StatementKeeps DEF BulkUndo
<1>14. ASSUME NEW c \in Caller, ReviewCheck(c) PROVE Inv' BY <1>14, ReviewKeeps
<1>15. ASSUME NEW c \in Caller, NEW status \in {"REJECTED", "DRAFT"}, Refuse(c, status) PROVE Inv'
  <2>1. /\ template'.current = template.current /\ template'.review = status
        /\ template' \in Template
    BY <1>15, <1>a DEF Refuse
  <2> QED BY <1>15, <1>d, <2>1, StatementKeeps DEF Refuse
<1>16. ASSUME NEW c \in Caller, PublishPut(c) PROVE Inv' BY <1>16, PutKeeps
<1>17. ASSUME NEW c \in Caller, PublishRefused(c) PROVE Inv'
  BY <1>17, <1>a, <1>d, StatementKeeps DEF PublishRefused
<1>18. ASSUME NEW c \in Caller, PublishWrite(c) PROVE Inv' BY <1>18, PublishKeeps
<1>19. ASSUME NEW c \in Caller, PublishUndo(c) PROVE Inv' BY <1>19, PublishUndoKeeps
<1>20. ASSUME NEW c \in Caller, Crash(c) PROVE Inv'
  BY <1>20, <1>a, <1>d, StatementKeeps DEF Crash
<1>21. CASE UNCHANGED vars BY <1>21, <1>a, <1>b, StatementKeeps DEF vars
<1> QED
  BY <1>1, <1>2, <1>3, <1>4, <1>5, <1>6, <1>7, <1>8, <1>9, <1>10, <1>11, <1>12, <1>13, <1>14,
     <1>15, <1>16, <1>17, <1>18, <1>19, <1>20, <1>21
     DEF Next

-----------------------------------------------------------------------------
\* No share was made yet.
LEMMA SharesStart == SharesInit => ShareInv
BY DEF SharesInit, ShareInv, ShareType, VisitsFit, SharesHold, NoShare, Idle

\* A share keeps its limit and, once revoked, its count: a use is counted only on the row that
\* the visit has read and nobody has updated since.
LEMMA SharesStep ==
  ASSUME ShareInv, [SharesNext]_<<vars, shareVars>>
  PROVE  ShareInv'
<1> DEFINE Row == [exists : {TRUE}, limit : SUBSET (Nat \ {0}), uses : Nat, revoked : BOOLEAN,
                   expired : BOOLEAN, final : Nat]
<1>a. /\ share \in [Share -> {NoShare} \union Row]
      /\ view \in [View -> [pc : {"idle", "shown"}] \union
                             [pc : {"reading"}, share : Share, row : Row]]
      /\ \A s \in Share : share[s].exists => share[s] \in Row
  <2>1. ~NoShare.exists BY DEF NoShare
  <2>2. \A s \in Share : share[s] \in Row \/ share[s] = NoShare BY DEF ShareInv, ShareType
  <2> QED BY <2>1, <2>2 DEF ShareInv, ShareType
<1>1. ASSUME NEW s \in Share, NEW limit \in Limits, CreateShare(s, limit) PROVE ShareInv'
  <2> DEFINE r == [exists |-> TRUE, limit |-> limit, uses |-> 0, revoked |-> FALSE,
                   expired |-> FALSE, final |-> 0]
  <2>1. /\ share' = [share EXCEPT ![s] = r] /\ view' = view /\ ~share[s].exists
    BY <1>1 DEF CreateShare
  <2>2. r \in Row BY LimitsAssumption
  <2>3. ShareType' BY <1>a, <2>1, <2>2 DEF ShareType
  <2>4. \A t \in Share : share'[t] = IF t = s THEN r ELSE share[t] BY <1>a, <2>1
  <2>5. VisitsFit' BY <2>1, <2>2, <2>4 DEF ShareInv, VisitsFit
  <2>6. \A n \in limit : 0 <= n BY LimitsAssumption
  <2>7. SharesHold' BY <2>4, <2>6 DEF ShareInv, SharesHold
  <2> QED BY <2>3, <2>5, <2>7 DEF ShareInv
<1>2. ASSUME NEW s \in Share, RevokeShare(s) PROVE ShareInv'
  <2> DEFINE final == IF share[s].revoked THEN share[s].final ELSE share[s].uses
  <2>1. /\ share' = [share EXCEPT ![s].revoked = TRUE, ![s].final = final]
        /\ view' = view /\ share[s].exists
    BY <1>2 DEF RevokeShare
  <2>2. /\ share'[s] \in Row /\ share'[s].revoked /\ share'[s].final = final
        /\ share'[s].limit = share[s].limit /\ share'[s].uses = share[s].uses
    BY <1>a, <2>1
  <2>3. /\ share' \in [Share -> {NoShare} \union Row]
        /\ \A t \in Share : t # s => share'[t] = share[t]
    BY <1>a, <2>1, <2>2
  <2>4. ShareType' BY <1>a, <2>1, <2>3 DEF ShareType
  <2>5. VisitsFit' BY <2>1, <2>2, <2>3 DEF ShareInv, VisitsFit
  <2>6. SharesHold' BY <2>1, <2>2, <2>3 DEF ShareInv, SharesHold
  <2> QED BY <2>4, <2>5, <2>6 DEF ShareInv
<1>3. ASSUME NEW s \in Share, ShareExpires(s) PROVE ShareInv'
  <2>1. /\ share' = [share EXCEPT ![s].expired = TRUE] /\ view' = view /\ share[s].exists
    BY <1>3 DEF ShareExpires
  <2>2. /\ share'[s] \in Row /\ share'[s].revoked = share[s].revoked
        /\ share'[s].final = share[s].final
        /\ share'[s].limit = share[s].limit /\ share'[s].uses = share[s].uses
    BY <1>a, <2>1
  <2>3. /\ share' \in [Share -> {NoShare} \union Row]
        /\ \A t \in Share : t # s => share'[t] = share[t]
    BY <1>a, <2>1, <2>2
  <2>4. ShareType' BY <1>a, <2>1, <2>3 DEF ShareType
  <2>5. VisitsFit' BY <2>1, <2>2, <2>3 DEF ShareInv, VisitsFit
  <2>6. SharesHold' BY <2>1, <2>2, <2>3 DEF ShareInv, SharesHold
  <2> QED BY <2>4, <2>5, <2>6 DEF ShareInv
<1>4. ASSUME NEW s \in Share, NEW x \in View, SharedRead(x, s) PROVE ShareInv'
  <2> DEFINE r == [pc |-> "reading", share |-> s, row |-> share[s]]
  <2>1. /\ share[s].exists /\ ~share[s].revoked /\ ~Spent(share[s])
        /\ view' = [view EXCEPT ![x] = r] /\ share' = share
    BY <1>4 DEF SharedRead
  <2>2. share[s] \in Row BY <1>a, <2>1
  <2>3. \A n \in share[s].limit : share[s].uses < n
    <3>1. share[s].limit \subseteq Nat /\ share[s].uses \in Nat BY <2>2
    <3>2. \A n \in share[s].limit : ~(share[s].uses >= n) BY <2>1 DEF Spent
    <3> QED BY <3>1, <3>2
  <2>4. \A y \in View : view'[y] = IF y = x THEN r ELSE view[y] BY <1>a, <2>1
  <2>5. ShareType' BY <1>a, <2>1, <2>2 DEF ShareType
  <2>6. VisitsFit' BY <2>1, <2>3, <2>4 DEF ShareInv, VisitsFit
  <2>7. SharesHold' BY <2>1 DEF ShareInv, SharesHold
  <2> QED BY <2>5, <2>6, <2>7 DEF ShareInv
<1>5. ASSUME NEW x \in View, SharedCommit(x) PROVE ShareInv'
  <2> DEFINE s == view[x].share
  <2>1. /\ view[x].pc = "reading" /\ [share[s] EXCEPT !.expired = FALSE] = view[x].row
        /\ share' = [share EXCEPT ![s].uses = share[s].uses + 1]
        /\ view' = [view EXCEPT ![x] = [pc |-> "shown"]]
    BY <1>5 DEF SharedCommit
  <2>2. s \in Share /\ share[s] \in Row BY <1>a, <2>1 DEF ShareInv, VisitsFit
  <2>3. /\ share[s].revoked = view[x].row.revoked /\ share[s].uses = view[x].row.uses
        /\ share[s].limit = view[x].row.limit
    BY <2>1, <2>2
  <2>4. ~share[s].revoked /\ \A n \in share[s].limit : share[s].uses < n
    BY <2>1, <2>3 DEF ShareInv, VisitsFit
  <2>5. /\ share'[s] \in Row /\ share'[s].uses = share[s].uses + 1
        /\ share'[s].revoked = share[s].revoked /\ share'[s].limit = share[s].limit
        /\ share'[s].exists
    <3>1. share'[s] = [share[s] EXCEPT !.uses = share[s].uses + 1] BY <1>a, <2>1, <2>2
    <3>2. share[s].uses + 1 \in Nat
      <4>1. share[s].uses \in Nat BY <2>2
      <4> QED BY <4>1
    <3> QED BY <2>2, <3>1, <3>2
  <2>6. /\ share' \in [Share -> {NoShare} \union Row]
        /\ \A t \in Share : t # s => share'[t] = share[t]
    BY <1>a, <2>1, <2>5
  <2>7. \A y \in View : y # x => view'[y] = view[y] BY <1>a, <2>1
  <2>8. ShareType' BY <1>a, <2>1, <2>6 DEF ShareType
  <2>9. view'[x].pc = "shown" BY <1>a, <2>1
  <2>10. VisitsFit' BY <2>5, <2>6, <2>7, <2>9 DEF ShareInv, VisitsFit
  <2>11. \A n \in share'[s].limit : share'[s].uses <= n
    <3>1. share[s].limit \subseteq Nat /\ share[s].uses \in Nat BY <2>2
    <3> QED BY <2>4, <2>5, <3>1
  <2>12. SharesHold' BY <2>4, <2>5, <2>6, <2>11 DEF ShareInv, SharesHold
  <2> QED BY <2>8, <2>10, <2>12 DEF ShareInv
<1>6. ASSUME NEW x \in View, SharedFails(x) PROVE ShareInv'
  <2>1. share' = share /\ view' = [view EXCEPT ![x] = Idle] BY <1>6 DEF SharedFails
  <2>2. \A y \in View : view'[y] = IF y = x THEN Idle ELSE view[y] BY <1>a, <2>1
  <2>3. ShareType' BY <1>a, <2>1 DEF ShareType, Idle
  <2>4. VisitsFit' BY <2>1, <2>2 DEF ShareInv, VisitsFit, Idle
  <2>5. SharesHold' BY <2>1 DEF ShareInv, SharesHold
  <2> QED BY <2>3, <2>4, <2>5 DEF ShareInv
<1>7. CASE UNCHANGED shareVars
  BY <1>7 DEF shareVars, ShareInv, ShareType, VisitsFit, SharesHold
<1> QED BY <1>1, <1>2, <1>3, <1>4, <1>5, <1>6, <1>7 DEF SharesNext

-----------------------------------------------------------------------------
\* The invariants of the template and of its shares hold together in every state.
THEOREM TemplatesInvariance == SharesSpec => [](Inv /\ ShareInv)
<1>1. SharesInit => Inv /\ ShareInv BY TemplateInit, SharesStart DEF SharesInit
<1>2. Inv /\ ShareInv /\ [SharesNext]_<<vars, shareVars>> => (Inv /\ ShareInv)'
  <2> SUFFICES ASSUME Inv, ShareInv, [SharesNext]_<<vars, shareVars>> PROVE Inv' /\ ShareInv'
    OBVIOUS
  <2>1. [Next]_vars
    BY DEF SharesNext, CreateShare, RevokeShare, ShareExpires, SharedRead, SharedCommit, SharedFails
  <2> QED BY <2>1, TemplateStep, SharesStep
<1> QED BY <1>1, <1>2, PTL DEF SharesSpec

\* Public pages show what a reviewer approved, and what is listed can be downloaded, whatever
\* owners, reviewers, failures and crashes do meanwhile.
THEOREM PublicPagesAreApproved == SharesSpec => []PublicIsApproved
<1>1. Inv => PublicIsApproved
  BY DEF Inv, ApprovedCurrent, RowsAreStored, PublicIsApproved, Shown, Listed, Downloadable
<1> QED BY <1>1, TemplatesInvariance, PTL

\* Only what was submitted, or written between a reviewer's check and his decision, is approved.
THEOREM ApprovedWasSubmitted == SharesSpec => []OnlySubmittedApproved
<1>1. Inv => OnlySubmittedApproved BY DEF Inv
<1> QED BY <1>1, TemplatesInvariance, PTL

\* Rows have their objects, are numbered without a gap, and the current version is one of them.
THEOREM RowsKeepTheirObjects == SharesSpec => []RowsAreStored
<1>1. Inv => RowsAreStored BY DEF Inv
<1> QED BY <1>1, TemplatesInvariance, PTL

\* A share is opened at most as often as it allows, and not once after its revocation.
THEOREM SharesAreLimited == SharesSpec => []SharesHold
<1>1. ShareInv => SharesHold BY DEF ShareInv
<1> QED BY <1>1, TemplatesInvariance, PTL

-----------------------------------------------------------------------------
(***************************************************************************)
(* WordPress: the inductive invariant.                                     *)
(***************************************************************************)
EditRow ==
  [status : {"none", "gone"}, lapsed : BOOLEAN]
    \union [status : {"OPEN", "EXPIRED", "COMPLETED"}, lapsed : BOOLEAN, owner : User]
InFlight ==
  [pc : {"idle", "connecting"}]
    \union [pc : {"expiring"}, request : Request]
    \union [pc : {"approving", "denying"}, request : Request, user : User]
    \union [pc : {"expiringEdit", "completing"}, edit : Edit]
    \union [pc : {"adding"}, edit : Edit, object : Object]
RequestStatus == {"none", "PENDING", "APPROVED", "DENIED", "EXPIRED"}
RequestRow ==
  [status : RequestStatus, lapsed : BOOLEAN, key : Key \union {"none"}, user : User \union {"none"}]

WordPressTypes ==
  /\ request \in [Request -> RequestRow]
  /\ site \in [User -> [key : Key \union {"none"}, enabled : BOOLEAN]]
  /\ edit \in [Edit -> EditRow]
  /\ asset \subseteq [edit : Edit, object : Object]
  /\ operation \in [Operation -> InFlight]
  /\ drawnFor \in [Key -> User \union {"none"}]
  /\ overlapped \subseteq [request : Request, user : User]

\* Only a request that was made has decisions.
OverlappedExist == \A o \in overlapped : request[o.request].status # "none"

\* The operation found its request undecided and has yet to write it.
Decides(c) == operation[c].pc \in {"expiring", "denying", "approving"}

\* Who is about to decide a request that is approved already overlapped its approval, and two
\* decisions in flight overlap each approval among them.
Deciding(c) ==
  LET r == operation[c].request
  IN Decides(c) =>
       /\ request[r].status = "APPROVED" =>
            [request |-> r, user |-> request[r].user] \in overlapped
       /\ Doing(c, "approving") =>
            \A d \in Operation : d # c /\ Decides(d) /\ operation[d].request = r =>
              [request |-> r, user |-> operation[c].user] \in overlapped

\* What an operation on an edit session read of it is past changing: it exists, an upload is
\* stored, and a session about to expire had not been completed in time.
Editing(c) ==
  /\ operation[c].pc \in {"expiringEdit", "completing", "adding"} =>
       edit[operation[c].edit].status # "none"
  /\ Doing(c, "adding") => operation[c].object \in uploaded
  /\ Doing(c, "expiringEdit") =>
       edit[operation[c].edit].lapsed /\ operation[c].edit \notin inTime

GoneLapsed == \A e \in Edit : edit[e].status = "gone" => edit[e].lapsed

WordPressInv ==
  /\ WordPressTypes
  /\ OverlappedExist
  /\ SitesWereApproved
  /\ \A c \in Operation : Deciding(c) /\ Editing(c)
  /\ GoneLapsed
  /\ inTime \subseteq Edit /\ InTimeIsKept
  /\ AssetsAreStored

\* Rows stay rows when a column is written.
LEMMA RowsWritten ==
  /\ \A row \in RequestRow, st \in RequestStatus :
       /\ [row EXCEPT !.status = st] \in RequestRow /\ [row EXCEPT !.lapsed = TRUE] \in RequestRow
       /\ \A u \in User : [row EXCEPT !.status = st, !.user = u] \in RequestRow
  /\ \A row \in EditRow :
       /\ [row EXCEPT !.lapsed = TRUE] \in EditRow
       /\ row.status \notin {"none", "gone"} => \A st \in {"EXPIRED", "COMPLETED"} :
            [row EXCEPT !.status = st] \in EditRow
<1>1. \A row \in RequestRow, st \in RequestStatus :
       /\ [row EXCEPT !.status = st] \in RequestRow /\ [row EXCEPT !.lapsed = TRUE] \in RequestRow
       /\ \A u \in User : [row EXCEPT !.status = st, !.user = u] \in RequestRow
  BY DEF RequestRow
<1>2. \A row \in EditRow : [row EXCEPT !.lapsed = TRUE] \in EditRow
  BY DEF EditRow
<1>3. ASSUME NEW row \in EditRow, row.status \notin {"none", "gone"},
             NEW st \in {"EXPIRED", "COMPLETED"}
      PROVE  [row EXCEPT !.status = st] \in EditRow
  BY <1>3 DEF EditRow
<1> QED BY <1>1, <1>2, <1>3

\* What an operation in flight is about.
LEMMA FlightFields ==
  ASSUME WordPressTypes, NEW c \in Operation
  PROVE  /\ operation[c].pc \in {"expiring", "denying", "approving"} =>
              operation[c].request \in Request
         /\ operation[c].pc \in {"denying", "approving"} => operation[c].user \in User
         /\ operation[c].pc \in {"expiringEdit", "completing", "adding"} =>
              operation[c].edit \in Edit
         /\ Doing(c, "adding") => operation[c].object \in Object
  BY DEF WordPressTypes, InFlight, Doing

\* What a decision overtakes are approvals.
LEMMA OvertakenTyped ==
  ASSUME WordPressTypes, NEW r \in Request
  PROVE  Overtaken(r) \subseteq [request : Request, user : User]
  BY FlightFields DEF Overtaken, Deciders

\* Every step keeps the types.
LEMMA WordPressTypesStep ==
  ASSUME WordPressInv, [WordPressNext]_wordpressVars
  PROVE  WordPressTypes'
<1>0. WordPressTypes BY DEF WordPressInv
<1>1. ASSUME NEW c \in Operation, CreateExpire(c) PROVE WordPressTypes'
  <2>1. \A r \in Request : request'[r] \in RequestRow
    BY <1>1, <1>0, RowsWritten DEF CreateExpire, WordPressTypes, RequestStatus
  <2>2. request' \in [Request -> RequestRow] BY <1>1, <2>1 DEF CreateExpire
  <2>3. operation' \in [Operation -> InFlight]
    BY <1>1, <1>0, FlightFields
       DEF CreateExpire, WordPressTypes, Proceed, NoOperation, InFlight, Doing
  <2> QED BY <1>1, <1>0, <2>2, <2>3 DEF CreateExpire, WordPressTypes
<1>2. ASSUME NEW c \in Operation, Expire(c) PROVE WordPressTypes'
  <2>1. request' \in [Request -> RequestRow]
    BY <1>2, <1>0, FlightFields, RowsWritten DEF Expire, WordPressTypes, RequestStatus, Doing
  <2>2. operation' \in [Operation -> InFlight]
    BY <1>2, <1>0, FlightFields DEF Expire, WordPressTypes, Proceed, NoOperation, InFlight, Doing
  <2> QED BY <1>2, <1>0, <2>1, <2>2 DEF Expire, WordPressTypes
<1>3. ASSUME NEW c \in Operation, Deny(c) PROVE WordPressTypes'
  <2>1. request' \in [Request -> RequestRow]
    BY <1>3, <1>0, FlightFields, RowsWritten DEF Deny, WordPressTypes, RequestStatus, Doing
  <2>2. operation' \in [Operation -> InFlight]
    BY <1>3, <1>0, FlightFields DEF Deny, WordPressTypes, Proceed, NoOperation, InFlight, Doing
  <2> QED BY <1>3, <1>0, <2>1, <2>2 DEF Deny, WordPressTypes
<1>4. ASSUME NEW c \in Operation, Approve(c) PROVE WordPressTypes'
  <2>1. request' \in [Request -> RequestRow]
    BY <1>4, <1>0, FlightFields, RowsWritten DEF Approve, WordPressTypes, RequestStatus, Doing
  <2>2. operation' \in [Operation -> InFlight]
    BY <1>4, <1>0, FlightFields DEF Approve, WordPressTypes, Proceed, NoOperation, InFlight, Doing
  <2>3. site' \in [User -> [key : Key \union {"none"}, enabled : BOOLEAN]]
    <3>1. operation[c].request \in Request /\ operation[c].user \in User
      BY <1>4, <1>0, FlightFields DEF Approve, Doing
    <3>2. [key |-> request[operation[c].request].key, enabled |-> TRUE]
            \in [key : Key \union {"none"}, enabled : BOOLEAN]
      BY <1>0, <3>1 DEF WordPressTypes, RequestRow
    <3> QED BY <1>4, <1>0, <3>1, <3>2 DEF Approve, WordPressTypes
  <2> QED BY <1>4, <1>0, <2>1, <2>2, <2>3 DEF Approve, WordPressTypes
<1>5. ASSUME NEW c \in Operation, ExpireEdit(c) PROVE WordPressTypes'
  <2> DEFINE e == operation[c].edit
  <2>1. e \in Edit /\ edit[e].status # "none"
    BY <1>5, <1>0, FlightFields DEF ExpireEdit, Doing, WordPressInv, Editing
  <2>2. edit' \in [Edit -> EditRow]
    BY <1>5, <1>0, <2>1, RowsWritten DEF ExpireEdit, WordPressTypes
  <2>3. operation' \in [Operation -> InFlight]
    BY <1>5, <1>0, FlightFields
       DEF ExpireEdit, WordPressTypes, Proceed, NoOperation, InFlight, Doing
  <2> QED BY <1>5, <1>0, <2>2, <2>3 DEF ExpireEdit, WordPressTypes
<1>6. ASSUME NEW c \in Operation, Complete(c) PROVE WordPressTypes'
  <2> DEFINE e == operation[c].edit
  <2>1. e \in Edit /\ edit[e].status # "none"
    BY <1>6, <1>0, FlightFields DEF Complete, Doing, WordPressInv, Editing
  <2>2. edit' \in [Edit -> EditRow] BY <1>6, <1>0, <2>1, RowsWritten DEF Complete, WordPressTypes
  <2>3. operation' \in [Operation -> InFlight]
    BY <1>6, <1>0, FlightFields
       DEF Complete, WordPressTypes, Proceed, NoOperation, InFlight, Doing
  <2> QED BY <1>6, <1>0, <2>2, <2>3 DEF Complete, WordPressTypes
<1>7. ASSUME NEW c \in Operation, AssetWrite(c) PROVE WordPressTypes'
  <2>1. asset' \subseteq [edit : Edit, object : Object]
    BY <1>7, <1>0, FlightFields DEF AssetWrite, WordPressTypes, Doing
  <2>2. operation' \in [Operation -> InFlight]
    BY <1>7, <1>0, FlightFields
       DEF AssetWrite, WordPressTypes, Proceed, NoOperation, InFlight, Doing
  <2> QED BY <1>7, <1>0, <2>1, <2>2 DEF AssetWrite, WordPressTypes
<1>8. ASSUME NEW c \in Operation, OperationDies(c) PROVE WordPressTypes'
  <2>1. operation' \in [Operation -> InFlight]
    BY <1>8, <1>0, FlightFields
       DEF OperationDies, WordPressTypes, Proceed, NoOperation, InFlight, Doing
  <2> QED BY <1>8, <1>0, <2>1 DEF OperationDies, WordPressTypes
<1>9. ASSUME NEW c \in Operation, NEW r \in Request, NEW k \in Key, CreateRequest(c, r, k)
      PROVE  WordPressTypes'
  <2>1. [NoRequest EXCEPT !.status = "PENDING", !.key = k] \in RequestRow
    BY DEF NoRequest, RequestRow, RequestStatus
  <2>3. request' \in [Request -> RequestRow]
    BY <1>9, <1>0, <2>1 DEF CreateRequest, WordPressTypes
  <2>2. operation' \in [Operation -> InFlight]
    BY <1>9, <1>0, FlightFields
       DEF CreateRequest, WordPressTypes, Proceed, NoOperation, InFlight, Doing
  <2> QED BY <1>9, <1>0, <2>2, <2>3 DEF CreateRequest, WordPressTypes
<1>10. ASSUME NEW c \in Operation, NEW r \in Request, FindLapsed(c, r) PROVE WordPressTypes'
  <2>1. operation' \in [Operation -> InFlight]
    BY <1>10, <1>0, FlightFields
       DEF FindLapsed, WordPressTypes, Proceed, NoOperation, InFlight, Doing
  <2>2. overlapped' \subseteq [request : Request, user : User]
    BY <1>10, <1>0, OvertakenTyped DEF FindLapsed, WordPressTypes
  <2> QED BY <1>10, <1>0, <2>1, <2>2 DEF FindLapsed, WordPressTypes
<1>11. ASSUME NEW c \in Operation, NEW r \in Request, NEW u \in User, DenyCheck(c, r, u)
       PROVE  WordPressTypes'
  <2>1. operation' \in [Operation -> InFlight]
    BY <1>11, <1>0, FlightFields
       DEF DenyCheck, WordPressTypes, Proceed, NoOperation, InFlight, Doing
  <2>2. overlapped' \subseteq [request : Request, user : User]
    BY <1>11, <1>0, OvertakenTyped DEF DenyCheck, WordPressTypes
  <2> QED BY <1>11, <1>0, <2>1, <2>2 DEF DenyCheck, WordPressTypes
<1>12. ASSUME NEW c \in Operation, NEW r \in Request, NEW u \in User, ApproveCheck(c, r, u)
       PROVE  WordPressTypes'
  <2>1. operation' \in [Operation -> InFlight]
    BY <1>12, <1>0, FlightFields
       DEF ApproveCheck, WordPressTypes, Proceed, NoOperation, InFlight, Doing
  <2>2. overlapped' \subseteq [request : Request, user : User]
    BY <1>12, <1>0, OvertakenTyped DEF ApproveCheck, WordPressTypes
  <2> QED BY <1>12, <1>0, <2>1, <2>2 DEF ApproveCheck, WordPressTypes
<1>13. ASSUME NEW c \in Operation, NEW e \in Edit, FindLapsedEdit(c, e) PROVE WordPressTypes'
  <2>1. operation' \in [Operation -> InFlight]
    BY <1>13, <1>0, FlightFields
       DEF FindLapsedEdit, WordPressTypes, Proceed, NoOperation, InFlight, Doing
  <2> QED BY <1>13, <1>0, <2>1 DEF FindLapsedEdit, WordPressTypes
<1>14. ASSUME NEW c \in Operation, NEW e \in Edit, CompleteCheck(c, e) PROVE WordPressTypes'
  <2>1. operation' \in [Operation -> InFlight]
    BY <1>14, <1>0, FlightFields
       DEF CompleteCheck, WordPressTypes, Proceed, NoOperation, InFlight, Doing
  <2> QED BY <1>14, <1>0, <2>1 DEF CompleteCheck, WordPressTypes
<1>15. ASSUME NEW c \in Operation, NEW e \in Edit, NEW o \in Object, AssetCheck(c, e, o)
       PROVE  WordPressTypes'
  <2>1. operation' \in [Operation -> InFlight]
    BY <1>15, <1>0, FlightFields
       DEF AssetCheck, WordPressTypes, Proceed, NoOperation, InFlight, Doing
  <2> QED BY <1>15, <1>0, <2>1 DEF AssetCheck, WordPressTypes
<1>16. ASSUME NEW r \in Request, RequestLapses(r) PROVE WordPressTypes'
  <2>1. request' \in [Request -> RequestRow]
    BY <1>16, <1>0, FlightFields, RowsWritten
       DEF RequestLapses, WordPressTypes, RequestStatus, Doing
  <2> QED BY <1>16, <1>0, <2>1 DEF RequestLapses, WordPressTypes
<1>17. ASSUME NEW u \in User, NEW b \in BOOLEAN, SetEnabled(u, b) PROVE WordPressTypes'
  BY <1>17, <1>0 DEF SetEnabled, WordPressTypes
<1>18. ASSUME NEW u \in User, NEW k \in Key, RotateKey(u, k) PROVE WordPressTypes'
  BY <1>18, <1>0 DEF RotateKey, WordPressTypes
<1>19. ASSUME NEW u \in User, Disconnect(u) PROVE WordPressTypes'
  BY <1>19, <1>0 DEF Disconnect, WordPressTypes, NoSite, EditRow
<1>20. ASSUME NEW e \in Edit, EditLapses(e) PROVE WordPressTypes'
  <2>1. edit' \in [Edit -> EditRow] BY <1>20, <1>0, RowsWritten DEF EditLapses, WordPressTypes
  <2> QED BY <1>20, <1>0, <2>1 DEF EditLapses, WordPressTypes
<1>21. ASSUME NEW e \in Edit, NEW k \in Key, OpenEdit(e, k)
       PROVE  WordPressTypes'
  <2>1. PICK u \in User :
          edit' = [edit EXCEPT ![e] = [status |-> "OPEN", lapsed |-> FALSE, owner |-> u]]
    BY <1>21 DEF OpenEdit, Answering
  <2>2. [status |-> "OPEN", lapsed |-> FALSE, owner |-> u] \in EditRow BY DEF EditRow
  <2>3. edit' \in [Edit -> EditRow] BY <1>0, <2>1, <2>2 DEF WordPressTypes
  <2> QED BY <1>21, <1>0, <2>3 DEF OpenEdit, WordPressTypes
<1>22. CASE UNCHANGED wordpressVars BY <1>22, <1>0 DEF wordpressVars, WordPressTypes
<1> QED
  BY <1>1, <1>2, <1>3, <1>4, <1>5, <1>6, <1>7, <1>8, <1>9, <1>10, <1>11, <1>12, <1>13, <1>14,
     <1>15, <1>16, <1>17, <1>18, <1>19, <1>20, <1>21, <1>22
     DEF WordPressNext

-----------------------------------------------------------------------------
(***************************************************************************)
(* Requests, sites and their keys.                                         *)
(***************************************************************************)
KeysInv == OverlappedExist /\ SitesWereApproved /\ \A c \in Operation : Deciding(c)

\* Steps that neither write a request's decision nor begin one, and change no key, keep what is
\* said of keys.
LEMMA QuietForKeys ==
  ASSUME KeysInv, WordPressTypes, UNCHANGED <<drawnFor, overlapped>>,
         \A u \in User : site'[u].key = site[u].key \/ site'[u].key = "none",
         \A r \in Request :
           /\ request'[r].status = request[r].status
           /\ request'[r].key = request[r].key
           /\ request'[r].user = request[r].user,
         \A c \in Operation :
           \/ operation'[c] = operation[c]
           \/ operation'[c].pc \notin {"expiring", "denying", "approving"}
  PROVE  KeysInv'
<1>1. OverlappedExist' BY DEF KeysInv, OverlappedExist, WordPressTypes
<1>2. SitesWereApproved' BY DEF KeysInv, SitesWereApproved, Connected
<1>3. \A c \in Operation : Deciding(c)'
  BY FlightFields DEF KeysInv, Deciding, Decides, Doing
<1> QED BY <1>1, <1>2, <1>3 DEF KeysInv

\* Steps that approve nothing and begin no decision leave those in flight what they are.
LEMMA DecidersKept ==
  ASSUME KeysInv, WordPressTypes, UNCHANGED overlapped,
         \A r \in Request : request'[r].status = "APPROVED" =>
           request[r].status = "APPROVED" /\ request'[r].user = request[r].user,
         \A c \in Operation : Decides(c)' => operation'[c] = operation[c]
  PROVE  \A c \in Operation : Deciding(c)'
<1> SUFFICES ASSUME NEW c \in Operation, Decides(c)' PROVE Deciding(c)'
  BY DEF Deciding
<1>1. operation'[c] = operation[c] /\ Decides(c) /\ Deciding(c) BY DEF KeysInv, Decides
<1>2. operation[c].request \in Request BY <1>1, FlightFields DEF Decides
<1>3. \A d \in Operation : Decides(d)' => Decides(d) /\ operation'[d] = operation[d]
  BY DEF Decides
<1> QED BY <1>1, <1>2, <1>3 DEF Deciding, Doing

\* Sites keep an approved request when requests keep their keys, and an approval is overwritten
\* only if it was overlapped.
LEMMA ApprovalsKept ==
  ASSUME KeysInv, WordPressTypes, UNCHANGED <<site, drawnFor>>, overlapped \subseteq overlapped',
         \A r \in Request :
           request[r].status # "none" =>
             /\ request'[r].key = request[r].key
             /\ \/ request[r].status # "APPROVED"
                \/ request'[r].status = "APPROVED" /\ request'[r].user = request[r].user
                \/ [request |-> r, user |-> request[r].user] \in overlapped'
  PROVE  SitesWereApproved'
<1> SUFFICES ASSUME NEW u \in User, Connected(u), drawnFor[site[u].key] # u
             PROVE  \E r \in Request :
                      /\ request'[r].key = site[u].key
                      /\ \/ request'[r].status = "APPROVED" /\ request'[r].user = u
                         \/ [request |-> r, user |-> u] \in overlapped'
  BY DEF SitesWereApproved, Connected
<1>1. PICK r \in Request :
        /\ request[r].key = site[u].key
        /\ \/ request[r].status = "APPROVED" /\ request[r].user = u
           \/ [request |-> r, user |-> u] \in overlapped
  BY DEF KeysInv, SitesWereApproved
<1>2. request[r].status # "none" BY <1>1 DEF KeysInv, OverlappedExist
<1> QED BY <1>1, <1>2

\* A decision that begins marks every approval it overlaps.
LEMMA DecisionBegins ==
  ASSUME KeysInv, WordPressTypes, UNCHANGED <<request, site, drawnFor>>,
         NEW c \in Operation, NEW r \in Request, NEW flight,
         request[r].status = "PENDING",
         Proceed(c, flight), flight.request = r,
         overlapped' \subseteq
           overlapped \union {o \in [request : Request, user : User] : o.request = r},
         overlapped \union Overtaken(r) \subseteq overlapped',
         flight.pc = "approving" =>
           \A d \in Operation : d # c /\ Decides(d) /\ operation[d].request = r =>
             [request |-> r, user |-> flight.user] \in overlapped'
  PROVE  KeysInv'
<1>1. OverlappedExist' BY DEF KeysInv, OverlappedExist
<1>2. SitesWereApproved' BY ApprovalsKept
<1>3. ASSUME NEW d \in Operation PROVE Deciding(d)'
  <2>1. CASE d = c
    BY <1>3, <2>1 DEF Proceed, WordPressTypes, Deciding, Decides, Doing
  <2>2. CASE d # c
    <3>1. operation'[d] = operation[d] BY <2>2 DEF Proceed, WordPressTypes
    <3>2. Deciding(d) BY DEF KeysInv
    <3>3. Decides(d) /\ request[operation[d].request].status = "APPROVED" =>
            [request |-> operation[d].request, user |-> request[operation[d].request].user]
              \in overlapped'
      BY <3>2 DEF Deciding
    <3>4. ASSUME Doing(d, "approving"), NEW e \in Operation, e # d, Decides(e)',
                 operation'[e].request = operation[d].request
          PROVE  [request |-> operation[d].request, user |-> operation[d].user] \in overlapped'
      <4>1. CASE e = c
        <5>1. operation[d].request = r BY <3>4, <4>1 DEF Proceed, WordPressTypes
        <5>2. d \in Deciders(r, {"approving"}) BY <3>4, <5>1 DEF Deciders, Doing
        <5> QED BY <5>1, <5>2 DEF Overtaken
      <4>2. CASE e # c
        <5>1. operation'[e] = operation[e] BY <4>2 DEF Proceed, WordPressTypes
        <5> QED BY <3>2, <3>4, <5>1 DEF Deciding, Decides, Doing
      <4> QED BY <4>1, <4>2
    <3> QED BY <3>1, <3>3, <3>4 DEF Deciding, Decides, Doing
  <2> QED BY <2>1, <2>2
<1> QED BY <1>1, <1>2, <1>3 DEF KeysInv

\* A decision that is written overwrites an approval only if it overlapped it.
LEMMA DecisionWritten ==
  ASSUME KeysInv, WordPressTypes, NEW c \in Operation, Decides(c),
         UNCHANGED <<drawnFor, overlapped>>, Proceed(c, NoOperation),
         NEW status \in {"EXPIRED", "DENIED"}, NEW user,
         UNCHANGED site,
         request' = [request EXCEPT ![operation[c].request].status = status,
                                    ![operation[c].request].user = user]
           \/ request' = [request EXCEPT ![operation[c].request].status = status]
  PROVE  KeysInv'
<1> DEFINE r == operation[c].request
<1>0. r \in Request BY FlightFields DEF Decides
<1>1. /\ request'[r].status = status /\ request'[r].key = request[r].key
      /\ \A q \in Request \ {r} : request'[q] = request[q]
  BY <1>0 DEF WordPressTypes, RequestRow
<1>2. request[r].status = "APPROVED" => [request |-> r, user |-> request[r].user] \in overlapped
  BY DEF KeysInv, Deciding
<1>3. OverlappedExist'
  BY <1>1 DEF KeysInv, OverlappedExist, WordPressTypes
<1>4. SitesWereApproved' BY <1>1, <1>2, ApprovalsKept
<1>5. ASSUME NEW d \in Operation, Decides(d)' PROVE Deciding(d)'
  <2>1. d # c /\ operation'[d] = operation[d]
    BY <1>5 DEF Proceed, NoOperation, WordPressTypes, Decides
  <2>2. operation[d].request \in Request BY <1>5, <2>1, FlightFields DEF Decides
  <2>3. \A e \in Operation : Decides(e)' => operation'[e] = operation[e]
    BY DEF Proceed, NoOperation, WordPressTypes, Decides
  <2>4. Deciding(d) /\ Decides(d) BY <1>5, <2>1 DEF KeysInv, Decides
  <2> QED BY <1>1, <2>1, <2>2, <2>3, <2>4 DEF Deciding, Decides, Doing
<1>6. \A d \in Operation : Deciding(d)' BY <1>5 DEF Deciding
<1> QED BY <1>3, <1>4, <1>6 DEF KeysInv

\* Every step keeps what is said of keys.
LEMMA KeysStep ==
  ASSUME WordPressInv, [WordPressNext]_wordpressVars
  PROVE  KeysInv'
<1>0. WordPressTypes /\ KeysInv BY DEF WordPressInv, KeysInv
<1>1. ASSUME NEW c \in Operation, CreateExpire(c) PROVE KeysInv'
  <2>1. \A r \in Request :
          /\ request[r].status # "PENDING" => request'[r] = request[r]
          /\ request[r].status = "PENDING" => request'[r].status = "EXPIRED"
          /\ request'[r].key = request[r].key /\ request'[r].user = request[r].user
    BY <1>0, <1>1 DEF CreateExpire, WordPressTypes, RequestRow
  <2>2. OverlappedExist'
    BY <1>0, <1>1, <2>1 DEF KeysInv, OverlappedExist, CreateExpire, WordPressTypes
  <2>3. SitesWereApproved' BY <1>0, <1>1, <2>1, ApprovalsKept DEF CreateExpire
  <2>4. \A d \in Operation : Decides(d)' => Decides(d) /\ operation'[d] = operation[d]
    BY <1>0, <1>1 DEF CreateExpire, Proceed, WordPressTypes, Decides
  <2>5. \A d \in Operation : Deciding(d)'
    BY <1>0, <1>1, <2>1, <2>4, DecidersKept DEF CreateExpire
  <2> QED BY <2>2, <2>3, <2>5 DEF KeysInv
<1>2. ASSUME NEW c \in Operation, Expire(c) PROVE KeysInv'
  BY <1>0, <1>2, DecisionWritten DEF Expire, Decides, Doing
<1>3. ASSUME NEW c \in Operation, Approve(c) PROVE KeysInv'
  <2> DEFINE r == operation[c].request
             u == operation[c].user
  <2>0. r \in Request /\ u \in User /\ Decides(c)
    BY <1>0, <1>3, FlightFields DEF Approve, Doing, Decides
  <2>1. /\ request'[r].status = "APPROVED" /\ request'[r].user = u
        /\ request'[r].key = request[r].key
        /\ \A q \in Request \ {r} : request'[q] = request[q]
        /\ site'[u].key = request[r].key
        /\ \A w \in User \ {u} : site'[w] = site[w]
    BY <1>0, <1>3, <2>0 DEF Approve, WordPressTypes, RequestRow
  <2>2. request[r].status = "APPROVED" => [request |-> r, user |-> request[r].user] \in overlapped
    BY <1>0, <2>0 DEF KeysInv, Deciding
  <2>3. OverlappedExist'
    BY <1>0, <1>3, <2>1 DEF Approve, KeysInv, OverlappedExist, WordPressTypes
  <2>4. SitesWereApproved'
    <3> SUFFICES ASSUME NEW w \in User, Connected(w)', drawnFor'[site'[w].key] # w
                 PROVE  \E q \in Request :
                          /\ request'[q].key = site'[w].key
                          /\ \/ request'[q].status = "APPROVED" /\ request'[q].user = w
                             \/ [request |-> q, user |-> w] \in overlapped'
      BY DEF SitesWereApproved
    <3>1. CASE w = u BY <2>0, <2>1, <3>1
    <3>2. CASE w # u
      <4>1. Connected(w) /\ drawnFor[site[w].key] # w /\ site'[w] = site[w]
        BY <1>3, <2>1, <3>2 DEF Approve, Connected
      <4>2. PICK q \in Request :
              /\ request[q].key = site[w].key
              /\ \/ request[q].status = "APPROVED" /\ request[q].user = w
                 \/ [request |-> q, user |-> w] \in overlapped
        BY <1>0, <4>1 DEF KeysInv, SitesWereApproved
      <4>3. request'[q].key = site'[w].key BY <2>1, <4>1, <4>2
      <4>4. \/ request'[q].status = "APPROVED" /\ request'[q].user = w
            \/ [request |-> q, user |-> w] \in overlapped
        BY <2>1, <2>2, <4>2
      <4> QED BY <1>3, <4>3, <4>4 DEF Approve
    <3> QED BY <3>1, <3>2
  <2>5. ASSUME NEW d \in Operation, Decides(d)' PROVE Deciding(d)'
    <3>1. d # c /\ operation'[d] = operation[d]
      BY <1>0, <1>3, <2>5 DEF Approve, Proceed, NoOperation, WordPressTypes, Decides
    <3>2. operation[d].request \in Request /\ Decides(d)
      BY <1>0, <2>5, <3>1, FlightFields DEF Decides
    <3>3. \A e \in Operation : Decides(e)' => Decides(e) /\ operation'[e] = operation[e]
      BY <1>0, <1>3 DEF Approve, Proceed, NoOperation, WordPressTypes, Decides
    <3>4. Deciding(d) /\ overlapped' = overlapped BY <1>0, <1>3 DEF KeysInv, Approve
    <3>5. request'[operation[d].request].status = "APPROVED" =>
            [request |-> operation[d].request, user |-> request'[operation[d].request].user]
              \in overlapped
      <4>1. CASE operation[d].request = r
        <5>1. Deciding(c) /\ Doing(c, "approving") BY <1>0, <1>3 DEF KeysInv, Approve
        <5>2. [request |-> r, user |-> u] \in overlapped
          BY <2>0, <3>1, <3>2, <4>1, <5>1 DEF Deciding
        <5> QED BY <2>1, <4>1, <5>2
      <4>2. CASE operation[d].request # r
        BY <2>1, <3>2, <3>4, <4>2 DEF Deciding
      <4> QED BY <4>1, <4>2
    <3>6. Doing(d, "approving") =>
            \A e \in Operation :
              e # d /\ Decides(e)' /\ operation'[e].request = operation[d].request =>
                [request |-> operation[d].request, user |-> operation[d].user] \in overlapped
      BY <3>2, <3>3, <3>4 DEF Deciding
    <3> QED BY <3>1, <3>4, <3>5, <3>6 DEF Deciding, Doing
  <2>6. \A d \in Operation : Deciding(d)' BY <2>5 DEF Deciding
  <2> QED BY <2>3, <2>4, <2>6 DEF KeysInv
<1>4. ASSUME NEW c \in Operation, Deny(c) PROVE KeysInv'
  BY <1>0, <1>4, DecisionWritten DEF Deny, Decides, Doing
<1>5. ASSUME NEW c \in Operation, ExpireEdit(c) PROVE KeysInv'
  BY <1>0, <1>5, QuietForKeys DEF ExpireEdit, Proceed, NoOperation, Doing, WordPressTypes
<1>6. ASSUME NEW c \in Operation, Complete(c) PROVE KeysInv'
  BY <1>0, <1>6, QuietForKeys DEF Complete, Proceed, NoOperation, Doing, WordPressTypes
<1>7. ASSUME NEW c \in Operation, AssetWrite(c) PROVE KeysInv'
  BY <1>0, <1>7, QuietForKeys DEF AssetWrite, Proceed, NoOperation, Doing, WordPressTypes
<1>8. ASSUME NEW c \in Operation, OperationDies(c) PROVE KeysInv'
  BY <1>0, <1>8, QuietForKeys DEF OperationDies, Proceed, NoOperation, Doing, WordPressTypes
<1>9. ASSUME NEW c \in Operation, NEW r \in Request, NEW k \in Key, CreateRequest(c, r, k)
      PROVE  KeysInv'
  <2>1. /\ request'[r].status = "PENDING" /\ \A q \in Request \ {r} : request'[q] = request[q]
        /\ request[r].status = "none"
    BY <1>0, <1>9 DEF CreateRequest, WordPressTypes, NoRequest
  <2>2. OverlappedExist'
    BY <1>0, <1>9, <2>1 DEF CreateRequest, KeysInv, OverlappedExist, WordPressTypes
  <2>3. SitesWereApproved' BY <1>0, <1>9, <2>1, ApprovalsKept DEF CreateRequest
  <2>4. \A d \in Operation : Decides(d)' => Decides(d) /\ operation'[d] = operation[d]
    BY <1>0, <1>9 DEF CreateRequest, Proceed, NoOperation, WordPressTypes, Decides
  <2>5. \A d \in Operation : Deciding(d)'
    BY <1>0, <1>9, <2>1, <2>4, DecidersKept DEF CreateRequest
  <2> QED BY <2>2, <2>3, <2>5 DEF KeysInv
<1>10. ASSUME NEW c \in Operation, NEW r \in Request, FindLapsed(c, r) PROVE KeysInv'
  <2>1. Overtaken(r) \subseteq {o \in [request : Request, user : User] : o.request = r}
    BY <1>0, OvertakenTyped DEF Overtaken
  <2> QED BY <1>0, <1>10, <2>1, DecisionBegins DEF FindLapsed
<1>11. ASSUME NEW c \in Operation, NEW r \in Request, NEW u \in User, DenyCheck(c, r, u)
       PROVE  KeysInv'
  <2>1. Overtaken(r) \subseteq {o \in [request : Request, user : User] : o.request = r}
    BY <1>0, OvertakenTyped DEF Overtaken
  <2> QED BY <1>0, <1>11, <2>1, DecisionBegins DEF DenyCheck
<1>12. ASSUME NEW c \in Operation, NEW r \in Request, NEW u \in User, ApproveCheck(c, r, u)
       PROVE  KeysInv'
  <2> DEFINE flight == [pc |-> "approving", request |-> r, user |-> u]
  <2>1. Overtaken(r) \subseteq {o \in [request : Request, user : User] : o.request = r}
    BY <1>0, OvertakenTyped DEF Overtaken
  <2>2. overlapped' = overlapped \union Overtaken(r) \union
          {[request |-> r, user |-> u] : d \in Deciders(r, {"approving", "denying", "expiring"})}
    BY <1>12 DEF ApproveCheck
  <2>3. overlapped' \subseteq
          overlapped \union {o \in [request : Request, user : User] : o.request = r}
    BY <2>1, <2>2
  <2>4. \A d \in Operation : Decides(d) /\ operation[d].request = r =>
          [request |-> r, user |-> u] \in overlapped'
    BY <2>2 DEF Decides, Deciders
  <2>5. /\ UNCHANGED <<request, site, drawnFor>> /\ request[r].status = "PENDING"
        /\ Proceed(c, flight)
    BY <1>12 DEF ApproveCheck
  <2>6. overlapped \union Overtaken(r) \subseteq overlapped' BY <2>2
  <2>7. flight.request = r /\ flight.user = u OBVIOUS
  <2> HIDE DEF flight
  <2> QED BY <1>0, <2>3, <2>4, <2>5, <2>6, <2>7, DecisionBegins
<1>13. ASSUME NEW c \in Operation, NEW e \in Edit, FindLapsedEdit(c, e) PROVE KeysInv'
  BY <1>0, <1>13, QuietForKeys DEF FindLapsedEdit, Proceed, Doing, WordPressTypes
<1>14. ASSUME NEW c \in Operation, NEW e \in Edit, CompleteCheck(c, e) PROVE KeysInv'
  BY <1>0, <1>14, QuietForKeys DEF CompleteCheck, Proceed, Doing, Open, WordPressTypes
<1>15. ASSUME NEW c \in Operation, NEW e \in Edit, NEW o \in Object, AssetCheck(c, e, o)
       PROVE  KeysInv'
  BY <1>0, <1>15, QuietForKeys DEF AssetCheck, Proceed, Doing, Open, WordPressTypes
<1>16. ASSUME NEW r \in Request, RequestLapses(r) PROVE KeysInv'
  BY <1>0, <1>16, QuietForKeys DEF RequestLapses, WordPressTypes, RequestRow
<1>17. ASSUME NEW u \in User, NEW b \in BOOLEAN, SetEnabled(u, b) PROVE KeysInv'
  BY <1>0, <1>17, QuietForKeys DEF SetEnabled, WordPressTypes
<1>18. ASSUME NEW u \in User, NEW k \in Key, RotateKey(u, k) PROVE KeysInv'
  <2>1. \A d \in Operation : Deciding(d)'
    BY <1>0, <1>18 DEF RotateKey, KeysInv, Deciding, Decides, Doing
  <2>2. OverlappedExist' BY <1>0, <1>18 DEF RotateKey, KeysInv, OverlappedExist
  <2>3. SitesWereApproved'
    <3> SUFFICES ASSUME NEW w \in User, Connected(w)', drawnFor'[site'[w].key] # w
                 PROVE  \E q \in Request :
                          /\ request'[q].key = site'[w].key
                          /\ \/ request'[q].status = "APPROVED" /\ request'[q].user = w
                             \/ [request |-> q, user |-> w] \in overlapped'
      BY DEF SitesWereApproved
    <3>1. w # u /\ site'[w] = site[w] BY <1>0, <1>18 DEF RotateKey, WordPressTypes
    <3>2. Connected(w) /\ site[w].key \in Key BY <1>0, <3>1 DEF Connected, WordPressTypes
    <3>3. CASE drawnFor[site[w].key] # w
      BY <1>0, <1>18, <3>1, <3>2, <3>3 DEF KeysInv, SitesWereApproved, RotateKey
    <3>4. CASE drawnFor[site[w].key] = w
      <4>1. drawnFor[k] = "none" BY <1>18 DEF RotateKey
      <4>2. site[w].key # k BY <3>4, <4>1, UsersAssumption
      <4> QED BY <1>0, <1>18, <3>1, <3>2, <3>4, <4>2 DEF RotateKey, WordPressTypes
    <3> QED BY <3>3, <3>4
  <2> QED BY <2>1, <2>2, <2>3 DEF KeysInv
<1>19. ASSUME NEW u \in User, Disconnect(u) PROVE KeysInv'
  BY <1>0, <1>19, QuietForKeys DEF Disconnect, NoSite, WordPressTypes
<1>20. ASSUME NEW e \in Edit, EditLapses(e) PROVE KeysInv'
  BY <1>0, <1>20, QuietForKeys DEF EditLapses, WordPressTypes
<1>21. ASSUME NEW e \in Edit, NEW k \in Key, OpenEdit(e, k) PROVE KeysInv'
  BY <1>0, <1>21, QuietForKeys DEF OpenEdit, Answering, WordPressTypes
<1>22. CASE UNCHANGED wordpressVars
  BY <1>0, <1>22, QuietForKeys DEF wordpressVars
<1> QED
  BY <1>1, <1>2, <1>3, <1>4, <1>5, <1>6, <1>7, <1>8, <1>9, <1>10, <1>11, <1>12, <1>13, <1>14,
     <1>15, <1>16, <1>17, <1>18, <1>19, <1>20, <1>21, <1>22
     DEF WordPressNext

-----------------------------------------------------------------------------
(***************************************************************************)
(* Edit sessions and assets.                                               *)
(***************************************************************************)
EditsInv ==
  /\ \A c \in Operation : Editing(c)
  /\ GoneLapsed
  /\ inTime \subseteq Edit /\ InTimeIsKept
  /\ AssetsAreStored

\* Steps that change no session and begin nothing with one keep what is said of them.
LEMMA QuietForEdits ==
  ASSUME EditsInv, UNCHANGED <<edit, asset, uploaded, inTime>>, WordPressTypes,
         \A c \in Operation :
           \/ operation'[c] = operation[c]
           \/ operation'[c].pc \notin {"expiringEdit", "completing", "adding"}
  PROVE  EditsInv'
<1>1. \A c \in Operation : Editing(c)' BY DEF EditsInv, Editing, Doing
<1>2. /\ GoneLapsed'
      /\ inTime' \subseteq Edit /\ InTimeIsKept'
      /\ AssetsAreStored'
  BY DEF EditsInv, GoneLapsed, InTimeIsKept, AssetsAreStored
<1> QED BY <1>1, <1>2 DEF EditsInv

\* What was completed in time stays so, and assets have their objects and sessions.
LEMMA EditsStep ==
  ASSUME WordPressInv, [WordPressNext]_wordpressVars
  PROVE  EditsInv'
<1>0. WordPressTypes /\ EditsInv BY DEF WordPressInv, EditsInv
<1>1. ASSUME NEW c \in Operation, CreateExpire(c) PROVE EditsInv'
  BY <1>0, <1>1, QuietForEdits DEF CreateExpire, Proceed, Doing, WordPressTypes
<1>2. ASSUME NEW c \in Operation, Expire(c) PROVE EditsInv'
  BY <1>0, <1>2, QuietForEdits DEF Expire, Proceed, NoOperation, Doing, WordPressTypes
<1>3. ASSUME NEW c \in Operation, Approve(c) PROVE EditsInv'
  BY <1>0, <1>3, QuietForEdits DEF Approve, Proceed, NoOperation, Doing, WordPressTypes
<1>4. ASSUME NEW c \in Operation, Deny(c) PROVE EditsInv'
  BY <1>0, <1>4, QuietForEdits DEF Deny, Proceed, NoOperation, Doing, WordPressTypes
<1>5. ASSUME NEW c \in Operation, ExpireEdit(c) PROVE EditsInv'
  <2>1. \A d \in Operation : Editing(d)'
    BY <1>0, <1>5, FlightFields, FlightFields
       DEF EditsInv, ExpireEdit, Proceed, NoOperation, Doing, WordPressTypes, EditRow, Editing,
           Doing, InTimeIsKept
  <2>2. GoneLapsed' /\ inTime' \subseteq Edit /\ InTimeIsKept'
    BY <1>0, <1>5, FlightFields
       DEF EditsInv, ExpireEdit, Proceed, NoOperation, Doing, WordPressTypes, EditRow, Editing,
           GoneLapsed, InTimeIsKept
  <2>3. AssetsAreStored'
    BY <1>0, <1>5, FlightFields
       DEF EditsInv, ExpireEdit, Proceed, NoOperation, Doing, WordPressTypes, EditRow, Editing,
           AssetsAreStored
  <2> QED BY <2>1, <2>2, <2>3 DEF EditsInv
<1>6. ASSUME NEW c \in Operation, Complete(c) PROVE EditsInv'
  <2>1. \A d \in Operation : Editing(d)'
    BY <1>0, <1>6, FlightFields, FlightFields
       DEF EditsInv, Complete, Proceed, NoOperation, Doing, WordPressTypes, EditRow, Editing,
           Doing, InTimeIsKept
  <2>2. GoneLapsed' /\ inTime' \subseteq Edit /\ InTimeIsKept'
    BY <1>0, <1>6, FlightFields
       DEF EditsInv, Complete, Proceed, NoOperation, Doing, WordPressTypes, EditRow, Editing,
           GoneLapsed, InTimeIsKept
  <2>3. AssetsAreStored'
    BY <1>0, <1>6, FlightFields
       DEF EditsInv, Complete, Proceed, NoOperation, Doing, WordPressTypes, EditRow, Editing,
           AssetsAreStored
  <2> QED BY <2>1, <2>2, <2>3 DEF EditsInv
<1>7. ASSUME NEW c \in Operation, AssetWrite(c) PROVE EditsInv'
  <2>1. \A d \in Operation : Editing(d)'
    BY <1>0, <1>7, FlightFields, FlightFields
       DEF EditsInv, AssetWrite, Proceed, NoOperation, Doing, WordPressTypes, EditRow, Editing,
           Doing, InTimeIsKept
  <2>2. GoneLapsed' /\ inTime' \subseteq Edit /\ InTimeIsKept'
    BY <1>0, <1>7, FlightFields
       DEF EditsInv, AssetWrite, Proceed, NoOperation, Doing, WordPressTypes, EditRow, Editing,
           GoneLapsed, InTimeIsKept
  <2>3. AssetsAreStored'
    BY <1>0, <1>7, FlightFields
       DEF EditsInv, AssetWrite, Proceed, NoOperation, Doing, WordPressTypes, EditRow, Editing,
           AssetsAreStored
  <2> QED BY <2>1, <2>2, <2>3 DEF EditsInv
<1>8. ASSUME NEW c \in Operation, OperationDies(c) PROVE EditsInv'
  BY <1>0, <1>8, QuietForEdits DEF OperationDies, Proceed, NoOperation, Doing, WordPressTypes
<1>9. ASSUME NEW c \in Operation, NEW r \in Request, NEW k \in Key, CreateRequest(c, r, k)
      PROVE  EditsInv'
  BY <1>0, <1>9, QuietForEdits DEF CreateRequest, Proceed, NoOperation, Doing, WordPressTypes
<1>10. ASSUME NEW c \in Operation, NEW r \in Request, FindLapsed(c, r) PROVE EditsInv'
  BY <1>0, <1>10, QuietForEdits DEF FindLapsed, Proceed, Doing, WordPressTypes
<1>11. ASSUME NEW c \in Operation, NEW r \in Request, NEW u \in User, DenyCheck(c, r, u)
       PROVE  EditsInv'
  BY <1>0, <1>11, QuietForEdits DEF DenyCheck, Proceed, Doing, WordPressTypes
<1>12. ASSUME NEW c \in Operation, NEW r \in Request, NEW u \in User, ApproveCheck(c, r, u)
       PROVE  EditsInv'
  BY <1>0, <1>12, QuietForEdits DEF ApproveCheck, Proceed, Doing, WordPressTypes
<1>13. ASSUME NEW c \in Operation, NEW e \in Edit, FindLapsedEdit(c, e) PROVE EditsInv'
  <2>1. \A d \in Operation : Editing(d)'
    BY <1>0, <1>13, FlightFields
       DEF EditsInv, FindLapsedEdit, Proceed, Doing, WordPressTypes, EditRow, Editing, Doing,
           InTimeIsKept
  <2>2. GoneLapsed' /\ inTime' \subseteq Edit /\ InTimeIsKept'
    BY <1>0, <1>13
       DEF EditsInv, FindLapsedEdit, Proceed, Doing, WordPressTypes, EditRow, Editing, GoneLapsed,
           InTimeIsKept
  <2>3. AssetsAreStored'
    BY <1>0, <1>13
       DEF EditsInv, FindLapsedEdit, Proceed, Doing, WordPressTypes, EditRow, Editing,
           AssetsAreStored
  <2> QED BY <2>1, <2>2, <2>3 DEF EditsInv
<1>14. ASSUME NEW c \in Operation, NEW e \in Edit, CompleteCheck(c, e) PROVE EditsInv'
  <2>1. \A d \in Operation : Editing(d)'
    BY <1>0, <1>14, FlightFields
       DEF EditsInv, CompleteCheck, Proceed, Doing, Open, WordPressTypes, EditRow, Editing, Doing,
           InTimeIsKept
  <2>2. GoneLapsed' /\ inTime' \subseteq Edit /\ InTimeIsKept'
    BY <1>0, <1>14
       DEF EditsInv, CompleteCheck, Proceed, Doing, Open, WordPressTypes, EditRow, Editing,
           GoneLapsed, InTimeIsKept
  <2>3. AssetsAreStored'
    BY <1>0, <1>14
       DEF EditsInv, CompleteCheck, Proceed, Doing, Open, WordPressTypes, EditRow, Editing,
           AssetsAreStored
  <2> QED BY <2>1, <2>2, <2>3 DEF EditsInv
<1>15. ASSUME NEW c \in Operation, NEW e \in Edit, NEW o \in Object, AssetCheck(c, e, o)
       PROVE  EditsInv'
  <2>1. \A d \in Operation : Editing(d)'
    BY <1>0, <1>15, FlightFields
       DEF EditsInv, AssetCheck, Proceed, Doing, Open, WordPressTypes, EditRow, Editing, Doing,
           InTimeIsKept
  <2>2. GoneLapsed' /\ inTime' \subseteq Edit /\ InTimeIsKept'
    BY <1>0, <1>15
       DEF EditsInv, AssetCheck, Proceed, Doing, Open, WordPressTypes, EditRow, Editing,
           GoneLapsed, InTimeIsKept
  <2>3. AssetsAreStored'
    BY <1>0, <1>15
       DEF EditsInv, AssetCheck, Proceed, Doing, Open, WordPressTypes, EditRow, Editing,
           AssetsAreStored
  <2> QED BY <2>1, <2>2, <2>3 DEF EditsInv
<1>16. ASSUME NEW r \in Request, RequestLapses(r) PROVE EditsInv'
  BY <1>0, <1>16, QuietForEdits DEF RequestLapses, WordPressTypes
<1>17. ASSUME NEW u \in User, NEW b \in BOOLEAN, SetEnabled(u, b) PROVE EditsInv'
  BY <1>0, <1>17, QuietForEdits DEF SetEnabled, Connected, WordPressTypes
<1>18. ASSUME NEW u \in User, NEW k \in Key, RotateKey(u, k) PROVE EditsInv'
  BY <1>0, <1>18, QuietForEdits DEF RotateKey, Connected, WordPressTypes
<1>19. ASSUME NEW u \in User, Disconnect(u) PROVE EditsInv'
  <2>1. \A d \in Operation : Editing(d)'
    BY <1>0, <1>19, FlightFields
       DEF EditsInv, Disconnect, Connected, NoSite, WordPressTypes, EditRow, Editing, Doing,
           InTimeIsKept
  <2>2. GoneLapsed' /\ inTime' \subseteq Edit /\ InTimeIsKept'
    BY <1>0, <1>19
       DEF EditsInv, Disconnect, Connected, NoSite, WordPressTypes, EditRow, Editing, GoneLapsed,
           InTimeIsKept
  <2>3. AssetsAreStored'
    BY <1>0, <1>19
       DEF EditsInv, Disconnect, Connected, NoSite, WordPressTypes, EditRow, Editing,
           AssetsAreStored
  <2> QED BY <2>1, <2>2, <2>3 DEF EditsInv
<1>20. ASSUME NEW e \in Edit, EditLapses(e) PROVE EditsInv'
  <2>1. \A d \in Operation : Editing(d)'
    BY <1>0, <1>20, FlightFields
       DEF EditsInv, EditLapses, WordPressTypes, EditRow, Editing, Doing, InTimeIsKept
  <2>2. GoneLapsed' /\ inTime' \subseteq Edit /\ InTimeIsKept'
    BY <1>0, <1>20
       DEF EditsInv, EditLapses, WordPressTypes, EditRow, Editing, GoneLapsed, InTimeIsKept
  <2>3. AssetsAreStored'
    BY <1>0, <1>20 DEF EditsInv, EditLapses, WordPressTypes, EditRow, Editing, AssetsAreStored
  <2> QED BY <2>1, <2>2, <2>3 DEF EditsInv
<1>21. ASSUME NEW e \in Edit, NEW k \in Key, OpenEdit(e, k) PROVE EditsInv'
  <2>1. \A d \in Operation : Editing(d)'
    BY <1>0, <1>21, FlightFields
       DEF EditsInv, OpenEdit, Answering, WordPressTypes, EditRow, Editing, Doing, InTimeIsKept
  <2>2. GoneLapsed' /\ inTime' \subseteq Edit /\ InTimeIsKept'
    BY <1>0, <1>21
       DEF EditsInv, OpenEdit, Answering, WordPressTypes, EditRow, Editing, GoneLapsed,
           InTimeIsKept
  <2>3. AssetsAreStored'
    BY <1>0, <1>21
       DEF EditsInv, OpenEdit, Answering, WordPressTypes, EditRow, Editing, AssetsAreStored
  <2> QED BY <2>1, <2>2, <2>3 DEF EditsInv
<1>22. CASE UNCHANGED wordpressVars
  BY <1>0, <1>22, QuietForEdits DEF wordpressVars
<1> QED
  BY <1>1, <1>2, <1>3, <1>4, <1>5, <1>6, <1>7, <1>8, <1>9, <1>10, <1>11, <1>12, <1>13, <1>14,
     <1>15, <1>16, <1>17, <1>18, <1>19, <1>20, <1>21, <1>22
     DEF WordPressNext

-----------------------------------------------------------------------------
\* The initial state has it.
LEMMA WordPressStart == WordPressInit => WordPressInv
<1> SUFFICES ASSUME WordPressInit PROVE WordPressInv OBVIOUS
<1>1. WordPressTypes
  BY DEF WordPressInit, WordPressTypes, NoSite, NoEdit, NoOperation, EditRow, InFlight,
     NoRequest, RequestRow, RequestStatus
<1>2. /\ OverlappedExist /\ SitesWereApproved /\ GoneLapsed
      /\ inTime \subseteq Edit /\ InTimeIsKept /\ AssetsAreStored
  BY DEF WordPressInit, OverlappedExist, SitesWereApproved, GoneLapsed, InTimeIsKept,
     AssetsAreStored, Connected, NoSite, NoEdit
<1>3. \A c \in Operation : Deciding(c) /\ Editing(c)
  BY DEF WordPressInit, Deciding, Decides, Editing, Doing, NoOperation
<1> QED BY <1>1, <1>2, <1>3 DEF WordPressInv

\* The invariant holds in every reachable state.
THEOREM WordPressInvariance == WordPressSpec => []WordPressInv
<1>1. WordPressInv /\ [WordPressNext]_wordpressVars => WordPressInv'
  BY WordPressTypesStep, KeysStep, EditsStep DEF WordPressInv, KeysInv, EditsInv
<1> QED BY <1>1, WordPressStart, PTL DEF WordPressSpec

\* A connected site has a key drawn for its user, or one that a request brought which this user
\* approved and whose row says so, unless another decision of the request overlapped the approval.
THEOREM SitesNeedApproval == WordPressSpec => []SitesWereApproved
<1>1. WordPressInv => SitesWereApproved BY DEF WordPressInv
<1> QED BY <1>1, WordPressInvariance, PTL

\* An edit session completed in time stays COMPLETED, whatever reads it meanwhile,
\* until its site is removed.
THEOREM ResultsInTimeAreKept == WordPressSpec => []InTimeIsKept
<1>1. WordPressInv => InTimeIsKept BY DEF WordPressInv
<1> QED BY <1>1, WordPressInvariance, PTL

\* Assets have their object and their session, whatever expires or is disconnected.
THEOREM AssetsKeepTheirObjects == WordPressSpec => []AssetsAreStored
<1>1. WordPressInv => AssetsAreStored BY DEF WordPressInv
<1> QED BY <1>1, WordPressInvariance, PTL
=============================================================================
