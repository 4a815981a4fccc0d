------------------------------ MODULE MCAiImages ------------------------------
(***************************************************************************)
(* AiTexts, and with it AiImages, on small instances: administrators       *)
(* change the catalogue and no request runs; image jobs run on a catalogue *)
(* of a variant at every price; or they run on a key of the user's own, of *)
(* which one may be a text instead.  A job on the platform's key reads     *)
(* nothing that one on the user's writes.                                  *)
(***************************************************************************)
EXTENDS AiTexts, TLC

NoText == [NewText EXCEPT !.pc = "done"]
NoJob == [NewJob EXCEPT !.pc = "done"]
NoKeys == [NoCredential EXCEPT !.removed = TRUE]

NoJobs ==
  /\ type = TRUE /\ credential = NoKeys
  /\ variant \in [Variant -> {NoVariant(p) : p \in Price}]
  /\ job = [j \in Job |-> NoJob]

PlatformJobs ==
  /\ variant \in [Variant -> [exists : {TRUE}, active : {TRUE}, default : {FALSE}, price : Price]]
  /\ {variant[v].price : v \in Variant} = Price
  /\ type = TRUE /\ credential = NoKeys

OwnKeyJobs ==
  /\ variant = [v \in Variant |-> NoVariant(CHOOSE p \in Price : TRUE)]
  /\ type = FALSE /\ credential = NoCredential

AllJobs == job = [j \in Job |-> NewJob] /\ text = [t \in Text |-> NoText]

OneJobAndTexts ==
  /\ \E i \in Job : job = [j \in Job |-> IF j = i THEN NewJob ELSE NoJob]
  /\ text = [t \in Text |-> NewText]

MCInit ==
  /\ \/ NoJobs /\ text = [t \in Text |-> NoText]
     \/ (PlatformJobs \/ OwnKeyJobs) /\ AllJobs
     \/ OwnKeyJobs /\ OneJobAndTexts
  /\ change = [a \in Admin |-> NoChange]
  /\ missed = FALSE /\ blamed = 0 /\ replaced = {} /\ refused = {}
  /\ book = Mutate(NewBook, "ADMIN_GRANT", CHOOSE k \in Key \ Job : TRUE, Balance)
  /\ record = [j \in Job |-> NoRecord]
  /\ row = [t \in Text |-> NoRow] /\ history = [t \in Text |-> NoEntry]
  /\ ProvidersInit
  /\ objects = {} /\ faults = 0

\* The catalogue or the jobs; one prediction at a time; the platform's key is not Google's (what
\* errors say of a key matters to a user's own alone).  A text shares a Google key, and its row
\* ages when no image is under way.
Bound ==
  /\ UNCHANGED catalogueVars \/ \A j \in Job : job[j] = NoJob
  /\ Cardinality({j \in Job : call'[j].provider = "replicate"}) <= 1
  /\ \A j \in Job : call'[j].provider = "google" => job'[j].key # 0
  /\ \A t \in Text :
       /\ text[t] # NoText => credential'.provider \in {"none", "google"}
       /\ row'[t].due => \A j \in Job : job[j] = NoJob \/ job[j] = NewJob

MCSpec == MCInit /\ [][TextsNext /\ Bound]_<<vars, textVars>>

Symmetry == Permutations(Job) \union Permutations(Variant) \union Permutations(Admin)
=============================================================================
