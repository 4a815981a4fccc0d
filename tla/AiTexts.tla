-------------------------------- MODULE AiTexts --------------------------------
(***************************************************************************)
(* Text requests on the user's own API key (AiService.createAndExecute     *)
(* with a credential, ai/ai.service.ts), next to the image operations that *)
(* use and judge the same key, and what becomes of their input and output  *)
(* when the history is kept in an external store (ai-history.store.ts).    *)
(*                                                                         *)
(* Idempotency-Keys, credits and cancellation are those of AiRequests.     *)
(***************************************************************************)
EXTENDS AiImages

CONSTANTS
  Text,    \* text requests; bound: their number
  External \* AI_HISTORY_STORAGE_DRIVER is cloudflare-d1

ASSUME ExternalAssumption == External \in BOOLEAN

VARIABLES
  text,   \* createAndExecute in progress
  row,    \* AiRequest rows; input, output: the row holds them itself
  history \* rows of the external store

textVars == <<text, row, history>>
imageVars == <<book, record, job, objects, providerVars, catalogueVars, replaced>>

NewText == [pc |-> "idle", key |-> 0, provider |-> "none", auth |-> FALSE,
            stored |-> FALSE, left |-> FALSE]
\* due: older than AI_HISTORY_RETENTION_DAYS.
NoRow == [status |-> "NONE", input |-> FALSE, output |-> FALSE, due |-> FALSE]
NoEntry == [state |-> "none", output |-> FALSE]

TextsInit ==
  /\ Init
  /\ text = [t \in Text |-> NewText]
  /\ row = [t \in Text |-> NoRow]
  /\ history = [t \in Text |-> NoEntry]

Doing(t, pc) == text[t].pc = pc
GoText(t, pc) == text' = [text EXCEPT ![t].pc = pc]
Kept(t) == history[t].state = "kept"

-----------------------------------------------------------------------------
\* AiProviderRegistry; a text adapter answers one request.
TextAdapter(p) == p \in {"openai", "anthropic", "google", "xai"}

\* providerFetch: the error keeps the provider's words, not its status.
FetchError(a) == [status |-> 0, words |-> a.words]

\* resolveForRequest.
StartText(t) ==
  /\ Doing(t, "idle")
  /\ credential.key > 0 /\ credential.status = "ACTIVE"
  /\ text' = [text EXCEPT ![t].pc = "create", ![t].key = credential.key,
                          ![t].provider = credential.provider]
  /\ UNCHANGED <<row, history, credential, blamed, refused, faults>>

CreateRow(t) ==
  /\ Doing(t, "create")
  /\ row' = [row EXCEPT ![t].status = "QUEUED", ![t].input = ~External]
  /\ GoText(t, IF External THEN "input" ELSE "start")
  /\ UNCHANGED <<history, credential, blamed, refused, faults>>

\* history.create: an INSERT that is not acknowledged may have happened, or happen later.
HistoryCreate(t) ==
  /\ Doing(t, "input")
  /\ \E state \in {"none", "late", "kept"} : history' = [history EXCEPT ![t].state = state]
  /\ (history'[t].state = "kept" /\ GoText(t, "start")) \/ GoText(t, "fallback")
  /\ UNCHANGED <<row, credential, blamed, refused, faults>>

InsertLate(t) ==
  /\ history[t].state = "late" /\ ~row[t].due
  /\ history' = [history EXCEPT ![t].state = "kept"]
  /\ UNCHANGED <<text, row, credential, blamed, refused, faults>>

InputFallback(t) ==
  /\ Doing(t, "fallback")
  /\ row' = [row EXCEPT ![t].input = TRUE]
  /\ GoText(t, "start")
  /\ UNCHANGED <<history, credential, blamed, refused, faults>>

ProcessText(t) ==
  /\ Doing(t, "start")
  /\ row' = [row EXCEPT ![t].status = "PROCESSING"]
  /\ GoText(t, "execute")
  /\ UNCHANGED <<history, credential, blamed, refused, faults>>

\* The adapter returns the text it was answered with, or throws.
TextAnswers(t, a) ==
  /\ Doing(t, "execute")
  /\ TextAdapter(text[t].provider)
  /\ IF a.status = 200 /\ a.content
     THEN GoText(t, "works")
     ELSE text' = [text EXCEPT ![t].pc = "mark",
                     ![t].auth = a.status # 200 /\ IsProviderAuthError(FetchError(a))]
  /\ refused' = refused \union (IF RefusesKey(a) THEN {text[t].key} ELSE {})
  /\ UNCHANGED <<row, history, credential, blamed, faults>>

\* The request has no messages, no adapter, no connection, or no answer in time.
TextFails(t) ==
  /\ Doing(t, "execute")
  /\ GoText(t, "mark")
  /\ UNCHANGED <<row, history, credential, blamed, refused, faults>>

\* What markUsed throws is swallowed.
Marks(key, failed) == MarkUsed(key, failed) \/ UNCHANGED <<credential, blamed>>

TextWorks(t) ==
  /\ Doing(t, "works")
  /\ Marks(text[t].key, FALSE)
  /\ GoText(t, IF External THEN "output" ELSE "complete")
  /\ UNCHANGED <<row, history, refused, faults>>

HistoryCompleteSlip(t) ==
  /\ Doing(t, "output")
  /\ \E written, answered \in BOOLEAN :
       /\ answered => written
       /\ history' = [history EXCEPT ![t].output = written /\ Kept(t)]
       /\ text' = [text EXCEPT ![t].pc = "complete", ![t].stored = answered]
  /\ UNCHANGED <<row, credential, blamed, refused, faults>>

\* history.complete: an UPDATE that must have changed a row.
HistoryComplete(t) ==
  /\ Doing(t, "output")
  /\ \E written, answered \in BOOLEAN :
       /\ answered => written
       /\ history' = [history EXCEPT ![t].output = written /\ Kept(t)]
       /\ text' = [text EXCEPT ![t].pc = "complete", ![t].stored = answered /\ Kept(t)]
  /\ UNCHANGED <<row, credential, blamed, refused, faults>>

CompleteRow(t) ==
  /\ Doing(t, "complete")
  /\ row' = [row EXCEPT ![t].status = "COMPLETED", ![t].output = ~text[t].stored]
  /\ GoText(t, "done")
  /\ UNCHANGED <<history, credential, blamed, refused, faults>>

MarkText(t) ==
  /\ Doing(t, "mark")
  /\ Marks(text[t].key, text[t].auth)
  /\ GoText(t, "fail")
  /\ UNCHANGED <<row, history, refused, faults>>

FailRow(t) ==
  /\ Doing(t, "fail")
  /\ row' = [row EXCEPT ![t].status = "FAILED"]
  /\ GoText(t, "done")
  /\ UNCHANGED <<history, credential, blamed, refused, faults>>

\* The process stops, or a statement outside the try, or in the catch, fails.
TextDies(t) ==
  /\ text[t].pc \notin {"idle", "done"}
  /\ faults < MaxFaults /\ faults' = faults + 1
  /\ text' = [text EXCEPT ![t].pc = "done", ![t].left = TRUE]
  /\ UNCHANGED <<row, history, credential, blamed, refused>>

-----------------------------------------------------------------------------
\* Days pass.
RowAges(t) ==
  /\ Doing(t, "done")
  /\ row[t].status \notin {"NONE", "DELETED"} /\ ~row[t].due
  /\ row' = [row EXCEPT ![t].due = TRUE]
  /\ UNCHANGED <<text, history, credential, blamed, refused, faults>>

\* cleanup: first what has expired in the store, which is inserted after the row it belongs to
\* and so is younger; what that throws is swallowed.  Then the rows.
CleanupHistory(expired) ==
  /\ expired # {}
  /\ \A t \in expired : Kept(t) /\ row[t].due
  /\ history' = [t \in Text |-> IF t \in expired THEN NoEntry ELSE history[t]]
  /\ UNCHANGED <<text, row, credential, blamed, refused, faults>>

CleanupRows ==
  /\ \E t \in Text : row[t].due
  /\ row' = [t \in Text |-> IF row[t].due THEN [NoRow EXCEPT !.status = "DELETED"] ELSE row[t]]
  /\ UNCHANGED <<text, history, credential, blamed, refused, faults>>

TextStep(t) ==
  \/ StartText(t) \/ CreateRow(t) \/ HistoryCreate(t) \/ InsertLate(t) \/ InputFallback(t)
  \/ ProcessText(t) \/ TextFails(t) \/ TextWorks(t) \/ HistoryComplete(t) \/ CompleteRow(t)
  \/ MarkText(t) \/ FailRow(t) \/ TextDies(t) \/ RowAges(t)
  \/ \E a \in Answer : TextAnswers(t, a)

TextUsing == {text[t].key : t \in {s \in Text : ~Doing(s, "done")}} \ {0}

TextsNext ==
  \/ (JobsNext \/ Configure(Using \union TextUsing)) /\ UNCHANGED textVars
  \/ /\ \/ \E t \in Text : TextStep(t)
        \/ \E expired \in SUBSET Text : CleanupHistory(expired)
        \/ CleanupRows
     /\ UNCHANGED imageVars

TextsSpec == TextsInit /\ [][TextsNext]_<<vars, textVars>>

-----------------------------------------------------------------------------
\* hydrate: the store's payload first, then the row's own.
Shown(t) ==
  [input  |-> Kept(t) \/ row[t].input,
   output |-> (Kept(t) /\ history[t].output) \/ row[t].output]

\* A request that ended can be read with its input and, if COMPLETED, its output until retention
\* is due to delete it, whichever writes to the store failed, were late or not acknowledged, as
\* long as the store answers the reader.
HistoryReadable ==
  \A t \in Text :
    Doing(t, "done") /\ ~text[t].left /\ row[t].status \in {"COMPLETED", "FAILED"} /\ ~row[t].due
      => Shown(t).input /\ (row[t].status = "COMPLETED" => Shown(t).output)
=============================================================================
