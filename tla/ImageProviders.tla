----------------------------- MODULE ImageProviders -----------------------------
(***************************************************************************)
(* The adapters image operations call (ai/providers/*-image.provider.ts,   *)
(* image-provider.registry.ts) and what they make of a provider's answers. *)
(*                                                                         *)
(* OpenAI, xAI and Google answer one request with an image or an error     *)
(* that carries the HTTP status.  Replicate may be asked for the model's   *)
(* version first, is then given a prediction to run, and is polled until   *)
(* it ends or the polls run out; its errors keep only their text.          *)
(***************************************************************************)
EXTENDS Integers

CONSTANTS
  Job,      \* requests; bound: their number
  Provider, \* the adapters variants name
  MaxPolls  \* polls of a prediction; 60 in the code

ASSUME ProviderAssumption ==
  Provider \subseteq {"replicate", "openai", "google", "xai", "stability"} /\ MaxPolls \in Nat

VARIABLES
  call,      \* [Job -> the adapter's execute]
  prediction \* [Job -> the Replicate prediction it created]

providerVars == <<call, prediction>>

\* 401 stands for 403 too.  words: they read like an invalid API key; content: what was asked for is in it.
Answer == [status : {200, 401, 429, 500}, words : BOOLEAN, content : BOOLEAN]
Input == [edits : BOOLEAN, prompt : BOOLEAN, image : BOOLEAN]

NoCall == [pc |-> "idle", provider |-> "none", seen |-> "none", polls |-> 0, auth |-> FALSE]

ProvidersInit ==
  /\ call = [j \in Job |-> NoCall]
  /\ prediction = [j \in Job |-> "none"]

-----------------------------------------------------------------------------
\* assertPromptImageInput, and isByokImageProvider for a key of the user's own.
Prompted == {"openai", "google", "xai"}
InputOk(p, in) == p \in Prompted => in.prompt /\ (in.edits => in.image)
TakesOwnKey(p) == p \in Prompted \union {"replicate"}

\* The registry has no adapter, or a stub; the adapter cannot edit.
NoAdapter(p) == p = "stability"
NoEdits(p, in) == p = "xai" /\ in.edits

\* What execute does first: refuse, ask for the version the variant does not name, or ask.
\* configured: there is an API key, the user's or the environment's.
FirstStep(p, in, configured, version) ==
  IF NoAdapter(p) \/ ~configured \/ NoEdits(p, in) THEN "refuse"
  ELSE IF p = "replicate" /\ ~version THEN "resolve"
  ELSE "ask"

\* What the thrown errors say of an answer: Replicate's have no providerStatus, and that of an
\* exhausted Google quota has words of its own.
ReplicateError(a) == [status |-> 0, words |-> a.words]
OpenAiError(a) == [status |-> a.status, words |-> a.words]
GoogleError(a) == [status |-> a.status, words |-> a.words /\ a.status # 429]

IsProviderAuthErrorSlip(e) == e.status \in {401, 429} \/ e.words

\* isProviderAuthError: a status 401 or 403, or words that say so.
IsProviderAuthError(e) == e.status = 401 \/ e.words

RefusesKey(a) == a.status = 401 \/ a.words

Succeeds(j) == call' = [call EXCEPT ![j] = [NoCall EXCEPT !.pc = "done"]]
Fails(j, auth) == call' = [call EXCEPT ![j] = [NoCall EXCEPT !.pc = "failed", !.auth = auth]]
FailsWith(j, error) == Fails(j, IsProviderAuthError(error))

\* pingByokCredential: a model list, or Replicate's account, asked for with the key.
PingByokCredential(p, a) == TakesOwnKey(p) /\ a.status = 200

-----------------------------------------------------------------------------
\* An answer that is the last must hold what was asked for: an image.
Delivers(j, a) == (a.content /\ Succeeds(j)) \/ (~a.content /\ Fails(j, FALSE))

\* One request for a generation or an edit.
AskOpenAi(j, a) ==
  /\ call[j].pc = "ask" /\ call[j].provider \in {"openai", "xai"}
  /\ (a.status = 200 /\ Delivers(j, a)) \/ (a.status # 200 /\ FailsWith(j, OpenAiError(a)))
  /\ UNCHANGED prediction

AskGoogle(j, a) ==
  /\ call[j].pc = "ask" /\ call[j].provider = "google"
  /\ (a.status = 200 /\ Delivers(j, a)) \/ (a.status # 200 /\ FailsWith(j, GoogleError(a)))
  /\ UNCHANGED prediction

\* resolveVersionId of a community model; one without a version fails.
ResolveVersion(j, a) ==
  /\ call[j].pc = "resolve"
  /\ \/ a.status = 200 /\ a.content /\ call' = [call EXCEPT ![j].pc = "ask"]
     \/ a.status = 200 /\ ~a.content /\ Fails(j, FALSE)
     \/ a.status # 200 /\ FailsWith(j, ReplicateError(a))
  /\ UNCHANGED prediction

\* POST /v1/predictions; a prediction may have ended by the time it is answered.
CreatePrediction(j, a) ==
  /\ call[j].pc = "ask" /\ call[j].provider = "replicate"
  /\ \/ /\ a.status = 200
        /\ \E s \in {"processing", "succeeded", "failed"} :
             /\ prediction' = [prediction EXCEPT ![j] = s]
             /\ call' = [call EXCEPT ![j].pc = "poll", ![j].seen = s]
     \/ a.status # 200 /\ FailsWith(j, ReplicateError(a)) /\ UNCHANGED prediction

\* The prediction runs at Replicate; canceled is a failure to all who look.
PredictionEnds(j, s) ==
  /\ prediction[j] = "processing"
  /\ prediction' = [prediction EXCEPT ![j] = s]
  /\ UNCHANGED call

\* One poll; its HTTP status is not looked at: an error's body has no status, which ends the loop.
Poll(j, ok) ==
  /\ call[j].pc = "poll" /\ call[j].seen = "processing"
  /\ call[j].polls < MaxPolls
  /\ call' = [call EXCEPT ![j].polls = call[j].polls + 1,
                          ![j].seen = IF ok THEN prediction[j] ELSE "error"]
  /\ UNCHANGED prediction

\* The end of the loop: only a prediction that succeeded with an image counts.
ReadPrediction(j, a) ==
  /\ call[j].pc = "poll"
  /\ call[j].seen # "processing" \/ call[j].polls = MaxPolls
  /\ \/ call[j].seen = "succeeded" /\ Delivers(j, a)
     \/ call[j].seen # "succeeded" /\ FailsWith(j, ReplicateError(a))
  /\ UNCHANGED prediction

\* The adapter refuses before it asks anyone.
Refuses(j) ==
  /\ call[j].pc = "refuse"
  /\ Fails(j, FALSE)
  /\ UNCHANGED prediction

\* fetch rejects, or the body of a poll is no JSON.
Unreachable(j) ==
  /\ call[j].pc \in {"resolve", "ask", "poll"}
  /\ Fails(j, FALSE)
  /\ UNCHANGED prediction

Answered(j, a) ==
  \/ AskOpenAi(j, a) \/ AskGoogle(j, a)
  \/ ResolveVersion(j, a) \/ CreatePrediction(j, a) \/ ReadPrediction(j, a)
=============================================================================
