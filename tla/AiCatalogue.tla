------------------------------ MODULE AiCatalogue ------------------------------
(***************************************************************************)
(* What an image operation is run with: the variants of one operation type *)
(* (AiOperationsCatalogService, ai/ai-operations.catalog.ts) and one API   *)
(* key of a user's own (AiCredentialsService, ai-credentials.service.ts).  *)
(*                                                                         *)
(* Making a variant the default is a READ COMMITTED transaction: it clears *)
(* the defaults it can see, then sets its own.                             *)
(***************************************************************************)
EXTENDS Integers, FiniteSets

CONSTANTS
  Variant, \* AiProviderVariant ids of the type
  Price,   \* creditCost values
  Admin,   \* bound: changes of the default in flight
  MaxKeys  \* bound: API keys the credential ever holds

VARIABLES
  type,       \* AiOperationType.isActive
  variant,    \* [Variant -> [exists, active, default, price]]
  change,     \* [Admin -> the transaction that makes a variant the default]
  credential, \* the row: `key` counts its API keys, 0 without a row
  missed,     \* history: the last of those changes missed a default set meanwhile
  blamed,     \* history: the key whose failure set the status last
  replaced,   \* history: keys replaced while a request was using them
  refused     \* history: keys that failed a test, or were refused in a provider's status or words

catalogueVars == <<type, variant, change, missed>>
credentialVars == <<credential, blamed, replaced, refused>>

NoVariant(price) == [exists |-> FALSE, active |-> FALSE, default |-> FALSE, price |-> price]
NoCredential == [key |-> 0, status |-> "ACTIVE", provider |-> "none", removed |-> FALSE]
NoChange == [pc |-> "idle"]

CatalogueInit ==
  /\ type = TRUE
  /\ variant \in [Variant -> {NoVariant(p) : p \in Price}]
  /\ change = [a \in Admin |-> NoChange]
  /\ credential = NoCredential
  /\ missed = FALSE /\ blamed = 0 /\ replaced = {} /\ refused = {}

-----------------------------------------------------------------------------
Defaults == {v \in Variant : variant[v].default}

\* createType, updateType and deleteType, which only deactivates.
SetType(active) ==
  /\ type' = active
  /\ UNCHANGED <<variant, change, missed, credentialVars>>

\* createVariant without isDefault; the variant's price is drawn with it.
CreateVariant(v) ==
  /\ ~variant[v].exists
  /\ variant' = [variant EXCEPT ![v].exists = TRUE, ![v].active = TRUE]
  /\ UNCHANGED <<type, change, missed, credentialVars>>

\* updateVariant without isDefault: TRUE; a default variant may be deactivated.
UpdateVariant(v, active, default, price) ==
  /\ variant[v].exists
  /\ default => variant[v].default
  /\ variant' = [variant EXCEPT ![v] =
                   [exists |-> TRUE, active |-> active, default |-> default, price |-> price]]
  /\ UNCHANGED <<type, change, missed, credentialVars>>

DeleteVariant(v) ==
  /\ variant[v].exists
  /\ variant' = [variant EXCEPT ![v].active = FALSE, ![v].default = FALSE]
  /\ UNCHANGED <<type, change, missed, credentialVars>>

\* setDefault of an active variant, updateVariant with isDefault: TRUE of any, or createVariant
\* with it: the transaction's first statement sees the defaults committed by then ...
DefaultClear(a, v) ==
  /\ change[a].pc = "idle"
  /\ change' = [change EXCEPT ![a] = [pc |-> "setting", variant |-> v, sees |-> Defaults]]
  /\ UNCHANGED <<type, variant, missed, credentialVars>>

DefaultSetSlip(a) ==
  LET v == change[a].variant
  IN /\ change[a].pc = "setting"
     /\ variant' = [variant EXCEPT ![v].default = TRUE,
                                   ![v].active = variant[v].active \/ ~variant[v].exists,
                                   ![v].exists = TRUE]
     /\ missed' = (Defaults # change[a].sees)
     /\ change' = [change EXCEPT ![a] = NoChange]
     /\ UNCHANGED <<type, credentialVars>>

\* ... and its commit clears those and sets its own.
DefaultSet(a) ==
  LET v == change[a].variant
      cleared == [w \in Variant |-> IF w \in change[a].sees
                                    THEN [variant[w] EXCEPT !.default = FALSE] ELSE variant[w]]
  IN /\ change[a].pc = "setting"
     /\ variant' = [cleared EXCEPT ![v].default = TRUE,
                                   ![v].active = variant[v].active \/ ~variant[v].exists,
                                   ![v].exists = TRUE]
     /\ missed' = (Defaults # change[a].sees)
     /\ change' = [change EXCEPT ![a] = NoChange]
     /\ UNCHANGED <<type, credentialVars>>

\* resolveVariant: the variant asked for, or else one that is a default besides.
Resolvable(v) == type /\ variant[v].exists /\ variant[v].active

CatalogueStep ==
  \/ \E b \in BOOLEAN : SetType(b)
  \/ \E v \in Variant :
       \/ CreateVariant(v) \/ DeleteVariant(v)
       \/ \E active, default \in BOOLEAN, p \in Price : UpdateVariant(v, active, default, p)
       \/ \E a \in Admin : DefaultClear(a, v)
  \/ \E a \in Admin : DefaultSet(a)

-----------------------------------------------------------------------------
\* The credential.  `using` is the set of keys requests in flight hold decrypted.

CreateCredential(p) ==
  /\ credential.key = 0 /\ ~credential.removed
  /\ credential' = [credential EXCEPT !.key = 1, !.provider = p]
  /\ UNCHANGED <<blamed, replaced, refused, catalogueVars>>

\* update with an apiKey: the new key starts ACTIVE.
ReplaceKey(using) ==
  /\ credential.key \in 1 .. MaxKeys - 1
  /\ credential' = [credential EXCEPT !.key = credential.key + 1, !.status = "ACTIVE"]
  /\ replaced' = replaced \union ({credential.key} \cap using)
  /\ UNCHANGED <<blamed, refused, catalogueVars>>

RemoveCredential ==
  /\ credential.key > 0
  /\ credential' = [NoCredential EXCEPT !.removed = TRUE]
  /\ UNCHANGED <<blamed, replaced, refused, catalogueVars>>

\* markUsed: whatever key the row has by now, it is told how `key` fared; no row, no effect.
MarkUsed(key, failed) ==
  IF credential.key = 0
  THEN UNCHANGED <<credential, blamed>>
  ELSE /\ credential' = [credential EXCEPT !.status = IF failed THEN "INVALID" ELSE "ACTIVE"]
       /\ blamed' = IF failed THEN key ELSE blamed

-----------------------------------------------------------------------------
\* A type has one default variant, unless two administrators made different variants the default
\* at the same time; the next change then repairs it.
OneDefault == Cardinality(Defaults) <= 1 \/ missed

\* A key of the user's is INVALID only because a provider refused it or a test of it failed, not
\* for a quota, a timeout or a bad request; and a refusal of another key is held against it only
\* if it replaced that one while a request was using it.
BlameIsDeserved ==
  credential.status = "INVALID" =>
    /\ blamed \in refused
    /\ blamed = credential.key \/ blamed \in replaced
=============================================================================
