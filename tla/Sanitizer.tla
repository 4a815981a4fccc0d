------------------------------- MODULE Sanitizer -------------------------------
(***************************************************************************)
(* What request tracking keeps of a query string and a body                *)
(* (request-tracking/sanitizer.ts), as functions of what they are made of. *)
(*                                                                         *)
(* A payload is a set of leaves.  A leaf is `hidden` if the bounds on      *)
(* nesting and on array items cut it off before any sensitive name is met. *)
(***************************************************************************)

Leaf == [sensitive : BOOLEAN, hidden : BOOLEAN, long : BOOLEAN]

\* big: what is left of it exceeds the configured number of bytes.
Payload == [leaves : SUBSET Leaf, big : BOOLEAN]
NoPayload == [leaves |-> {}, big |-> FALSE]

\* Route classes: AUTH_EMAIL_ROUTES, the other routes whose bodies are private, all the rest.
Route == {"auth-email", "private", "plain"}

-----------------------------------------------------------------------------
VisitSlip(leaf) ==
  IF leaf.hidden THEN "[MAX_DEPTH]"
  ELSE IF leaf.long THEN "[TRUNCATED]"
  ELSE IF leaf.sensitive THEN "[REDACTED]"
  ELSE "value"

\* visit: a name is looked at before the value under it, however long or nested that is.
Visit(leaf) ==
  IF leaf.hidden THEN "[MAX_DEPTH]"
  ELSE IF leaf.sensitive THEN "[REDACTED]"
  ELSE IF leaf.long THEN "[TRUNCATED]"
  ELSE "value"

\* A truncated string keeps its beginning.
Readable(leaf) == Visit(leaf) \in {"value", "[TRUNCATED]"}

\* sanitizePayload: what remains readable, and the flags.
SanitizePayload(p) ==
  [readable  |-> IF p.big THEN {} ELSE {leaf \in p.leaves : Readable(leaf)},
   captured  |-> TRUE,
   truncated |-> p.big \/ \E leaf \in p.leaves : Visit(leaf) \in {"[MAX_DEPTH]", "[TRUNCATED]"},
   redacted  |-> \E leaf \in p.leaves : Visit(leaf) = "[REDACTED]"]

NotCaptured(redacted) ==
  [readable |-> {}, captured |-> FALSE, truncated |-> FALSE, redacted |-> redacted]

\* sanitizeHttpBody: of a body the email, on the routes that ask for one, and nothing else.
SanitizeHttpBody(route, email, enabled) ==
  CASE ~enabled -> NotCaptured(FALSE)
    [] enabled /\ route = "auth-email" ->
         [readable |-> {"email"} \cap email, captured |-> email # {}, truncated |-> FALSE,
          redacted |-> TRUE]
    [] enabled /\ route = "private" -> NotCaptured(TRUE)
    [] enabled /\ route = "plain" -> NotCaptured(FALSE)
=============================================================================
