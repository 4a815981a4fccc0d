---------------------------- MODULE SessionFamilies ----------------------------
(***************************************************************************)
(* What a login promises, whatever else the backend does: a family of      *)
(* refresh tokens that is opened once, hands out one token after another,  *)
(* honours the newest one and for a while the one it replaced, and ends    *)
(* for good, at the latest when a token it no longer honours is presented. *)
(***************************************************************************)
EXTENDS Integers

CONSTANT Session

VARIABLES
  phase,   \* of a session: "unused", "live", "closed"
  newest,  \* the token handed out last; tokens are numbered in the order of issue
  stale,   \* replaced tokens that are honoured still
  answer   \* to the token presented in the step just taken

vars == <<phase, newest, stale, answer>>

NoAnswer == [result |-> "none"]
Answer(s, t, r) == [result |-> r, session |-> s, token |-> t]

Init ==
  /\ phase = [s \in Session |-> "unused"]
  /\ newest = [s \in Session |-> -1]
  /\ stale = [s \in Session |-> {}]
  /\ answer = NoAnswer

Honoured(s) == {newest[s]} \union stale[s]

Open(s) ==
  /\ phase[s] = "unused"
  /\ phase' = [phase EXCEPT ![s] = "live"]
  /\ newest'[s] \in Nat
  /\ newest' = [newest EXCEPT ![s] = newest'[s]]
  /\ answer' = NoAnswer
  /\ UNCHANGED stale

\* An honoured token buys a new pair; the newest so far becomes the stale one.
Rotate(s) ==
  /\ phase[s] = "live"
  /\ answer'.result = "pair"
  /\ answer'.token \in Honoured(s)
  /\ answer' = Answer(s, answer'.token, "pair")
  /\ newest'[s] >= newest[s]
  /\ newest' = [newest EXCEPT ![s] = newest'[s]]
  /\ stale' = [stale EXCEPT ![s] = {newest[s]}]
  /\ UNCHANGED phase

\* A stale token may buy an access token only, and changes nothing.
Tolerate(s) ==
  /\ phase[s] = "live"
  /\ answer'.result = "access"
  /\ answer'.token \in stale[s]
  /\ answer' = Answer(s, answer'.token, "access")
  /\ UNCHANGED <<phase, newest, stale>>

\* A token not honoured any more ends the family.
Reuse(s) ==
  /\ phase[s] = "live"
  /\ answer'.result = "reuse"
  /\ answer'.token \notin Honoured(s)
  /\ answer' = Answer(s, answer'.token, "reuse")
  /\ phase' = [phase EXCEPT ![s] = "closed"]
  /\ UNCHANGED <<newest, stale>>

\* Sessions end, and stale tokens lapse, for reasons of others.
Decay ==
  /\ answer' = NoAnswer
  /\ \A s \in Session :
       /\ phase'[s] # phase[s] => phase[s] = "live" /\ phase'[s] = "closed"
       /\ stale'[s] \subseteq stale[s]
  /\ UNCHANGED newest

Next == Decay \/ \E s \in Session : Open(s) \/ Rotate(s) \/ Tolerate(s) \/ Reuse(s)

Spec == Init /\ [][Next]_vars
=============================================================================
