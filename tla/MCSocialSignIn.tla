---------------------------- MODULE MCSocialSignIn ----------------------------
(***************************************************************************)
(* SocialSignIn, and with it Accounts, on small instances: either time     *)
(* passes and no social flow is begun, or flows run within one second.     *)
(***************************************************************************)
EXTENDS SocialSignIn, TLC

CONSTANTS u1, a1, a2

Says(provider, email, verified, hosted, owns) ==
  [provider |-> provider, email |-> email, verified |-> verified, hosted |-> hosted, owns |-> owns]

\* Two accounts at Google, or one at GitHub and one at Facebook: the mailbox of u1 is the first's.
AtGoogle == (a1 :> Says("google", u1, TRUE, TRUE, TRUE))
            @@ (a2 :> Says("google", u1, TRUE, FALSE, FALSE))
Elsewhere == (a1 :> Says("github", u1, TRUE, FALSE, TRUE))
             @@ (a2 :> Says("facebook", u1, TRUE, FALSE, FALSE))

MCProfiles == {AtGoogle, Elsewhere}

\* Nobody has registered and the clock stands at the bound.
OneSecond ==
  /\ user = [u \in User |-> NoUser]
  /\ identity = [a \in Account |-> "none"]
  /\ session = [s \in Session |-> Unused]
  /\ answer = NoAnswer
  /\ call = [c \in Caller |-> Idle]
  /\ now = MaxTime
  /\ flow = [x \in Attempt |-> NoFlow]
  /\ facts \in Profiles
  /\ vouched = {}

\* Every attempt is used up.
NoFlows ==
  /\ Init
  /\ flow = [x \in Attempt |-> [pc |-> "done"]]
  /\ facts = AtGoogle
  /\ vouched = {}

\* Two sessions; a third one only for a second link to end a behaviour with.
Bound ==
  \/ Cardinality({s \in Session : Exists(s)'}) <= 2
  \/ \E x \in Attempt : In(x, "linking") /\ In(x, "done")'

MCSpec == (OneSecond \/ NoFlows) /\ [][Next /\ Bound]_socialVars

Symmetry == Permutations(Session) \union Permutations(Attempt) \union Permutations(Caller)
=============================================================================
