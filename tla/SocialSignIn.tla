----------------------------- MODULE SocialSignIn -----------------------------
(***************************************************************************)
(* Signing in through a social provider and linking an account of it to an *)
(* existing user: SocialAuthService (auth/social-auth.service.ts), next to *)
(* everything Accounts does.  A user is named by his email.                *)
(*                                                                         *)
(* An attempt and the grant it leads to are claimed by conditional         *)
(* updates, so a second callback or exchange of the same one changes       *)
(* nothing.  The exchange's transaction is READ COMMITTED: its reads are   *)
(* one step, its writes, with the constraints they meet, another.          *)
(***************************************************************************)
EXTENDS Accounts

CONSTANTS
  Attempt,  \* SocialAuthAttempt ids; bound: flows started
  Profiles  \* what the providers may say of the accounts

P == INSTANCE SocialProfiles

ASSUME ProfileAssumption ==
  \A f \in Profiles : f \in [Account -> P!AccountFacts] /\ \A a \in Account : P!Guaranteed(f[a])

VARIABLES
  flow,    \* attempts, their grants and the requests that redeem them
  facts,   \* what the providers say of the accounts
  vouched  \* history: the users whose mailbox somebody who reads it vouched for in a flow

socialVars == <<vars, flow, facts, vouched>>

NoFlow == [pc |-> "none"]

SocialInit ==
  /\ Init
  /\ flow = [x \in Attempt |-> NoFlow]
  /\ facts \in Profiles
  /\ vouched = {}

Profile(a) == P!ProfileForCode(facts[a])
SameProvider(a) == {b \in Account : facts[b].provider = facts[a].provider}
LinkedAt(u, a) == \E b \in SameProvider(a) : identity[b] = u

In(x, pc) == flow[x].pc = pc
Step(x, to) == flow' = [flow EXCEPT ![x] = to]
Done(x) == Step(x, [pc |-> "done"])

\* The write that marks the user of a flow as verified, if it does.
Vouch(a, marks) ==
  vouched' = IF marks /\ facts[a].owns THEN vouched \union {facts[a].email} ELSE vouched

\* assertLink.
MayLink(s) == Usable(s) /\ ~user[session[s].user].deleted

\* An attempt to sign in, or one to link that is bound to the user and the session it came from.
Start(x) ==
  /\ In(x, "none")
  /\ Step(x, [pc |-> "started", link |-> "none"])
  /\ Quiet
  /\ UNCHANGED <<user, identity, session, call, now, vouched>>

StartLink(x, s) ==
  /\ In(x, "none")
  /\ MayLink(s)
  /\ Step(x, [pc |-> "started", link |-> s])
  /\ Quiet
  /\ UNCHANGED <<user, identity, session, call, now, vouched>>

\* The attempt is claimed, the provider answers with a profile, the grant is written.
Callback(x, a) ==
  /\ In(x, "started")
  /\ Profile(a).ok
  /\ Step(x, [pc |-> "granted", link |-> flow[x].link, account |-> a])
  /\ Quiet
  /\ UNCHANGED <<user, identity, session, call, now, vouched>>

\* The attempt expires unused or its callback fails; the grant expires; the exchange, which has
\* burnt the grant first, fails or is refused before it has written anything.
Abandon(x) ==
  /\ flow[x].pc \notin {"none", "done"}
  /\ Done(x)
  /\ Quiet
  /\ UNCHANGED <<user, identity, session, call, now, vouched>>

-----------------------------------------------------------------------------
\* exchange with linkUserId, up to the decision on the mailbox.
LinkRead(x) ==
  LET s == flow[x].link
      a == flow[x].account
      u == session[s].user
      trusted == Profile(a).trusted /\ Profile(a).email = u
  IN /\ In(x, "granted")
     /\ s # "none"
     /\ MayLink(s)
     /\ identity[a] \in {"none", u}
     /\ \A b \in SameProvider(a) : identity[b] = u => b = a
     /\ IF user[u].verified \/ trusted
        THEN Step(x, [pc |-> "linking", user |-> u, account |-> a,
                      create |-> identity[a] = "none", verify |-> ~user[u].verified])
        ELSE Step(x, [pc |-> "proving", user |-> u])
     /\ Quiet
     /\ UNCHANGED <<user, identity, session, call, now, vouched>>

\* A unique violation, or a user who is not ACTIVE when read again, rolls everything back.
LinkWrite(x, s) ==
  LET f == flow[x]
      u == f.user
  IN /\ In(x, "linking")
     /\ ~Exists(s)
     /\ f.create => identity[f.account] = "none" /\ ~LinkedAt(u, f.account)
     /\ user[u].status = "ACTIVE" /\ ~user[u].deleted
     /\ SetUser(u, [user[u] EXCEPT !.verified = user[u].verified \/ f.verify])
     /\ Vouch(f.account, f.verify)
     /\ identity' = IF f.create THEN [identity EXCEPT ![f.account] = u] ELSE identity
     /\ session' = [session EXCEPT ![s] = NewSession(u)]
     /\ Done(x)
     /\ Quiet
     /\ UNCHANGED <<call, now>>

\* exchange of an account that has an identity.
SignInRead(x) ==
  LET u == identity[flow[x].account] IN
  /\ In(x, "granted")
  /\ flow[x].link = "none"
  /\ u # "none"
  /\ ~user[u].deleted
  /\ \/ /\ user[u].status = "ACTIVE"
        /\ Step(x, [pc |-> "signing", user |-> u])
     \/ /\ user[u].status = "PENDING_VERIFICATION"
        /\ Step(x, [pc |-> "proving", user |-> u])
  /\ Quiet
  /\ UNCHANGED <<user, identity, session, call, now, vouched>>

SignInWrite(x, s) ==
  /\ In(x, "signing")
  /\ ~Exists(s)
  /\ session' = [session EXCEPT ![s] = NewSession(flow[x].user)]
  /\ Done(x)
  /\ Quiet
  /\ UNCHANGED <<user, identity, call, now, vouched>>

\* exchange of an account nobody has: a new user, unless the email has one.
SignUpRead(x) ==
  LET a == flow[x].account IN
  /\ In(x, "granted")
  /\ flow[x].link = "none"
  /\ identity[a] = "none"
  /\ Profile(a).email # "none"
  /\ user[Profile(a).email].status = "NONE"
  /\ Step(x, [pc |-> "creating", account |-> a])
  /\ Quiet
  /\ UNCHANGED <<user, identity, session, call, now, vouched>>

Vacant(a) == identity[a] = "none" /\ user[Profile(a).email].status = "NONE"

SignUpTrusted(x, s) ==
  LET a == flow[x].account
      u == Profile(a).email
  IN /\ In(x, "creating")
     /\ Profile(a).trusted /\ Vacant(a)
     /\ ~Exists(s)
     /\ SetUser(u, NewUser(a, "ACTIVE", TRUE, 0))
     /\ Vouch(a, TRUE)
     /\ identity' = [identity EXCEPT ![a] = u]
     /\ session' = [session EXCEPT ![s] = NewSession(u)]
     /\ Done(x)
     /\ Quiet
     /\ UNCHANGED <<call, now>>

SignUpUntrusted(x) ==
  LET a == flow[x].account
      u == Profile(a).email
  IN /\ In(x, "creating")
     /\ ~Profile(a).trusted /\ Vacant(a)
     /\ SetUser(u, NewUser(a, "PENDING_VERIFICATION", FALSE, 0))
     /\ identity' = [identity EXCEPT ![a] = u]
     /\ Step(x, [pc |-> "proving", user |-> u])
     /\ Quiet
     /\ UNCHANGED <<session, call, now, vouched>>

\* sendSocialVerification, after the transaction.
SendProof(x) ==
  LET u == flow[x].user IN
  /\ In(x, "proving")
  /\ Verifiable(u) /\ ~user[u].verified
  /\ SendCode(u)
  /\ Done(x)
  /\ Quiet
  /\ UNCHANGED <<identity, session, call, now, vouched>>

FlowStep(x) ==
  \/ Start(x) \/ Abandon(x)
  \/ \E a \in Account : Callback(x, a)
  \/ LinkRead(x) \/ SignInRead(x) \/ SignUpRead(x) \/ SignUpUntrusted(x) \/ SendProof(x)
  \/ \E s \in Session :
       StartLink(x, s) \/ LinkWrite(x, s) \/ SignInWrite(x, s) \/ SignUpTrusted(x, s)

Next ==
  \/ AccountsNext /\ UNCHANGED <<flow, facts, vouched>>
  \/ \E x \in Attempt : FlowStep(x) /\ UNCHANGED facts

Spec == SocialInit /\ [][Next]_socialVars

-----------------------------------------------------------------------------
\* An email never merges accounts: a user signs in through an account that created him or that
\* was linked when his mailbox was proved, and proofs in flight change nothing about it.  A
\* mailbox counts as proved only once somebody who reads it showed so: by a code mailed to it,
\* by an account of a provider that guarantees it, or through an administrator.  And no two flows
\* together link a user to two accounts of one provider.
IdentityProved ==
  /\ \A a \in Account :
       identity[a] # "none" => user[identity[a]].verified \/ user[identity[a]].origin = a
  /\ \A u \in User :
       user[u].verified => user[u].origin = "admin" \/ user[u].codeUsed \/ u \in vouched
  /\ \A u \in User, a \in Account : Cardinality({b \in SameProvider(a) : identity[b] = u}) <= 1
=============================================================================
